-------------------------- MODULE SimulatorProofs --------------------------
(***************************************************************************)
(* Proofs about Stabilizer, for any number of wires and any circuit.       *)
(*                                                                         *)
(* The invariant is WellFormed: a row anticommutes with its partner and    *)
(* with no other, and nothing but the identity commutes with all rows.     *)
(* Whether rows anticommute is the parity of a symplectic product, linear  *)
(* over the bits, so it is kept by gates, which only change which bits,    *)
(* and by the random branch, which adds the pivot where the products with  *)
(* its wire say so. Nothing is said of signs: they are what the invariant  *)
(* gives when operators are multiplied with their phases.                  *)
(*                                                                         *)
(* Products: Multiply is a group operation, and a product over a set of    *)
(* wires, a recursion, is known where any function solves its equations    *)
(* (BuildsTheProduct). So products over two sets of rows that commute      *)
(* multiply to one over their difference, and the group of a tableau is    *)
(* closed. The phase that _rowsum adds up wire by wire is that of Multiply *)
(* (SumsBalance, RowSumMultiplies).                                        *)
(*                                                                         *)
(* Measurements: the scratch row of the deterministic branch is in the     *)
(* group, and is Z on the wire but for its sign, because the two           *)
(* anticommute with the same rows. Gates: the images of X and Z are        *)
(* multiplied in closed form (ClosedForm), and a row is compared with that *)
(* on the wires of the gate.                                               *)
(***************************************************************************)
EXTENDS Stabilizer, DataFacts, FiniteSetTheorems, TLAPS

-----------------------------------------------------------------------------
(* Stabilizer.  How many wires a set has, and whether that is odd.          *)
Odd(S) == Cardinality(S) % 2 = 1

\* A set of wires is finite, so it can be counted.
LEMMA WiresAreCounted ==
    ASSUME StabilizerAssumption, NEW S \in SUBSET Wires
    PROVE  IsFiniteSet(S) /\ Cardinality(S) \in Nat
<1>1. IsFiniteSet(Wires)
  BY FS_Interval DEF Wires, StabilizerAssumption
<1>2. IsFiniteSet(S)
  BY <1>1, FS_Subset
<1> QED BY <1>2, FS_CardinalityType

\* Where two sets differ, each is counted but for what they share.
LEMMA DifferencesCount ==
    ASSUME StabilizerAssumption, NEW A \in SUBSET Wires, NEW B \in SUBSET Wires
    PROVE  /\ SymDiff(A, B) \in SUBSET Wires
           /\ Cardinality(SymDiff(A, B)) + 2 * Cardinality(A \cap B)
                = Cardinality(A) + Cardinality(B)
<1> DEFINE D == SymDiff(A, B)
           I == A \cap B
           U == A \cup B
           nothing == D \cap I
<1>1. D \in SUBSET Wires /\ I \in SUBSET Wires /\ U \in SUBSET Wires
  BY DEF SymDiff
<1>2. D \cup I = U /\ D \cap I = {}
  BY DEF SymDiff
<1>3. /\ IsFiniteSet(A) /\ IsFiniteSet(B) /\ IsFiniteSet(D) /\ IsFiniteSet(I)
      /\ Cardinality(A) \in Nat /\ Cardinality(B) \in Nat
      /\ Cardinality(D) \in Nat /\ Cardinality(I) \in Nat
  BY <1>1, WiresAreCounted
<1>4. Cardinality(U) = Cardinality(A) + Cardinality(B) - Cardinality(I)
  BY <1>3, FS_Union
<1>5. Cardinality(D \cup I) = Cardinality(D) + Cardinality(I) - Cardinality(nothing)
  BY <1>3, FS_Union
<1>6. Cardinality(nothing) = 0
  BY <1>2, FS_EmptySet
<1>7. Cardinality(U) = Cardinality(D \cup I)
  BY <1>2
<1> DEFINE a == Cardinality(A)
           b == Cardinality(B)
           d == Cardinality(D)
           i == Cardinality(I)
<1>8. d + i - 0 = a + b - i /\ a \in Nat /\ b \in Nat /\ d \in Nat /\ i \in Nat
  BY <1>3, <1>4, <1>5, <1>6, <1>7
<1> HIDE DEF a, b, d, i
<1>9. d + 2 * i = a + b
  BY <1>8
<1> QED BY <1>1, <1>9 DEF a, b, d, i

\* What two sets do not share is odd in number where one of the sets is odd.
LEMMA OddDifferences ==
    ASSUME StabilizerAssumption, NEW A \in SUBSET Wires, NEW B \in SUBSET Wires
    PROVE  Odd(SymDiff(A, B)) <=> ~ (Odd(A) <=> Odd(B))
<1> DEFINE a == Cardinality(A)
           b == Cardinality(B)
           c == Cardinality(A \cap B)
           d == Cardinality(SymDiff(A, B))
<1>1. A \cap B \in SUBSET Wires
  OBVIOUS
<1>2. SymDiff(A, B) \in SUBSET Wires /\ d + 2 * c = a + b
  BY DifferencesCount
<1>3. a \in Nat /\ b \in Nat /\ c \in Nat /\ d \in Nat
  BY <1>1, <1>2, WiresAreCounted
<1> HIDE DEF a, b, c, d
<1>4. (d % 2 = 1) <=> ~ ((a % 2 = 1) <=> (b % 2 = 1))
  BY <1>2, <1>3, SMTT(30)
<1> QED BY <1>4 DEF Odd, a, b, d

\* What a set shares with a difference.
LEMMA SharedDifferences ==
    ASSUME NEW A, NEW B, NEW C
    PROVE  /\ SymDiff(A, B) \cap C = SymDiff(A \cap C, B \cap C)
           /\ C \cap SymDiff(A, B) = SymDiff(C \cap A, C \cap B)
  BY DEF SymDiff

\* Bit is 1 where its condition holds and 0 where it does not.
LEMMA BitIs ==
    ASSUME NEW P
    PROVE  (P => Bit(P) = 1) /\ (~ P => Bit(P) = 0)
  BY DEF Bit

\* One wire counts once where it is in a set.
LEMMA OneCounts ==
    ASSUME StabilizerAssumption, NEW a \in Wires, NEW S \in SUBSET Wires
    PROVE  /\ Cardinality(S \cap {a}) = Bit(a \in S)
           /\ Cardinality(S) = Cardinality(S \ {a}) + Bit(a \in S)
           /\ Odd(S) <=> ~ (Odd(S \ {a}) <=> a \in S)
<1>1. IsFiniteSet(S) /\ Cardinality(S) \in Nat /\ S \ {a} \in SUBSET Wires
  BY WiresAreCounted
<1>2. Cardinality(S \ {a}) \in Nat
  BY <1>1, WiresAreCounted
<1>3. CASE a \in S
  <2>1. S \cap {a} = {a}
    BY <1>3
  <2>2. Cardinality({a}) = 1
    BY FS_Singleton
  <2>3. Cardinality(S \ {a}) = Cardinality(S) - 1
    BY <1>1, <1>3, FS_RemoveElement
  <2>4. Bit(a \in S) = 1
    BY <1>3 DEF Bit
  <2> DEFINE m == Cardinality(S)
             n == Cardinality(S \ {a})
  <2>5. m \in Nat /\ n \in Nat /\ n = m - 1
    BY <1>1, <1>2, <2>3
  <2> HIDE DEF m, n
  <2>6. m = n + 1 /\ ((m % 2 = 1) <=> ~ (n % 2 = 1))
    BY <2>5, SMTT(30)
  <2> QED BY <1>3, <2>1, <2>2, <2>4, <2>6 DEF Odd, m, n
<1>4. CASE a \notin S
  <2>1. S \cap {a} = {} /\ S \ {a} = S
    BY <1>4
  <2>2. Cardinality({}) = 0
    BY FS_EmptySet
  <2>3. Bit(a \in S) = 0
    BY <1>4 DEF Bit
  <2>4. Cardinality(S \cap {a}) = Bit(a \in S)
    BY <2>1, <2>2, <2>3
  <2> DEFINE m == Cardinality(S)
  <2>5. m \in Nat /\ Cardinality(S \ {a}) = m
    BY <1>1, <2>1
  <2> HIDE DEF m
  <2>6. m = m + 0
    BY <2>5
  <2> QED BY <1>4, <2>1, <2>3, <2>4, <2>5, <2>6 DEF m
<1> QED BY <1>3, <1>4

\* The empty set is not odd.
LEMMA NoWires == ~ Odd({}) /\ Cardinality({}) = 0
<1>1. Cardinality({}) = 0
  BY FS_EmptySet
<1>2. ~ (0 % 2 = 1)
  OBVIOUS
<1> QED BY <1>1, <1>2 DEF Odd

\* What a set shares with one wire is odd where the wire is in the set.
LEMMA OddOne ==
    ASSUME StabilizerAssumption, NEW a \in Wires, NEW S \in SUBSET Wires
    PROVE  (Odd(S \cap {a}) <=> a \in S) /\ (Odd({a} \cap S) <=> a \in S)
<1>1. {a} \cap S = S \cap {a} /\ S \cap {a} \in SUBSET Wires /\ (S \cap {a}) \ {a} = {}
  OBVIOUS
<1>2. Odd(S \cap {a}) <=> ~ (Odd((S \cap {a}) \ {a}) <=> a \in S \cap {a})
  BY <1>1, OneCounts
<1>3. ~ Odd((S \cap {a}) \ {a})
  BY <1>1, NoWires
<1> QED BY <1>1, <1>2, <1>3
-----------------------------------------------------------------------------
(* A row, or an operator, but for its sign or phase: a vector of bits. Two  *)
(* anticommute when their symplectic product is 1.                          *)
IsVector(v) == v.x \in SUBSET Wires /\ v.z \in SUBSET Wires

IsSum(w, u, v) == w.x = SymDiff(u.x, v.x) /\ w.z = SymDiff(u.z, v.z)

IsZero(v) == v.x = {} /\ v.z = {}

Anti(u, v) == ~ (Odd(u.x \cap v.z) <=> Odd(u.z \cap v.x))

\* Anticommuting is symmetric, and nothing anticommutes with itself.
LEMMA AntiEitherWay ==
    ASSUME StabilizerAssumption, NEW u, NEW v, IsVector(u), IsVector(v)
    PROVE  (Anti(u, v) <=> Anti(v, u)) /\ ~ Anti(u, u)
<1>1. u.x \cap v.z = v.z \cap u.x /\ u.z \cap v.x = v.x \cap u.z /\ u.z \cap u.x = u.x \cap u.z
  OBVIOUS
<1> QED BY <1>1 DEF Anti

\* The product is linear.
LEMMA AntiIsLinear ==
    ASSUME StabilizerAssumption, NEW u, NEW v, NEW w, NEW t,
           IsVector(u), IsVector(v), IsVector(t), IsSum(w, u, v)
    PROVE  /\ IsVector(w)
           /\ Anti(w, t) <=> ~ (Anti(u, t) <=> Anti(v, t))
           /\ Anti(t, w) <=> ~ (Anti(t, u) <=> Anti(t, v))
<1>1. IsVector(w)
  BY DEF IsVector, IsSum, SymDiff
<1>2. /\ w.x \cap t.z = SymDiff(u.x \cap t.z, v.x \cap t.z)
      /\ w.z \cap t.x = SymDiff(u.z \cap t.x, v.z \cap t.x)
  BY SharedDifferences DEF IsSum
<1>3. /\ u.x \cap t.z \in SUBSET Wires /\ v.x \cap t.z \in SUBSET Wires
      /\ u.z \cap t.x \in SUBSET Wires /\ v.z \cap t.x \in SUBSET Wires
  BY DEF IsVector
<1>4. Odd(w.x \cap t.z) <=> ~ (Odd(u.x \cap t.z) <=> Odd(v.x \cap t.z))
  <2> DEFINE A == u.x \cap t.z
             B == v.x \cap t.z
  <2>1. A \in SUBSET Wires /\ B \in SUBSET Wires /\ w.x \cap t.z = SymDiff(A, B)
    BY <1>2, <1>3
  <2> HIDE DEF A, B
  <2>2. Odd(SymDiff(A, B)) <=> ~ (Odd(A) <=> Odd(B))
    BY <2>1, OddDifferences
  <2> QED BY <2>1, <2>2 DEF A, B
<1>7. Odd(w.z \cap t.x) <=> ~ (Odd(u.z \cap t.x) <=> Odd(v.z \cap t.x))
  <2> DEFINE A == u.z \cap t.x
             B == v.z \cap t.x
  <2>1. A \in SUBSET Wires /\ B \in SUBSET Wires /\ w.z \cap t.x = SymDiff(A, B)
    BY <1>2, <1>3
  <2> HIDE DEF A, B
  <2>2. Odd(SymDiff(A, B)) <=> ~ (Odd(A) <=> Odd(B))
    BY <2>1, OddDifferences
  <2> QED BY <2>1, <2>2 DEF A, B
<1>5. Anti(w, t) <=> ~ (Anti(u, t) <=> Anti(v, t))
  BY <1>4, <1>7 DEF Anti
<1>6. /\ Anti(t, w) <=> Anti(w, t)
      /\ Anti(t, u) <=> Anti(u, t)
      /\ Anti(t, v) <=> Anti(v, t)
  BY <1>1, AntiEitherWay
<1> QED BY <1>1, <1>5, <1>6

\* Whether rows anticommute depends on their bits only.
LEMMA AntiSame ==
    ASSUME NEW u, NEW v, NEW w, u.x = v.x, u.z = v.z
    PROVE  (Anti(u, w) <=> Anti(v, w)) /\ (Anti(w, u) <=> Anti(w, v))
  BY DEF Anti

\* Z on wire a anticommutes with the rows that have a bit in x there.
LEMMA AntiZ ==
    ASSUME StabilizerAssumption, NEW a \in Wires, NEW u, NEW v,
           IsVector(v), u.x = {}, u.z = {a}
    PROVE  IsVector(u) /\ (Anti(u, v) <=> a \in v.x) /\ (Anti(v, u) <=> a \in v.x)
<1>1. IsVector(u)
  BY DEF IsVector
<1>2. u.x \cap v.z = {} /\ u.z \cap v.x = {a} \cap v.x /\ v.x \in SUBSET Wires
  BY DEF IsVector
<1>3. ~ Odd(u.x \cap v.z) /\ (Odd(u.z \cap v.x) <=> a \in v.x)
  BY <1>2, NoWires, OddOne
<1>4. Anti(u, v) <=> a \in v.x
  BY <1>3 DEF Anti
<1> QED BY <1>1, <1>4, AntiEitherWay
-----------------------------------------------------------------------------
(* What a gate does to a row.                                               *)
Rows == [x : SUBSET Wires, z : SUBSET Wires, r : {0, 1}]

\* Negate changes the sign where its condition holds, and no bits.
LEMMA NegatedRow ==
    ASSUME NEW row \in Rows, NEW P
    PROVE  /\ Negate(row, P) \in Rows
           /\ Negate(row, P).x = row.x /\ Negate(row, P).z = row.z
           /\ Negate(row, P).r = (row.r + Bit(P)) % 2
<1>1. row.r \in {0, 1} /\ Bit(P) \in {0, 1}
  BY DEF Rows, Bit
<1> DEFINE r == row.r
           b == Bit(P)
           s == (r + b) % 2
<1>2. r \in {0, 1} /\ b \in {0, 1}
  BY <1>1
<1> HIDE DEF r, b
<1>3. s \in {0, 1}
  BY <1>2
<1>4. Negate(row, P) = [row EXCEPT !.r = s]
  BY DEF Negate, Rows, r, b
<1> HIDE DEF s
<1>5. /\ [row EXCEPT !.r = s] \in Rows
      /\ [row EXCEPT !.r = s].x = row.x /\ [row EXCEPT !.r = s].z = row.z
      /\ [row EXCEPT !.r = s].r = s
  BY <1>3 DEF Rows
<1> QED BY <1>4, <1>5 DEF s, r, b

\* H exchanges the bits of its wire, with a sign where both are set.
LEMMA HadamardRow ==
    ASSUME NEW row \in Rows, NEW a \in Wires, NEW h, h = Hadamard(row, a)
    PROVE  /\ h \in Rows
           /\ h.x = (row.x \ {a}) \cup (row.z \cap {a})
           /\ h.z = (row.z \ {a}) \cup (row.x \cap {a})
           /\ h.r = (row.r + Bit(a \in row.x \cap row.z)) % 2
<1> DEFINE turned == [row EXCEPT !.x = (@ \ {a}) \cup (row.z \cap {a}),
                                 !.z = (@ \ {a}) \cup (row.x \cap {a})]
<1>1. /\ turned \in Rows /\ turned.r = row.r
      /\ turned.x = (row.x \ {a}) \cup (row.z \cap {a})
      /\ turned.z = (row.z \ {a}) \cup (row.x \cap {a})
  BY DEF Rows
<1>2. h = Negate(turned, a \in row.x \cap row.z)
  BY DEF Hadamard
<1> HIDE DEF turned
<1> QED BY <1>1, <1>2, NegatedRow

\* S adds X to Z on its wire, with a sign where both are set.
LEMMA PhaseRow ==
    ASSUME NEW row \in Rows, NEW a \in Wires, NEW h, h = Phase(row, a)
    PROVE  /\ h \in Rows
           /\ h.x = row.x /\ h.z = SymDiff(row.z, row.x \cap {a})
           /\ h.r = (row.r + Bit(a \in row.x \cap row.z)) % 2
<1> DEFINE turned == [row EXCEPT !.z = SymDiff(@, row.x \cap {a})]
<1>1. /\ turned \in Rows /\ turned.r = row.r
      /\ turned.x = row.x /\ turned.z = SymDiff(row.z, row.x \cap {a})
  BY DEF Rows, SymDiff
<1>2. h = Negate(turned, a \in row.x \cap row.z)
  BY DEF Phase
<1> HIDE DEF turned
<1> QED BY <1>1, <1>2, NegatedRow

IsControlled(h, row, a, b) ==
    /\ h \in Rows
    /\ h.x = IF a \in row.x THEN SymDiff(row.x, {b}) ELSE row.x
    /\ h.z = IF b \in row.z THEN SymDiff(row.z, {a}) ELSE row.z
    /\ h.r = (row.r + Bit(a \in row.x /\ b \in row.z /\ (b \in row.x <=> a \in row.z))) % 2

\* CX copies X to the target and Z to the control, with its sign.
LEMMA ControlledXRow ==
    ASSUME NEW row \in Rows, NEW a \in Wires, NEW b \in Wires
    PROVE  IsControlled(ControlledX(row, a, b), row, a, b)
<1> DEFINE turned == [row EXCEPT !.x = IF a \in row.x THEN SymDiff(@, {b}) ELSE @,
                                 !.z = IF b \in row.z THEN SymDiff(@, {a}) ELSE @]
           h == ControlledX(row, a, b)
<1>1. /\ turned \in Rows /\ turned.r = row.r
      /\ turned.x = IF a \in row.x THEN SymDiff(row.x, {b}) ELSE row.x
      /\ turned.z = IF b \in row.z THEN SymDiff(row.z, {a}) ELSE row.z
  BY DEF Rows, SymDiff
<1>2. h = Negate(turned, a \in row.x /\ b \in row.z /\ (b \in row.x <=> a \in row.z))
  BY DEF ControlledX
<1> HIDE DEF turned, h
<1>3. IsControlled(h, row, a, b)
  BY <1>1, <1>2, NegatedRow DEF IsControlled
<1> QED BY <1>3 DEF h

\* X, Y and Z change signs only.
LEMMA SignedRow ==
    ASSUME NEW row \in Rows, NEW a \in Wires,
           NEW h \in {XGate(row, a), YGate(row, a), ZGate(row, a)}
    PROVE  h \in Rows /\ h.x = row.x /\ h.z = row.z
  BY NegatedRow DEF XGate, YGate, ZGate

\* The bits of a row are sets of wires.
LEMMA RowIsVector == ASSUME NEW v \in Rows PROVE IsVector(v)
  BY DEF Rows, IsVector
-----------------------------------------------------------------------------
(* A gate keeps what anticommutes, and makes of rows all rows but for sign. *)
Alike(u, v) == u.x = v.x /\ u.z = v.z

KeepsPairs(g) ==
    /\ g \in [Rows -> Rows]
    /\ \A u, v \in Rows : Anti(g[u], g[v]) <=> Anti(u, v)
    /\ \A u \in Rows : \E v \in Rows : Alike(g[v], u)
    /\ \A u, v \in Rows : Alike(u, v) => Alike(g[u], g[v])
    /\ \A v \in Rows : IsZero(v) => IsZero(g[v])

Then(g, h) == [v \in Rows |-> h[g[v]]]

\* Rows with the same bits anticommute with the same rows.
LEMMA AlikeAnti ==
    ASSUME NEW u, NEW v, NEW w, NEW t, Alike(u, v), Alike(w, t)
    PROVE  Anti(u, w) <=> Anti(v, t)
  BY DEF Anti, Alike

\* Two gates that keep pairs do so one after the other.
LEMMA OneAfterTheOther ==
    ASSUME NEW g, NEW h, KeepsPairs(g), KeepsPairs(h)
    PROVE  KeepsPairs(Then(g, h))
<1> DEFINE t == Then(g, h)
<1>1. t \in [Rows -> Rows] /\ \A v \in Rows : t[v] = h[g[v]] /\ g[v] \in Rows
  BY DEF Then, KeepsPairs
<1> HIDE DEF t
<1>2. ASSUME NEW u \in Rows, NEW v \in Rows PROVE Anti(t[u], t[v]) <=> Anti(u, v)
  <2>1. Anti(h[g[u]], h[g[v]]) <=> Anti(g[u], g[v])
    BY <1>1 DEF KeepsPairs
  <2>2. Anti(g[u], g[v]) <=> Anti(u, v)
    BY DEF KeepsPairs
  <2> QED BY <1>1, <2>1, <2>2
<1>3. ASSUME NEW u \in Rows PROVE \E v \in Rows : Alike(t[v], u)
  <2>1. PICK w \in Rows : Alike(h[w], u)
    BY DEF KeepsPairs
  <2>2. PICK v \in Rows : Alike(g[v], w)
    BY DEF KeepsPairs
  <2>3. Alike(h[g[v]], h[w])
    BY <1>1, <2>2 DEF KeepsPairs
  <2>4. Alike(t[v], u)
    BY <1>1, <2>1, <2>3 DEF Alike
  <2> QED BY <2>4
<1>5. ASSUME NEW u \in Rows, NEW v \in Rows, Alike(u, v) PROVE Alike(t[u], t[v])
  <2>1. Alike(g[u], g[v])
    BY <1>5 DEF KeepsPairs
  <2> QED BY <1>1, <2>1 DEF KeepsPairs
<1>4. ASSUME NEW v \in Rows, IsZero(v) PROVE IsZero(t[v])
  <2>1. IsZero(g[v])
    BY <1>4 DEF KeepsPairs
  <2> QED BY <1>1, <2>1 DEF KeepsPairs
<1> QED BY <1>1, <1>2, <1>3, <1>4, <1>5 DEF KeepsPairs, t

\* What anticommutes, counted apart from what happens on one wire.
LEMMA AntiOffOne ==
    ASSUME StabilizerAssumption, NEW a \in Wires, NEW u \in Rows, NEW v \in Rows
    PROVE  Anti(u, v) <=>
             ~ (~ (Odd((u.x \cap v.z) \ {a}) <=> (a \in u.x /\ a \in v.z))
                <=> ~ (Odd((u.z \cap v.x) \ {a}) <=> (a \in u.z /\ a \in v.x)))
<1>1. u.x \cap v.z \in SUBSET Wires /\ u.z \cap v.x \in SUBSET Wires
  BY DEF Rows
<1>2. Odd(u.x \cap v.z) <=> ~ (Odd((u.x \cap v.z) \ {a}) <=> a \in u.x \cap v.z)
  BY <1>1, OneCounts
<1>3. Odd(u.z \cap v.x) <=> ~ (Odd((u.z \cap v.x) \ {a}) <=> a \in u.z \cap v.x)
  BY <1>1, OneCounts
<1>4. /\ a \in u.x \cap v.z <=> (a \in u.x /\ a \in v.z)
      /\ a \in u.z \cap v.x <=> (a \in u.z /\ a \in v.x)
  OBVIOUS
<1> DEFINE p == Odd((u.x \cap v.z) \ {a})
           q == Odd((u.z \cap v.x) \ {a})
<1>5. Anti(u, v) <=> ~ (Odd(u.x \cap v.z) <=> Odd(u.z \cap v.x))
  BY DEF Anti
<1>6. (Odd(u.x \cap v.z) <=> ~ (p <=> a \in u.x \cap v.z))
      /\ (Odd(u.z \cap v.x) <=> ~ (q <=> a \in u.z \cap v.x))
  BY <1>2, <1>3
<1> QED BY <1>4, <1>5, <1>6

\* Gates on one wire agree with what they are off it, and mix x and z on it.
TurnsOne(g, a) ==
    /\ g \in [Rows -> Rows]
    /\ \A v \in Rows : g[v].x \ {a} = v.x \ {a} /\ g[v].z \ {a} = v.z \ {a}

\* A gate on one wire keeps pairs if it keeps what they share there.
LEMMA OneWireGateKeepsPairs ==
    ASSUME StabilizerAssumption, NEW a \in Wires, NEW g, TurnsOne(g, a),
           NEW u \in Rows, NEW v \in Rows,
           ~ ((a \in g[u].x /\ a \in g[v].z) <=> (a \in g[u].z /\ a \in g[v].x))
             <=> ~ ((a \in u.x /\ a \in v.z) <=> (a \in u.z /\ a \in v.x))
    PROVE  Anti(g[u], g[v]) <=> Anti(u, v)
<1> DEFINE s == g[u]
           t == g[v]
<1>1. s \in Rows /\ t \in Rows
  BY DEF TurnsOne
<1>2. /\ s.x \ {a} = u.x \ {a} /\ s.z \ {a} = u.z \ {a}
      /\ t.x \ {a} = v.x \ {a} /\ t.z \ {a} = v.z \ {a}
  BY DEF TurnsOne
<1>3. ~ ((a \in s.x /\ a \in t.z) <=> (a \in s.z /\ a \in t.x))
        <=> ~ ((a \in u.x /\ a \in v.z) <=> (a \in u.z /\ a \in v.x))
  OBVIOUS
<1> HIDE DEF s, t
<1>4. /\ (s.x \cap t.z) \ {a} = (u.x \cap v.z) \ {a}
      /\ (s.z \cap t.x) \ {a} = (u.z \cap v.x) \ {a}
  BY <1>2
<1>5. Anti(s, t) <=>
             ~ (~ (Odd((s.x \cap t.z) \ {a}) <=> (a \in s.x /\ a \in t.z))
                <=> ~ (Odd((s.z \cap t.x) \ {a}) <=> (a \in s.z /\ a \in t.x)))
  BY <1>1, AntiOffOne
<1>6. Anti(u, v) <=>
             ~ (~ (Odd((u.x \cap v.z) \ {a}) <=> (a \in u.x /\ a \in v.z))
                <=> ~ (Odd((u.z \cap v.x) \ {a}) <=> (a \in u.z /\ a \in v.x)))
  BY AntiOffOne
<1>7. Anti(s, t) <=> Anti(u, v)
  BY <1>3, <1>4, <1>5, <1>6
<1> QED BY <1>7 DEF s, t

HadamardOf(a) == [v \in Rows |-> Hadamard(v, a)]
PhaseOf(a) == [v \in Rows |-> Phase(v, a)]
ControlledXOf(a, b) == [v \in Rows |-> ControlledX(v, a, b)]

\* H exchanges the two terms of the symplectic product on its wire.
LEMMA HadamardKeepsPairs ==
    ASSUME StabilizerAssumption, NEW a \in Wires
    PROVE  KeepsPairs(HadamardOf(a))
<1> DEFINE g == HadamardOf(a)
<1>1. ASSUME NEW v \in Rows
      PROVE  /\ g[v] \in Rows
             /\ g[v].x = (v.x \ {a}) \cup (v.z \cap {a})
             /\ g[v].z = (v.z \ {a}) \cup (v.x \cap {a})
  BY HadamardRow DEF HadamardOf
<1>2. g \in [Rows -> Rows]
  BY <1>1 DEF HadamardOf
<1> HIDE DEF g
<1>3. TurnsOne(g, a)
  BY <1>1, <1>2 DEF TurnsOne
<1>4. ASSUME NEW u \in Rows, NEW v \in Rows PROVE Anti(g[u], g[v]) <=> Anti(u, v)
  <2>1. /\ a \in g[u].x <=> a \in u.z
        /\ a \in g[u].z <=> a \in u.x
        /\ a \in g[v].x <=> a \in v.z
        /\ a \in g[v].z <=> a \in v.x
    BY <1>1
  <2>2. ~ ((a \in g[u].x /\ a \in g[v].z) <=> (a \in g[u].z /\ a \in g[v].x))
             <=> ~ ((a \in u.x /\ a \in v.z) <=> (a \in u.z /\ a \in v.x))
    BY <2>1
  <2> QED BY <1>3, <2>2, OneWireGateKeepsPairs
<1>5. ASSUME NEW u \in Rows PROVE \E v \in Rows : Alike(g[v], u)
  <2>1. g[u] \in Rows
    BY <1>2
  <2>2. g[g[u]].x = u.x /\ g[g[u]].z = u.z
    BY <1>1, <2>1
  <2> QED BY <2>1, <2>2 DEF Alike
<1>6. ASSUME NEW u \in Rows, NEW v \in Rows, Alike(u, v) PROVE Alike(g[u], g[v])
  BY <1>1, <1>6 DEF Alike
<1>7. ASSUME NEW v \in Rows, IsZero(v) PROVE IsZero(g[v])
  BY <1>1, <1>7 DEF IsZero
<1> QED BY <1>2, <1>4, <1>5, <1>6, <1>7 DEF KeepsPairs, g

\* S adds the same to both terms of the symplectic product on its wire.
LEMMA PhaseKeepsPairs ==
    ASSUME StabilizerAssumption, NEW a \in Wires
    PROVE  KeepsPairs(PhaseOf(a))
<1> DEFINE g == PhaseOf(a)
<1>1. ASSUME NEW v \in Rows
      PROVE  /\ g[v] \in Rows
             /\ g[v].x = v.x
             /\ g[v].z = SymDiff(v.z, v.x \cap {a})
  BY PhaseRow DEF PhaseOf
<1>2. g \in [Rows -> Rows]
  BY <1>1 DEF PhaseOf
<1> HIDE DEF g
<1>3. TurnsOne(g, a)
  BY <1>1, <1>2 DEF TurnsOne, SymDiff
<1>4. ASSUME NEW u \in Rows, NEW v \in Rows PROVE Anti(g[u], g[v]) <=> Anti(u, v)
  <2>1. /\ a \in g[u].x <=> a \in u.x
        /\ a \in g[u].z <=> ~ (a \in u.z <=> a \in u.x)
        /\ a \in g[v].x <=> a \in v.x
        /\ a \in g[v].z <=> ~ (a \in v.z <=> a \in v.x)
    BY <1>1 DEF SymDiff
  <2>2. ~ ((a \in g[u].x /\ a \in g[v].z) <=> (a \in g[u].z /\ a \in g[v].x))
             <=> ~ ((a \in u.x /\ a \in v.z) <=> (a \in u.z /\ a \in v.x))
    BY <2>1
  <2> QED BY <1>3, <2>2, OneWireGateKeepsPairs
<1>5. ASSUME NEW u \in Rows PROVE \E v \in Rows : Alike(g[v], u)
  <2>1. g[u] \in Rows
    BY <1>2
  <2>2. g[g[u]].x = u.x /\ g[g[u]].z = u.z
    BY <1>1, <2>1 DEF SymDiff
  <2> QED BY <2>1, <2>2 DEF Alike
<1>6. ASSUME NEW u \in Rows, NEW v \in Rows, Alike(u, v) PROVE Alike(g[u], g[v])
  BY <1>1, <1>6 DEF Alike
<1>7. ASSUME NEW v \in Rows, IsZero(v) PROVE IsZero(g[v])
  BY <1>1, <1>7 DEF IsZero, SymDiff
<1> QED BY <1>2, <1>4, <1>5, <1>6, <1>7 DEF KeepsPairs, g

\* The sign alone changes.
LEMMA SignsKeepPairs ==
    ASSUME NEW g \in [Rows -> Rows], \A v \in Rows : Alike(g[v], v)
    PROVE  KeepsPairs(g)
<1>1. ASSUME NEW u \in Rows, NEW v \in Rows PROVE Anti(g[u], g[v]) <=> Anti(u, v)
  BY AlikeAnti
<1>2. ASSUME NEW u \in Rows, NEW v \in Rows, Alike(u, v) PROVE Alike(g[u], g[v])
  <2>1. Alike(g[u], u) /\ Alike(g[v], v)
    OBVIOUS
  <2> QED BY <1>2, <2>1 DEF Alike
<1>3. ASSUME NEW v \in Rows, IsZero(v) PROVE IsZero(g[v])
  BY <1>3 DEF Alike, IsZero
<1> QED BY <1>1, <1>2, <1>3 DEF KeepsPairs
-----------------------------------------------------------------------------
Xor(P, Q) == ~ (P <=> Q)

\* A set is odd by what it has off two wires and by each of the two.
LEMMA TwoCount ==
    ASSUME StabilizerAssumption, NEW a \in Wires, NEW b \in Wires, a # b,
           NEW S \in SUBSET Wires
    PROVE  Odd(S) <=> Xor(Odd(S \ {a, b}), Xor(a \in S, b \in S))
<1> DEFINE T == S \ {a}
<1>1. T \in SUBSET Wires /\ T \ {b} = S \ {a, b} /\ (b \in T <=> b \in S)
  OBVIOUS
<1>2. Odd(S) <=> ~ (Odd(T) <=> a \in S)
  BY OneCounts
<1> HIDE DEF T
<1>3. Odd(T) <=> ~ (Odd(T \ {b}) <=> b \in T)
  BY <1>1, OneCounts
<1>4. Odd(T) <=> ~ (Odd(S \ {a, b}) <=> b \in S)
  BY <1>1, <1>3
<1> QED BY <1>2, <1>4 DEF Xor

\* What anticommutes, counted apart from what happens on two wires.
OnWire(u, v, a) == Xor(a \in u.x /\ a \in v.z, a \in u.z /\ a \in v.x)

\* Anticommuting, told apart off two wires and on each of them.
LEMMA AntiOffTwo ==
    ASSUME StabilizerAssumption, NEW a \in Wires, NEW b \in Wires, a # b,
           NEW u \in Rows, NEW v \in Rows
    PROVE  Anti(u, v) <=>
             Xor(Xor(Odd((u.x \cap v.z) \ {a, b}), Odd((u.z \cap v.x) \ {a, b})),
                 Xor(OnWire(u, v, a), OnWire(u, v, b)))
<1> DEFINE S == u.x \cap v.z
           T == u.z \cap v.x
<1>1. S \in SUBSET Wires /\ T \in SUBSET Wires
  BY DEF Rows
<1>2. /\ a \in S <=> (a \in u.x /\ a \in v.z)
      /\ b \in S <=> (b \in u.x /\ b \in v.z)
      /\ a \in T <=> (a \in u.z /\ a \in v.x)
      /\ b \in T <=> (b \in u.z /\ b \in v.x)
  OBVIOUS
<1>3. Anti(u, v) <=> ~ (Odd(S) <=> Odd(T))
  BY DEF Anti
<1>4. /\ OnWire(u, v, a) <=> Xor(a \in S, a \in T)
      /\ OnWire(u, v, b) <=> Xor(b \in S, b \in T)
  BY <1>2 DEF OnWire
<1> SUFFICES ~ (Odd(S) <=> Odd(T)) <=>
                Xor(Xor(Odd(S \ {a, b}), Odd(T \ {a, b})),
                    Xor(Xor(a \in S, a \in T), Xor(b \in S, b \in T)))
  <2> DEFINE p == Odd(S \ {a, b})
             q == Odd(T \ {a, b})
  <2> HIDE DEF p, q, S, T
  <2>1. Xor(OnWire(u, v, a), OnWire(u, v, b)) <=> 
            Xor(Xor(a \in S, a \in T), Xor(b \in S, b \in T))
    BY <1>4 DEF Xor
  <2>2. Anti(u, v) <=> Xor(Xor(p, q), Xor(OnWire(u, v, a), OnWire(u, v, b)))
    BY <1>3, <2>1 DEF Xor, p, q
  <2> QED BY <2>2 DEF p, q, S, T
<1> HIDE DEF S, T
<1>5. Odd(S) <=> Xor(Odd(S \ {a, b}), Xor(a \in S, b \in S))
  BY <1>1, TwoCount
<1>6. Odd(T) <=> Xor(Odd(T \ {a, b}), Xor(a \in T, b \in T))
  BY <1>1, TwoCount
<1> QED BY <1>5, <1>6 DEF Xor

\* What CX adds to the product on one wire it adds on the other too.
LEMMA ControlledXKeepsPairs ==
    ASSUME StabilizerAssumption, NEW a \in Wires, NEW b \in Wires, a # b
    PROVE  KeepsPairs(ControlledXOf(a, b))
<1> DEFINE g == ControlledXOf(a, b)
<1>1. ASSUME NEW v \in Rows
      PROVE  /\ g[v] \in Rows
             /\ g[v].x = IF a \in v.x THEN SymDiff(v.x, {b}) ELSE v.x
             /\ g[v].z = IF b \in v.z THEN SymDiff(v.z, {a}) ELSE v.z
  <2> DEFINE h == ControlledX(v, a, b)
  <2>1. g[v] = h
    BY DEF ControlledXOf
  <2>2. /\ h \in Rows
        /\ h.x = IF a \in v.x THEN SymDiff(v.x, {b}) ELSE v.x
        /\ h.z = IF b \in v.z THEN SymDiff(v.z, {a}) ELSE v.z
    <3>1. IsControlled(h, v, a, b)
      BY ControlledXRow
    <3> HIDE DEF h
    <3> QED BY <3>1 DEF IsControlled
  <2> HIDE DEF g, h
  <2> QED BY <2>1, <2>2
<1>2. g \in [Rows -> Rows]
  BY <1>1 DEF ControlledXOf
<1> HIDE DEF g
<1>3. ASSUME NEW v \in Rows
      PROVE  /\ a \in g[v].x <=> a \in v.x
             /\ b \in g[v].x <=> Xor(b \in v.x, a \in v.x)
             /\ a \in g[v].z <=> Xor(a \in v.z, b \in v.z)
             /\ b \in g[v].z <=> b \in v.z
             /\ \A c : c \notin {a, b} => (c \in g[v].x <=> c \in v.x) /\ (c \in g[v].z <=> c \in v.z)
  BY <1>1 DEF SymDiff, Xor
<1>4. ASSUME NEW u \in Rows, NEW v \in Rows PROVE Anti(g[u], g[v]) <=> Anti(u, v)
  <2> DEFINE s == g[u]
             t == g[v]
  <2>1. s \in Rows /\ t \in Rows
    BY <1>2
  <2>2. /\ a \in s.x <=> a \in u.x
        /\ b \in s.x <=> Xor(b \in u.x, a \in u.x)
        /\ a \in s.z <=> Xor(a \in u.z, b \in u.z)
        /\ b \in s.z <=> b \in u.z
        /\ \A c : c \notin {a, b} => (c \in s.x <=> c \in u.x) /\ (c \in s.z <=> c \in u.z)
    BY <1>3
  <2>3. /\ a \in t.x <=> a \in v.x
        /\ b \in t.x <=> Xor(b \in v.x, a \in v.x)
        /\ a \in t.z <=> Xor(a \in v.z, b \in v.z)
        /\ b \in t.z <=> b \in v.z
        /\ \A c : c \notin {a, b} => (c \in t.x <=> c \in v.x) /\ (c \in t.z <=> c \in v.z)
    BY <1>3
  <2> HIDE DEF s, t
  <2>4. /\ (s.x \cap t.z) \ {a, b} = (u.x \cap v.z) \ {a, b}
        /\ (s.z \cap t.x) \ {a, b} = (u.z \cap v.x) \ {a, b}
    BY <2>2, <2>3
  <2>5. Xor(OnWire(s, t, a), OnWire(s, t, b)) <=> Xor(OnWire(u, v, a), OnWire(u, v, b))
    BY <2>2, <2>3 DEF OnWire, Xor
  <2>6. Anti(s, t) <=>
             Xor(Xor(Odd((s.x \cap t.z) \ {a, b}), Odd((s.z \cap t.x) \ {a, b})),
                 Xor(OnWire(s, t, a), OnWire(s, t, b)))
    BY <2>1, AntiOffTwo
  <2>7. Anti(u, v) <=>
             Xor(Xor(Odd((u.x \cap v.z) \ {a, b}), Odd((u.z \cap v.x) \ {a, b})),
                 Xor(OnWire(u, v, a), OnWire(u, v, b)))
    BY AntiOffTwo
  <2>8. Anti(s, t) <=> Anti(u, v)
    <3> DEFINE p == Odd((u.x \cap v.z) \ {a, b})
               q == Odd((u.z \cap v.x) \ {a, b})
               c == Xor(OnWire(s, t, a), OnWire(s, t, b))
               d == Xor(OnWire(u, v, a), OnWire(u, v, b))
    <3>1. (Anti(s, t) <=> Xor(Xor(p, q), c)) /\ (Anti(u, v) <=> Xor(Xor(p, q), d)) /\ (c <=> d)
      BY <2>4, <2>5, <2>6, <2>7
    <3> HIDE DEF p, q, c, d
    <3> QED BY <3>1 DEF Xor
  <2> QED BY <2>8 DEF s, t
<1>5. ASSUME NEW u \in Rows PROVE \E v \in Rows : Alike(g[v], u)
  <2> DEFINE v == g[u]
  <2>1. v \in Rows
    BY <1>2
  <2>2. /\ a \in v.x <=> a \in u.x
        /\ b \in v.x <=> Xor(b \in u.x, a \in u.x)
        /\ a \in v.z <=> Xor(a \in u.z, b \in u.z)
        /\ b \in v.z <=> b \in u.z
        /\ \A c : c \notin {a, b} => (c \in v.x <=> c \in u.x) /\ (c \in v.z <=> c \in u.z)
    BY <1>3
  <2> HIDE DEF v
  <2>3. /\ a \in g[v].x <=> a \in v.x
        /\ b \in g[v].x <=> Xor(b \in v.x, a \in v.x)
        /\ a \in g[v].z <=> Xor(a \in v.z, b \in v.z)
        /\ b \in g[v].z <=> b \in v.z
        /\ \A c : c \notin {a, b} => (c \in g[v].x <=> c \in v.x) /\ (c \in g[v].z <=> c \in v.z)
    BY <1>3, <2>1
  <2>4. \A c : c \in g[v].x <=> c \in u.x
    BY <2>2, <2>3 DEF Xor
  <2>5. \A c : c \in g[v].z <=> c \in u.z
    BY <2>2, <2>3 DEF Xor
  <2>6. g[v] \in Rows
    BY <1>2, <2>1
  <2>7. g[v].x = u.x /\ g[v].z = u.z
    BY <2>4, <2>5, <2>6 DEF Rows
  <2> QED BY <2>1, <2>7 DEF Alike
<1>6. ASSUME NEW u \in Rows, NEW v \in Rows, Alike(u, v) PROVE Alike(g[u], g[v])
  BY <1>1, <1>6 DEF Alike
<1>7. ASSUME NEW v \in Rows, IsZero(v) PROVE IsZero(g[v])
  BY <1>1, <1>7 DEF IsZero
<1> QED BY <1>2, <1>4, <1>5, <1>6, <1>7 DEF KeepsPairs, g
-----------------------------------------------------------------------------
(* Every gate does, as made of those.                                       *)
OnOneOf(gate, a) == [v \in Rows |-> OnOne(gate, v, a)]
OnTwoOf(gate, a, b) == [v \in Rows |-> OnTwo(gate, v, a, b)]

\* The gates of OnOne by their names.
LEMMA OneWireGatesAre ==
    ASSUME NEW v, NEW a
    PROVE  /\ OnOne("H", v, a) = Hadamard(v, a)
           /\ OnOne("S", v, a) = Phase(v, a)
           /\ OnOne("SDG", v, a) = PhaseInverse(v, a)
           /\ OnOne("X", v, a) = XGate(v, a)
           /\ OnOne("Y", v, a) = YGate(v, a)
           /\ OnOne("Z", v, a) = ZGate(v, a)
  BY DEF OnOne

\* The gates of OnTwo by their names.
LEMMA TwoWireGatesAre ==
    ASSUME NEW v, NEW a, NEW b
    PROVE  /\ OnTwo("CX", v, a, b) = ControlledX(v, a, b)
           /\ OnTwo("CZ", v, a, b) = ControlledZ(v, a, b)
           /\ OnTwo("SWAP", v, a, b) = Swap(v, a, b)
  BY DEF OnTwo

\* X, Y and Z keep pairs, as they change no bits.
LEMMA SignedKeepsPairs ==
    ASSUME NEW a \in Wires, NEW gate \in {"X", "Y", "Z"}
    PROVE  KeepsPairs(OnOneOf(gate, a))
<1>1. ASSUME NEW v \in Rows
      PROVE  OnOneOf(gate, a)[v] \in Rows /\ Alike(OnOneOf(gate, a)[v], v)
  <2>1. OnOneOf(gate, a)[v] \in {XGate(v, a), YGate(v, a), ZGate(v, a)}
    BY OneWireGatesAre DEF OnOneOf
  <2> QED BY <2>1, SignedRow DEF Alike
<1> DEFINE g == OnOneOf(gate, a)
<1>2. g \in [Rows -> Rows] /\ \A v \in Rows : Alike(g[v], v)
  BY <1>1 DEF OnOneOf
<1> HIDE DEF g
<1>3. KeepsPairs(g)
  BY <1>2, SignsKeepPairs
<1> QED BY <1>3 DEF g

\* Every gate on one wire keeps pairs.
LEMMA OneWireGatesKeepPairs ==
    ASSUME StabilizerAssumption, NEW a \in Wires, NEW gate \in Gates1
    PROVE  KeepsPairs(OnOneOf(gate, a))
<1>1. CASE gate = "H"
  <2>1. OnOneOf(gate, a) = HadamardOf(a)
    BY <1>1, OneWireGatesAre DEF OnOneOf, HadamardOf
  <2> QED BY <2>1, HadamardKeepsPairs
<1>2. CASE gate = "S"
  <2>1. OnOneOf(gate, a) = PhaseOf(a)
    BY <1>2, OneWireGatesAre DEF OnOneOf, PhaseOf
  <2> QED BY <2>1, PhaseKeepsPairs
<1>3. CASE gate = "SDG"
  <2>1. ASSUME NEW v \in Rows
        PROVE  OnOne(gate, v, a) = OnOneOf("Z", a)[PhaseOf(a)[v]]
    <3>1. Phase(v, a) \in Rows
      BY PhaseRow
    <3>2. OnOneOf("Z", a)[PhaseOf(a)[v]] = ZGate(Phase(v, a), a)
      BY <3>1, OneWireGatesAre DEF OnOneOf, PhaseOf
    <3> QED BY <1>3, <3>2, OneWireGatesAre DEF PhaseInverse
  <2>2. OnOneOf(gate, a) = Then(PhaseOf(a), OnOneOf("Z", a))
    BY <2>1 DEF OnOneOf, Then
  <2> QED BY <2>2, PhaseKeepsPairs, SignedKeepsPairs, OneAfterTheOther
<1>4. CASE gate \in {"X", "Y", "Z"}
  BY <1>4, SignedKeepsPairs
<1> QED BY <1>1, <1>2, <1>3, <1>4 DEF Gates1

\* Every gate on two wires keeps pairs, as made of CX and H.
LEMMA TwoWireGatesKeepPairs ==
    ASSUME StabilizerAssumption, NEW a \in Wires, NEW b \in Wires, a # b,
           NEW gate \in Gates2
    PROVE  KeepsPairs(OnTwoOf(gate, a, b))
<1> DEFINE H == HadamardOf(b)
           C == ControlledXOf(a, b)
           D == ControlledXOf(b, a)
<1>1. KeepsPairs(H) /\ KeepsPairs(C) /\ KeepsPairs(D)
  BY HadamardKeepsPairs, ControlledXKeepsPairs
<1>2. ASSUME NEW v \in Rows
      PROVE  /\ H[v] = Hadamard(v, b) /\ H[v] \in Rows
             /\ C[v] = ControlledX(v, a, b) /\ C[v] \in Rows
             /\ D[v] = ControlledX(v, b, a) /\ D[v] \in Rows
  <2>1. IsControlled(ControlledX(v, a, b), v, a, b) /\ IsControlled(ControlledX(v, b, a), v, b, a)
    BY ControlledXRow
  <2>2. ControlledX(v, a, b) \in Rows /\ ControlledX(v, b, a) \in Rows
    BY <2>1 DEF IsControlled
  <2>3. Hadamard(v, b) \in Rows
    BY HadamardRow
  <2> QED BY <2>2, <2>3 DEF HadamardOf, ControlledXOf
<1> HIDE DEF H, C, D
<1>3. CASE gate = "CX"
  <2>1. \A v \in Rows : OnTwo(gate, v, a, b) = ControlledX(v, a, b)
    BY <1>3, TwoWireGatesAre
  <2>2. OnTwoOf(gate, a, b) = C
    BY <2>1 DEF OnTwoOf, C, ControlledXOf
  <2> QED BY <1>1, <2>2
<1>4. CASE gate = "CZ"
  <2>1. ASSUME NEW v \in Rows PROVE OnTwo(gate, v, a, b) = H[C[H[v]]]
    BY <1>2, <1>4, TwoWireGatesAre DEF ControlledZ
  <2>2. \A v \in Rows : Then(H, C)[v] = C[H[v]] /\ Then(H, C)[v] \in Rows
    BY <1>2 DEF Then
  <2>3. OnTwoOf(gate, a, b) = Then(Then(H, C), H)
    <3>1. \A v \in Rows : OnTwo(gate, v, a, b) = H[Then(H, C)[v]]
      BY <2>1, <2>2
    <3> QED BY <3>1 DEF OnTwoOf, Then
  <2>4. KeepsPairs(Then(H, C))
    BY <1>1, OneAfterTheOther
  <2> QED BY <1>1, <2>3, <2>4, OneAfterTheOther
<1>5. CASE gate = "SWAP"
  <2>1. ASSUME NEW v \in Rows PROVE OnTwo(gate, v, a, b) = C[D[C[v]]]
    BY <1>2, <1>5, TwoWireGatesAre DEF Swap
  <2>2. \A v \in Rows : Then(C, D)[v] = D[C[v]] /\ Then(C, D)[v] \in Rows
    BY <1>2 DEF Then
  <2>3. OnTwoOf(gate, a, b) = Then(Then(C, D), C)
    <3>1. \A v \in Rows : OnTwo(gate, v, a, b) = C[Then(C, D)[v]]
      BY <2>1, <2>2
    <3> QED BY <3>1 DEF OnTwoOf, Then
  <2>4. KeepsPairs(Then(C, D))
    BY <1>1, OneAfterTheOther
  <2> QED BY <1>1, <2>3, <2>4, OneAfterTheOther
<1> QED BY <1>3, <1>4, <1>5 DEF Gates2
-----------------------------------------------------------------------------
(* A tableau whose rows anticommute with their partners only, and leave     *)
(* nothing but the identity that commutes with all of them.                 *)
Tableaus == [TableauRows -> Rows]

Partners(i, j) == i - j \in {Qubits, -Qubits}

Paired(t) == \A i, j \in TableauRows : Anti(t[i], t[j]) <=> Partners(i, j)

Separates(t) == \A v \in Rows : (\A i \in TableauRows : ~ Anti(v, t[i])) => IsZero(v)

WellFormed(t) == t \in Tableaus /\ Paired(t) /\ Separates(t)

\* A gate that keeps pairs, applied to all rows, keeps a tableau well formed.
LEMMA GatesKeepForm ==
    ASSUME NEW t, NEW s, NEW g, WellFormed(t), KeepsPairs(g),
           s = [i \in TableauRows |-> g[t[i]]]
    PROVE  WellFormed(s)
<1>1. ASSUME NEW i \in TableauRows PROVE t[i] \in Rows /\ s[i] = g[t[i]] /\ s[i] \in Rows
  BY DEF WellFormed, Tableaus, KeepsPairs
<1>2. s \in Tableaus
  BY <1>1 DEF Tableaus
<1>3. ASSUME NEW i \in TableauRows, NEW j \in TableauRows
      PROVE  Anti(s[i], s[j]) <=> Partners(i, j)
  <2>1. Anti(g[t[i]], g[t[j]]) <=> Anti(t[i], t[j])
    BY <1>1 DEF KeepsPairs
  <2> QED BY <1>1, <2>1 DEF WellFormed, Paired
<1>4. ASSUME NEW v \in Rows, \A i \in TableauRows : ~ Anti(v, s[i]) PROVE IsZero(v)
  <2>1. PICK w \in Rows : Alike(g[w], v)
    BY DEF KeepsPairs
  <2>2. ASSUME NEW i \in TableauRows PROVE ~ Anti(w, t[i])
    <3>1. Anti(g[w], g[t[i]]) <=> Anti(w, t[i])
      BY <1>1 DEF KeepsPairs
    <3>2. Anti(g[w], s[i]) <=> Anti(v, s[i])
      BY <2>1, AlikeAnti DEF Alike
    <3> QED BY <1>1, <1>4, <3>1, <3>2
  <2>3. IsZero(w)
    BY <2>2 DEF WellFormed, Separates
  <2>4. IsZero(g[w])
    BY <2>3 DEF KeepsPairs
  <2> QED BY <2>1, <2>4 DEF IsZero, Alike
<1> QED BY <1>2, <1>3, <1>4 DEF WellFormed, Paired, Separates

\* Destabilizers are rows 1 to Qubits, each with its stabilizer Qubits
\* further.
LEMMA RowNumbers ==
    ASSUME StabilizerAssumption
    PROVE  /\ Qubits \in Nat /\ Qubits > 0
           /\ \A i \in TableauRows : i \in Nat /\ 1 <= i /\ i <= 2 * Qubits
           /\ \A i \in Stabilizers : i \in TableauRows /\ i - Qubits \in TableauRows
                                     /\ i - Qubits \in Wires /\ i - Qubits \notin Stabilizers
           /\ \A j \in Wires : Qubits + j \in Stabilizers /\ (Qubits + j) - Qubits = j
                               /\ j \in TableauRows
           /\ \A i \in TableauRows \ Stabilizers : i \in Wires
  BY DEF StabilizerAssumption, Wires, TableauRows, Stabilizers

\* The rows at first.
AtFirst == [i \in TableauRows |->
              IF i \in Stabilizers THEN [x |-> {}, z |-> {i - Qubits}, r |-> 0]
              ELSE [x |-> {i}, z |-> {}, r |-> 0]]

\* The tableau of __init__ is well formed: X on each wire beside Z on it.
LEMMA FirstIsWellFormed ==
    ASSUME StabilizerAssumption
    PROVE  WellFormed(AtFirst)
<1> DEFINE t == AtFirst
<1>1. ASSUME NEW i \in Stabilizers
      PROVE  t[i].x = {} /\ t[i].z = {i - Qubits} /\ t[i] \in Rows /\ i - Qubits \in Wires
  BY RowNumbers DEF AtFirst, Rows
<1>2. ASSUME NEW i \in TableauRows \ Stabilizers
      PROVE  t[i].x = {i} /\ t[i].z = {} /\ t[i] \in Rows /\ i \in Wires
  BY RowNumbers DEF AtFirst, Rows
<1>3. t \in Tableaus
  BY <1>1, <1>2 DEF AtFirst, Tableaus
<1> HIDE DEF t
<1>4. ASSUME NEW i \in Stabilizers, NEW v \in Rows
      PROVE  Anti(t[i], v) <=> i - Qubits \in v.x
  <2>1. IsVector(v)
    BY RowIsVector
  <2> QED BY <1>1, <2>1, AntiZ
<1>5. ASSUME NEW i \in TableauRows \ Stabilizers, NEW v \in Rows
      PROVE  Anti(t[i], v) <=> i \in v.z
  <2>1. t[i].x = {i} /\ t[i].z \cap v.x = {} /\ v.z \in SUBSET Wires /\ i \in Wires
    BY <1>2 DEF Rows
  <2>2. (Odd(t[i].x \cap v.z) <=> i \in v.z) /\ ~ Odd(t[i].z \cap v.x)
    BY <2>1, OddOne, NoWires
  <2> QED BY <2>2 DEF Anti
<1>6. Paired(t)
  <2> SUFFICES ASSUME NEW i \in TableauRows, NEW j \in TableauRows
               PROVE  Anti(t[i], t[j]) <=> Partners(i, j)
    BY DEF Paired
  <2>1. /\ Qubits \in Nat /\ Qubits > 0 /\ i \in Nat /\ j \in Nat /\ i <= 2 * Qubits /\ j <= 2 * Qubits
        /\ t[j] \in Rows
    BY <1>3, RowNumbers DEF Tableaus
  <2>2. CASE i \in Stabilizers /\ j \in Stabilizers
    <3>1. ~ Anti(t[i], t[j])
      BY <1>1, <1>4, <2>1, <2>2
    <3>2. ~ Partners(i, j)
      BY <2>1, <2>2 DEF Stabilizers, Partners
    <3> QED BY <3>1, <3>2
  <2>3. CASE i \in Stabilizers /\ j \notin Stabilizers
    <3>1. Anti(t[i], t[j]) <=> i - Qubits = j
      BY <1>2, <1>4, <2>1, <2>3
    <3>2. Partners(i, j) <=> i - Qubits = j
      BY <2>1, <2>3 DEF Stabilizers, Partners, TableauRows
    <3> QED BY <3>1, <3>2
  <2>4. CASE i \notin Stabilizers /\ j \in Stabilizers
    <3>1. Anti(t[i], t[j]) <=> j - Qubits = i
      BY <1>1, <1>5, <2>1, <2>4
    <3>2. Partners(i, j) <=> j - Qubits = i
      BY <2>1, <2>4 DEF Stabilizers, Partners, TableauRows
    <3> QED BY <3>1, <3>2
  <2>5. CASE i \notin Stabilizers /\ j \notin Stabilizers
    <3>1. ~ Anti(t[i], t[j])
      BY <1>2, <1>5, <2>1, <2>5
    <3>2. ~ Partners(i, j)
      BY <2>1, <2>5 DEF Stabilizers, Partners, TableauRows
    <3> QED BY <3>1, <3>2
  <2> QED BY <2>2, <2>3, <2>4, <2>5
<1>7. Separates(t)
  <2> SUFFICES ASSUME NEW v \in Rows, \A i \in TableauRows : ~ Anti(v, t[i]) PROVE IsZero(v)
    BY DEF Separates
  <2>1. ASSUME NEW i \in TableauRows PROVE ~ Anti(t[i], v)
    <3>1. IsVector(v) /\ IsVector(t[i])
      BY <1>3, RowIsVector DEF Tableaus
    <3> QED BY <3>1, AntiEitherWay
  <2>2. ASSUME NEW j \in Wires PROVE j \notin v.x
    <3>1. Qubits + j \in Stabilizers /\ Qubits + j \in TableauRows /\ (Qubits + j) - Qubits = j
      BY RowNumbers
    <3> QED BY <1>4, <2>1, <3>1
  <2>3. ASSUME NEW j \in Wires PROVE j \notin v.z
    <3>1. j \in TableauRows \ Stabilizers
      BY DEF StabilizerAssumption, Wires, TableauRows, Stabilizers
    <3> QED BY <1>5, <2>1, <3>1
  <2> QED BY <2>2, <2>3 DEF Rows, IsZero
<1> QED BY <1>3, <1>6, <1>7 DEF WellFormed, t
-----------------------------------------------------------------------------
(* The random branch of a measurement.                                      *)
LEMMA RowSumAdds ==
    ASSUME NEW u \in Rows, NEW v \in Rows
    PROVE  RowSum(u, v) \in Rows /\ IsSum(RowSum(u, v), u, v)
<1>1. Bit(Accumulated(u, v) = 2) \in {0, 1}
  BY DEF Bit
<1>2. SymDiff(u.x, v.x) \in SUBSET Wires /\ SymDiff(u.z, v.z) \in SUBSET Wires
  BY DEF Rows, SymDiff
<1> QED BY <1>1, <1>2 DEF RowSum, Rows, IsSum

\* The pivot is a stabilizer with X on the wire, and has its partner before
\* it.
LEMMA PivotIs ==
    ASSUME StabilizerAssumption, NEW a \in Wires, Pivots(a) # {}
    PROVE  /\ Pivot(a) \in Stabilizers /\ a \in tableau[Pivot(a)].x
           /\ Pivot(a) \in TableauRows /\ Pivot(a) - Qubits \in TableauRows
           /\ Pivot(a) - Qubits # Pivot(a) /\ Pivot(a) - Qubits \in Wires
           /\ Qubits + (Pivot(a) - Qubits) = Pivot(a)
<1>1. Pivots(a) \subseteq Nat
  BY RowNumbers DEF Pivots
<1>2. PICK first \in Pivots(a) : \A q \in Pivots(a) : first <= q
  BY <1>1, LeastNatural
<1>3. Pivot(a) \in Pivots(a)
  BY <1>2 DEF Pivot, Min
<1> DEFINE p == Pivot(a)
<1>4. p \in Stabilizers /\ a \in tableau[p].x
  BY <1>3 DEF Pivots
<1> HIDE DEF p
<1>5. p \in TableauRows /\ p - Qubits \in TableauRows /\ p - Qubits # p /\ Qubits + (p - Qubits) = p
      /\ p - Qubits \in Wires
  BY <1>4, RowNumbers
<1> QED BY <1>4, <1>5 DEF p

\* r is q, added to p where P holds.
AddedWhere(r, q, P, p) == r \in Rows /\ Anti(q, q) = FALSE /\ (P => IsSum(r, q, p)) /\ (~ P => Alike(r, q))

\* A row with the pivot added where P holds anticommutes accordingly.
LEMMA AddedAnti ==
    ASSUME StabilizerAssumption, NEW v \in Rows, NEW q \in Rows, NEW p \in Rows, NEW r, NEW P,
           AddedWhere(r, q, P, p)
    PROVE  (Anti(v, r) <=> Xor(Anti(v, q), P /\ Anti(v, p)))
           /\ (Anti(r, v) <=> Xor(Anti(q, v), P /\ Anti(p, v)))
<1>1. IsVector(v) /\ IsVector(q) /\ IsVector(p)
  BY RowIsVector
<1>2. CASE P
  <2>1. IsSum(r, q, p)
    BY <1>2 DEF AddedWhere
  <2>2. /\ Anti(r, v) <=> ~ (Anti(q, v) <=> Anti(p, v))
        /\ Anti(v, r) <=> ~ (Anti(v, q) <=> Anti(v, p))
    BY <1>1, <2>1, AntiIsLinear
  <2> QED BY <1>2, <2>2 DEF Xor
<1>3. CASE ~ P
  <2>1. r.x = q.x /\ r.z = q.z
    BY <1>3 DEF AddedWhere, Alike
  <2>2. (Anti(r, v) <=> Anti(q, v)) /\ (Anti(v, r) <=> Anti(v, q))
    BY <2>1, AntiSame
  <2> QED BY <1>3, <2>2 DEF Xor
<1> QED BY <1>2, <1>3

\* The rows after the random branch: Z, the pivot as its partner, and the
\* others, with the pivot added where they anticommute with Z.
CollapsedFrom(s, t, a, p, outcome) ==
    /\ s \in Tableaus
    /\ s[p].x = {} /\ s[p].z = {a} /\ s[p].r = outcome
    /\ s[p - Qubits] = t[p]
    /\ \A i \in TableauRows \ {p, p - Qubits} :
          AddedWhere(s[i], t[i], a \in t[i].x, t[p])

\* The tableau after the random branch, by its three kinds of rows.
LEMMA CollapseIs ==
    ASSUME StabilizerAssumption, WellFormed(tableau), NEW a \in Wires, Pivots(a) # {},
           NEW outcome \in {0, 1}
    PROVE  CollapsedFrom(Collapse(a, outcome), tableau, a, Pivot(a), outcome)
<1> DEFINE p == Pivot(a)
           s == Collapse(a, outcome)
           z == [x |-> {}, z |-> {a}, r |-> outcome]
<1>1. /\ p \in TableauRows /\ p - Qubits \in TableauRows /\ p - Qubits # p
  BY PivotIs
<1>2. s = [i \in TableauRows |->
            IF i = p THEN z
            ELSE IF i = p - Qubits THEN tableau[p]
            ELSE IF i \in Multiplied(a) THEN RowSum(tableau[i], tableau[p])
            ELSE tableau[i]]
  BY DEF Collapse
<1>3. Multiplied(a) = {i \in TableauRows \ {p} : a \in tableau[i].x}
  BY DEF Multiplied
<1>4. z \in Rows /\ z.x = {} /\ z.z = {a} /\ z.r = outcome
  BY DEF Rows
<1> HIDE DEF p, s, z
<1>5. \A i \in TableauRows : tableau[i] \in Rows
  BY DEF WellFormed, Tableaus
<1>6. \A i \in TableauRows : /\ RowSum(tableau[i], tableau[p]) \in Rows
                             /\ IsSum(RowSum(tableau[i], tableau[p]), tableau[i], tableau[p])
  BY <1>1, <1>5, RowSumAdds
<1>7. s \in Tableaus
  BY <1>1, <1>2, <1>4, <1>5, <1>6 DEF Tableaus
<1>8. s[p] = z /\ s[p - Qubits] = tableau[p]
  BY <1>1, <1>2
<1>9. ASSUME NEW i \in TableauRows \ {p, p - Qubits}
      PROVE  AddedWhere(s[i], tableau[i], a \in tableau[i].x, tableau[p])
  <2>1. s[i] = IF a \in tableau[i].x THEN RowSum(tableau[i], tableau[p]) ELSE tableau[i]
    BY <1>2, <1>3
  <2>2. ~ Anti(tableau[i], tableau[i])
    BY <1>5, RowIsVector, AntiEitherWay
  <2>3. a \in tableau[i].x => IsSum(s[i], tableau[i], tableau[p])
    BY <1>6, <2>1
  <2>4. a \notin tableau[i].x => Alike(s[i], tableau[i])
    BY <2>1 DEF Alike
  <2>5. s[i] \in Rows
    BY <1>7 DEF Tableaus
  <2> QED BY <2>2, <2>3, <2>4, <2>5 DEF AddedWhere
<1>10. CollapsedFrom(s, tableau, a, p, outcome)
  BY <1>4, <1>7, <1>8, <1>9 DEF CollapsedFrom
<1> QED BY <1>10 DEF s, p

\* The random branch keeps a tableau well formed.
LEMMA CollapsedIsWellFormed ==
    ASSUME StabilizerAssumption, NEW t, WellFormed(t), NEW a \in Wires,
           NEW p \in Stabilizers, a \in t[p].x, NEW outcome, NEW s,
           CollapsedFrom(s, t, a, p, outcome)
    PROVE  WellFormed(s)
<1> DEFINE q == p - Qubits
           P == t[p]
           Z == s[p]
<1>1. /\ p \in TableauRows /\ q \in TableauRows /\ q # p /\ Qubits \in Nat /\ Qubits > 0
      /\ p \in Nat /\ p <= 2 * Qubits
      /\ \A i \in TableauRows : i \in Nat /\ 1 <= i /\ i <= 2 * Qubits
  BY RowNumbers
<1>2. \A i \in TableauRows : t[i] \in Rows /\ s[i] \in Rows
  BY DEF WellFormed, Tableaus, CollapsedFrom
<1>3. Z.x = {} /\ Z.z = {a} /\ s[q] = P /\ s[p] = Z /\ Z \in Rows /\ P \in Rows
  BY <1>1, <1>2 DEF CollapsedFrom
<1>4. \A i, j \in TableauRows : Anti(t[i], t[j]) <=> Partners(i, j)
  BY DEF WellFormed, Paired
<1>5. ASSUME NEW v \in Rows
      PROVE  (Anti(Z, v) <=> a \in v.x) /\ (Anti(v, Z) <=> a \in v.x)
  <2>1. IsVector(v)
    BY RowIsVector
  <2> QED BY <1>3, <2>1, AntiZ
<1>6. ASSUME NEW i \in TableauRows, i # p, i # q, NEW v \in Rows
      PROVE  (Anti(v, s[i]) <=> Xor(Anti(v, t[i]), a \in t[i].x /\ Anti(v, P)))
             /\ (Anti(s[i], v) <=> Xor(Anti(t[i], v), a \in t[i].x /\ Anti(P, v)))
  <2>1. AddedWhere(s[i], t[i], a \in t[i].x, P)
    BY <1>6 DEF CollapsedFrom
  <2>2. t[i] \in Rows /\ P \in Rows
    BY <1>2, <1>3
  <2> DEFINE r == s[i]
             c == a \in t[i].x
             o == t[i]
  <2>3. AddedWhere(r, o, c, P) /\ o \in Rows /\ P \in Rows
    BY <2>1, <2>2
  <2> HIDE DEF P, r, c, o
  <2>4. /\ Anti(v, r) <=> Xor(Anti(v, o), c /\ Anti(v, P))
        /\ Anti(r, v) <=> Xor(Anti(o, v), c /\ Anti(P, v))
    BY <2>3, AddedAnti
  <2> QED BY <2>4 DEF r, c, o
<1>7. ASSUME NEW i \in TableauRows, i # p, i # q
      PROVE  ~ Partners(i, p) /\ ~ Partners(p, i) /\ ~ Partners(i, q) /\ ~ Partners(q, i)
  <2>1. i \in Nat /\ 1 <= i /\ i <= 2 * Qubits
    BY <1>1
  <2>2. p \in Nat /\ p <= 2 * Qubits /\ Qubits \in Nat /\ q = p - Qubits
    BY <1>1
  <2>3. p >= Qubits + 1
    BY <2>2 DEF Stabilizers
  <2> HIDE DEF q
  <2>4. i - p # Qubits /\ p - i # Qubits /\ i - p # -Qubits /\ p - i # -Qubits
    BY <1>7, <2>1, <2>2, <2>3
  <2>5. i - q # Qubits /\ q - i # Qubits /\ i - q # -Qubits /\ q - i # -Qubits
    BY <1>7, <2>1, <2>2, <2>3
  <2> QED BY <2>4, <2>5 DEF Partners
<1>8. Partners(p, q) /\ Partners(q, p) /\ ~ Partners(p, p) /\ ~ Partners(q, q)
  BY <1>1 DEF Partners
<1>9. ASSUME NEW i \in TableauRows, i # p, i # q
      PROVE  ~ Anti(t[i], P) /\ ~ Anti(P, t[i]) 
  BY <1>1, <1>4, <1>7, <1>9
<1>10. Anti(P, t[q]) /\ Anti(t[q], P) /\ ~ Anti(P, P)
  BY <1>1, <1>4, <1>8
<1> HIDE DEF P, Z
<1>11. a \in P.x
  BY DEF P
\* the rows other than the two commute with both
<1>12. ASSUME NEW i \in TableauRows, i # p, i # q
       PROVE  ~ Anti(s[i], P) /\ ~ Anti(P, s[i]) /\ ~ Anti(s[i], Z) /\ ~ Anti(Z, s[i])
  <2>1. ~ Anti(s[i], P) /\ ~ Anti(P, s[i])
    BY <1>3, <1>6, <1>9, <1>10, <1>12 DEF Xor
  <2>2. /\ Anti(Z, s[i]) <=> Xor(Anti(Z, t[i]), a \in t[i].x /\ Anti(Z, P))
        /\ Anti(s[i], Z) <=> Xor(Anti(t[i], Z), a \in t[i].x /\ Anti(P, Z))
    BY <1>3, <1>6, <1>12
  <2>3. /\ Anti(Z, t[i]) <=> a \in t[i].x
        /\ Anti(t[i], Z) <=> a \in t[i].x
        /\ Anti(Z, P) /\ Anti(P, Z)
    BY <1>2, <1>3, <1>5, <1>11
  <2> QED BY <2>1, <2>2, <2>3 DEF Xor
<1>13. Paired(s)
  <2> SUFFICES ASSUME NEW i \in TableauRows, NEW j \in TableauRows
               PROVE  Anti(s[i], s[j]) <=> Partners(i, j)
    BY DEF Paired
  <2>1. CASE i \notin {p, q} /\ j \notin {p, q}
    <3>1. Anti(s[i], s[j]) <=> Xor(Anti(t[i], s[j]), a \in t[i].x /\ Anti(P, s[j]))
      BY <1>2, <1>6, <2>1
    <3>2. ~ Anti(P, s[j])
      BY <1>12, <2>1
    <3>3. Anti(t[i], s[j]) <=> Xor(Anti(t[i], t[j]), a \in t[j].x /\ Anti(t[i], P))
      BY <1>2, <1>6, <2>1
    <3>4. ~ Anti(t[i], P)
      BY <1>9, <2>1
    <3>5. Anti(s[i], s[j]) <=> Anti(t[i], t[j])
      BY <3>1, <3>2, <3>3, <3>4 DEF Xor
    <3> QED BY <1>4, <3>5
  <2>2. CASE i \notin {p, q} /\ j \in {p, q}
    <3>1. ~ Anti(s[i], s[j])
      BY <1>3, <1>12, <2>2
    <3>2. ~ Partners(i, j)
      BY <1>7, <2>2
    <3> QED BY <3>1, <3>2
  <2>3. CASE i \in {p, q} /\ j \notin {p, q}
    <3>1. ~ Anti(s[i], s[j])
      BY <1>3, <1>12, <2>3
    <3>2. ~ Partners(i, j)
      BY <1>7, <2>3
    <3> QED BY <3>1, <3>2
  <2>4. CASE i \in {p, q} /\ j \in {p, q}
    <3>1. Anti(Z, P) /\ Anti(P, Z) /\ ~ Anti(Z, Z)
      BY <1>3, <1>5, <1>11
    <3> QED BY <1>3, <1>8, <1>10, <2>4, <3>1
  <2> QED BY <2>1, <2>2, <2>3, <2>4
\* what commutes with all rows commuted with all, but for a factor P
<1>14. ASSUME NEW v \in Rows, \A i \in TableauRows : ~ Anti(v, s[i]) PROVE IsZero(v)
  <2>1. ~ Anti(v, P) /\ ~ Anti(v, Z)
    BY <1>1, <1>3, <1>14
  <2> DEFINE D == Anti(v, t[q])
             w == IF D THEN RowSum(v, P) ELSE v
  <2>2. AddedWhere(w, v, D, P) /\ w \in Rows
    <3>1. RowSum(v, P) \in Rows /\ IsSum(RowSum(v, P), v, P)
      BY <1>3, RowSumAdds
    <3>2. ~ Anti(v, v)
      BY RowIsVector, AntiEitherWay
    <3> QED BY <3>1, <3>2 DEF AddedWhere, Alike
  <2> HIDE DEF D, w
  <2>3. ASSUME NEW i \in TableauRows
        PROVE  Anti(w, t[i]) <=> Xor(Anti(v, t[i]), D /\ Anti(P, t[i]))
    BY <1>2, <1>3, <2>2, AddedAnti
  <2>4. ASSUME NEW i \in TableauRows PROVE ~ Anti(w, t[i])
    <3>1. CASE i \notin {p, q}
      <4>1. Anti(v, s[i]) <=> Xor(Anti(v, t[i]), a \in t[i].x /\ Anti(v, P))
        BY <1>6, <3>1
      <4>2. ~ Anti(v, t[i])
        BY <1>14, <2>1, <4>1 DEF Xor
      <4>3. ~ Anti(P, t[i])
        BY <1>9, <3>1
      <4> QED BY <2>3, <4>2, <4>3 DEF Xor
    <3>2. CASE i = p
      BY <1>10, <2>1, <2>3, <3>2 DEF Xor, P
    <3>3. CASE i = q
      BY <1>10, <2>3, <3>3 DEF Xor, D
    <3> QED BY <3>1, <3>2, <3>3
  <2>5. IsZero(w)
    BY <2>2, <2>4 DEF WellFormed, Separates
  <2>6. CASE ~ D
    BY <2>2, <2>5, <2>6 DEF AddedWhere, Alike, IsZero
  <2>7. CASE D
    <3>1. SymDiff(v.x, P.x) = {}
      BY <2>2, <2>5, <2>7 DEF AddedWhere, IsSum, IsZero
    <3>2. a \in v.x
      BY <1>11, <3>1 DEF SymDiff
    <3>3. Anti(v, Z)
      BY <1>5, <3>2
    <3> QED BY <2>1, <3>3
  <2> QED BY <2>6, <2>7
<1>15. s \in Tableaus
  BY DEF CollapsedFrom
<1> QED BY <1>13, <1>14, <1>15 DEF WellFormed, Separates
-----------------------------------------------------------------------------
(* As long as no sum has raised, the tableau is well formed.                *)
StaysWellFormed == ~ raised => WellFormed(tableau)

\* The X that reset applies after a measurement of one keeps the form.
LEMMA ResetKeepsForm ==
    ASSUME StabilizerAssumption, NEW t, WellFormed(t), NEW a \in Wires, NEW outcome
    PROVE  WellFormed(ResetTo(outcome, a, t))
<1>1. CASE outcome = 0
  BY <1>1 DEF ResetTo
<1>2. CASE outcome # 0
  <2>1. \A i \in TableauRows : t[i] \in Rows
    BY DEF WellFormed, Tableaus
  <2>2. \A v \in Rows : OnOneOf("X", a)[v] = XGate(v, a)
    BY OneWireGatesAre DEF OnOneOf
  <2> DEFINE g == OnOneOf("X", a)
             s == ResetTo(outcome, a, t)
  <2> HIDE DEF g
  <2>3. s = [i \in TableauRows |-> g[t[i]]]
    BY <1>2, <2>1, <2>2 DEF ResetTo, g
  <2> HIDE DEF s
  <2>4. KeepsPairs(g)
    BY OneWireGatesKeepPairs DEF g, Gates1
  <2>5. WellFormed(s)
    BY <2>3, <2>4, GatesKeepForm
  <2> QED BY <2>5 DEF s
<1> QED BY <1>1, <1>2

\* Every step keeps the tableau well formed, unless a sum raised.
LEMMA StabilizerStepsKeepForm ==
    ASSUME StabilizerAssumption, StaysWellFormed, [StabilizerNext]_stabilizerVars
    PROVE  StaysWellFormed'
<1>1. CASE UNCHANGED stabilizerVars
  BY <1>1 DEF StaysWellFormed, WellFormed, Tableaus, Paired, Separates, stabilizerVars
<1>2. CASE StabilizerNext
  <2> SUFFICES ASSUME ~ raised' PROVE WellFormed(tableau')
    BY DEF StaysWellFormed, WellFormed, Tableaus, Paired, Separates
  <2>1. PICK a \in Wires :
           \/ \E gate \in Gates1 : Gate1(gate, a)
           \/ \E gate \in Gates2, b \in Wires : Gate2(gate, a, b)
           \/ Measure(a)
           \/ Reset(a)
    BY <1>2 DEF StabilizerNext
  <2>2. ~ raised
    BY <2>1 DEF Gate1, Gate2, Measure, Reset, MeasureRandom, Random, Deterministic,
                MeasureRaises, stabilizerVars
  <2>3. WellFormed(tableau)
    BY <2>2 DEF StaysWellFormed
  <2>4. \A i \in TableauRows : tableau[i] \in Rows
    BY <2>3 DEF WellFormed, Tableaus
  <2>5. ASSUME NEW outcome \in {0, 1}, Random(a) PROVE WellFormed(Collapse(a, outcome))
    <3> DEFINE s == Collapse(a, outcome)
    <3>1. Pivots(a) # {}
      BY <2>5 DEF Random
    <3>2. CollapsedFrom(s, tableau, a, Pivot(a), outcome)
      BY <2>3, <3>1, CollapseIs
    <3>3. Pivot(a) \in Stabilizers /\ a \in tableau[Pivot(a)].x
      BY <3>1, PivotIs
    <3> HIDE DEF s
    <3>4. WellFormed(s)
      BY <2>3, <3>2, <3>3, CollapsedIsWellFormed
    <3> QED BY <3>4 DEF s
  <2>6. ASSUME NEW gate \in Gates1, Gate1(gate, a) PROVE WellFormed(tableau')
    <3> DEFINE g == OnOneOf(gate, a)
    <3>1. tableau' = [i \in TableauRows |-> g[tableau[i]]]
      BY <2>4, <2>6 DEF Gate1, OnOneOf
    <3>2. KeepsPairs(g)
      BY OneWireGatesKeepPairs
    <3> HIDE DEF g
    <3> QED BY <2>3, <3>1, <3>2, GatesKeepForm
  <2>7. ASSUME NEW gate \in Gates2, NEW b \in Wires, Gate2(gate, a, b) PROVE WellFormed(tableau')
    <3> DEFINE g == OnTwoOf(gate, a, b)
    <3>1. tableau' = [i \in TableauRows |-> g[tableau[i]]]
      BY <2>4, <2>7 DEF Gate2, OnTwoOf
    <3>2. KeepsPairs(g)
      BY <2>7, TwoWireGatesKeepPairs DEF Gate2
    <3> HIDE DEF g
    <3> QED BY <2>3, <3>1, <3>2, GatesKeepForm
  <2>8. CASE Measure(a)
    <3>1. CASE MeasureRaises(a)
      BY <3>1 DEF MeasureRaises
    <3>2. ASSUME NEW outcome \in {0, 1}, MeasureRandom(a, outcome) PROVE WellFormed(tableau')
      BY <2>5, <3>2 DEF MeasureRandom
    <3>3. CASE Deterministic(a) /\ UNCHANGED stabilizerVars
      BY <2>3, <3>3 DEF stabilizerVars
    <3> QED BY <2>8, <3>1, <3>2, <3>3 DEF Measure
  <2>9. CASE Reset(a)
    <3>1. CASE MeasureRaises(a)
      BY <3>1 DEF MeasureRaises
    <3>2. ASSUME NEW outcome \in {0, 1}, Random(a),
                 tableau' = ResetTo(outcome, a, Collapse(a, outcome))
          PROVE  WellFormed(tableau')
      <4> DEFINE s == Collapse(a, outcome)
      <4>1. WellFormed(s)
        BY <2>5, <3>2
      <4>2. tableau' = ResetTo(outcome, a, s)
        BY <3>2
      <4> HIDE DEF s
      <4> QED BY <4>1, <4>2, ResetKeepsForm
    <3>3. CASE Deterministic(a) /\ tableau' = ResetTo(Determined(a), a, tableau)
      BY <2>3, <3>3, ResetKeepsForm
    <3> QED BY <2>9, <3>1, <3>2, <3>3 DEF Reset
  <2> QED BY <2>1, <2>6, <2>7, <2>8, <2>9
<1> QED BY <1>1, <1>2

\* The inductive invariant of the simulator.
LEMMA TableauStaysWellFormed == StabilizerSpec => []StaysWellFormed
<1>1. ASSUME StabilizerInit PROVE StaysWellFormed
  <2>1. tableau = AtFirst
    BY <1>1 DEF StabilizerInit, AtFirst
  <2>2. WellFormed(AtFirst)
    BY StabilizerAssumption, FirstIsWellFormed
  <2> QED BY <2>1, <2>2 DEF StaysWellFormed
<1>2. ASSUME StaysWellFormed, [StabilizerNext]_stabilizerVars PROVE StaysWellFormed'
  BY <1>2, StabilizerAssumption, StabilizerStepsKeepForm
<1> QED BY <1>1, <1>2, PTL DEF StabilizerSpec
-----------------------------------------------------------------------------
(* Operators with their phases.                                             *)
Operators == [k : 0..3, x : SUBSET Wires, z : SUBSET Wires]

Shared(A, B) == Cardinality(A \cap B)

\* How many wires two sets share is a number, the same either way.
LEMMA SharedIs ==
    ASSUME StabilizerAssumption, NEW A \in SUBSET Wires, NEW B
    PROVE  Shared(A, B) \in Nat /\ Shared(B, A) = Shared(A, B)
<1>1. A \cap B \in SUBSET Wires /\ B \cap A = A \cap B
  OBVIOUS
<1>2. Cardinality(A \cap B) \in Nat
  BY <1>1, WiresAreCounted
<1> QED BY <1>1, <1>2 DEF Shared

\* What is shared with a difference is the sum but for an even number.
LEMMA SharedAdds ==
    ASSUME StabilizerAssumption, NEW A \in SUBSET Wires, NEW B \in SUBSET Wires, NEW C \in SUBSET Wires
    PROVE  \E n \in Nat : Shared(SymDiff(A, B), C) + 2 * n = Shared(A, C) + Shared(B, C)
<1> DEFINE S == A \cap C
           T == B \cap C
<1>1. SymDiff(A, B) \cap C = SymDiff(S, T)
  BY SharedDifferences
<1>2. S \in SUBSET Wires /\ T \in SUBSET Wires /\ S \cap T \in SUBSET Wires
  OBVIOUS
<1>3. Shared(SymDiff(A, B), C) = Cardinality(SymDiff(S, T))
      /\ Shared(A, C) = Cardinality(S) /\ Shared(B, C) = Cardinality(T)
  BY <1>1 DEF Shared
<1> HIDE DEF S, T
<1>4. Cardinality(SymDiff(S, T)) + 2 * Cardinality(S \cap T) = Cardinality(S) + Cardinality(T)
  BY <1>2, DifferencesCount
<1>5. Cardinality(S \cap T) \in Nat
  BY <1>2, WiresAreCounted
<1> QED BY <1>3, <1>4, <1>5

\* A phase is one of four.
LEMMA ModFour ==
    ASSUME NEW n \in Int
    PROVE  n % 4 \in 0..3
  BY SMTT(30)

\* A product adds bits, and phases with a sign for each Z moved past an X.
LEMMA MultiplyIs ==
    ASSUME StabilizerAssumption, NEW p \in Operators, NEW q \in Operators
    PROVE  /\ Multiply(p, q) \in Operators
           /\ Multiply(p, q).k = (p.k + q.k + 2 * Shared(p.z, q.x)) % 4
           /\ IsSum(Multiply(p, q), p, q)
<1> DEFINE k == (p.k + q.k + 2 * Shared(p.z, q.x)) % 4
           x == SymDiff(p.x, q.x)
           z == SymDiff(p.z, q.z)
<1>1. p.k \in Int /\ q.k \in Int /\ Shared(p.z, q.x) \in Nat
  BY SharedIs DEF Operators
<1>2. k \in 0..3
  BY <1>1, ModFour
<1>3. x \in SUBSET Wires /\ z \in SUBSET Wires
  BY DEF Operators, SymDiff
<1>4. Multiply(p, q) = [k |-> k, x |-> x, z |-> z]
  BY DEF Multiply, Shared
<1> HIDE DEF k, x, z
<1>5. /\ Multiply(p, q) \in Operators /\ Multiply(p, q).k = k
      /\ Multiply(p, q).x = x /\ Multiply(p, q).z = z
  BY <1>2, <1>3, <1>4 DEF Operators
<1> QED BY <1>5 DEF k, x, z, IsSum

\* Operators with the same phase and bits are the same.
LEMMA SameOperator ==
    ASSUME NEW p \in Operators, NEW q \in Operators, p.k = q.k, p.x = q.x, p.z = q.z
    PROVE  p = q
<1>1. p = [k |-> p.k, x |-> p.x, z |-> p.z] /\ q = [k |-> q.k, x |-> q.x, z |-> q.z]
  BY DEF Operators
<1> QED BY <1>1

\* The arithmetic of MultiplyAssociates.
LEMMA PhasesAssociate ==
    ASSUME NEW a \in Int, NEW b \in Int, NEW c \in Int, NEW d \in Int, NEW e \in Int,
           NEW f \in Int, NEW s \in Int, NEW t \in Int, NEW m \in Int, NEW n \in Int,
           s + 2 * m = e + f, t + 2 * n = d + e
    PROVE  (((a + b + 2 * d) % 4) + c + 2 * s) % 4 = (a + ((b + c + 2 * f) % 4) + 2 * t) % 4
<1>1. \A i \in Int, j \in Int : ((i % 4) + j) % 4 = (i + j) % 4
  BY SMTT(30)
<1>2. \A i \in Int, j \in Int : (i + 4 * j) % 4 = i % 4
  BY SMTT(30)
<1>3. (((a + b + 2 * d) % 4) + (c + 2 * s)) % 4 = ((a + b + 2 * d) + (c + 2 * s)) % 4
  BY <1>1
<1>4. (((b + c + 2 * f) % 4) + (a + 2 * t)) % 4 = ((b + c + 2 * f) + (a + 2 * t)) % 4
  BY <1>1
<1>5. (a + b + 2 * d) + (c + 2 * s) = ((b + c + 2 * f) + (a + 2 * t)) + 4 * (n - m)
  OBVIOUS
<1>6. ((a + b + 2 * d) + (c + 2 * s)) % 4 = ((b + c + 2 * f) + (a + 2 * t)) % 4
  <2> DEFINE y == (b + c + 2 * f) + (a + 2 * t)
             g == n - m
  <2>1. y \in Int /\ g \in Int
    OBVIOUS
  <2>2. (a + b + 2 * d) + (c + 2 * s) = y + 4 * g
    BY <1>5
  <2> HIDE DEF y, g
  <2>3. (y + 4 * g) % 4 = y % 4
    BY <1>2, <2>1
  <2> QED BY <2>2, <2>3 DEF y
<1> DEFINE u == (a + b + 2 * d) % 4
           v == (b + c + 2 * f) % 4
<1>7. u \in Int /\ v \in Int
  BY SMTT(30)
<1>8. (u + (c + 2 * s)) % 4 = (v + (a + 2 * t)) % 4
  BY <1>3, <1>4, <1>6
<1> HIDE DEF u, v
<1>9. u + (c + 2 * s) = u + c + 2 * s /\ v + (a + 2 * t) = a + v + 2 * t
  BY <1>7
<1>10. (u + c + 2 * s) % 4 = (a + v + 2 * t) % 4
  BY <1>8, <1>9
<1> QED BY <1>10 DEF u, v

\* Symmetric difference is the addition of bits.
LEMMA DifferenceAssociates ==
    ASSUME NEW A, NEW B, NEW C
    PROVE  SymDiff(SymDiff(A, B), C) = SymDiff(A, SymDiff(B, C))
           /\ SymDiff(A, B) = SymDiff(B, A) /\ SymDiff(A, A) = {}
           /\ SymDiff(A, {}) = A /\ SymDiff({}, A) = A
  BY DEF SymDiff

\* Multiplication of operators is associative.
LEMMA MultiplyAssociates ==
    ASSUME StabilizerAssumption, NEW p \in Operators, NEW q \in Operators, NEW r \in Operators
    PROVE  Multiply(Multiply(p, q), r) = Multiply(p, Multiply(q, r))
<1> DEFINE pq == Multiply(p, q)
           qr == Multiply(q, r)
           L == Multiply(pq, r)
           R == Multiply(p, qr)
<1>1. /\ pq \in Operators /\ pq.k = (p.k + q.k + 2 * Shared(p.z, q.x)) % 4 /\ IsSum(pq, p, q)
  BY MultiplyIs
<1>2. /\ qr \in Operators /\ qr.k = (q.k + r.k + 2 * Shared(q.z, r.x)) % 4 /\ IsSum(qr, q, r)
  BY MultiplyIs
<1> HIDE DEF pq, qr
<1>3. /\ L \in Operators /\ L.k = (pq.k + r.k + 2 * Shared(pq.z, r.x)) % 4 /\ IsSum(L, pq, r)
  BY <1>1, MultiplyIs
<1>4. /\ R \in Operators /\ R.k = (p.k + qr.k + 2 * Shared(p.z, qr.x)) % 4 /\ IsSum(R, p, qr)
  BY <1>2, MultiplyIs
<1>5. /\ p.x \in SUBSET Wires /\ q.x \in SUBSET Wires /\ r.x \in SUBSET Wires
      /\ p.z \in SUBSET Wires /\ q.z \in SUBSET Wires /\ r.z \in SUBSET Wires
      /\ p.k \in Int /\ q.k \in Int /\ r.k \in Int
  BY DEF Operators
<1>6. L.x = R.x /\ L.z = R.z
  BY <1>1, <1>2, <1>3, <1>4, DifferenceAssociates DEF IsSum
<1> DEFINE s == Shared(pq.z, r.x)
           t == Shared(p.z, qr.x)
           d == Shared(p.z, q.x)
           e == Shared(p.z, r.x)
           f == Shared(q.z, r.x)
<1>7. PICK m \in Nat : s + 2 * m = e + f
  BY <1>1, <1>5, SharedAdds DEF IsSum
<1>8. PICK n \in Nat : t + 2 * n = d + e
  <2>1. PICK n \in Nat : Shared(SymDiff(q.x, r.x), p.z) + 2 * n = Shared(q.x, p.z) + Shared(r.x, p.z)
    BY <1>5, SharedAdds
  <2>2. /\ Shared(SymDiff(q.x, r.x), p.z) = t /\ Shared(q.x, p.z) = d /\ Shared(r.x, p.z) = e
    BY <1>2, <1>5, SharedIs DEF IsSum
  <2> QED BY <2>1, <2>2
<1>9. s \in Int /\ t \in Int /\ d \in Int /\ e \in Int /\ f \in Int
  <2>1. pq.z \in SUBSET Wires
    BY <1>1 DEF Operators
  <2> QED BY <1>5, <2>1, SharedIs
<1> HIDE DEF s, t, d, e, f, L, R
<1>10. L.k = (((p.k + q.k + 2 * d) % 4) + r.k + 2 * s) % 4
  BY <1>1, <1>3 DEF d, s
<1>11. R.k = (p.k + ((q.k + r.k + 2 * f) % 4) + 2 * t) % 4
  BY <1>2, <1>4 DEF f, t
<1>12. L.k = R.k
  <2> DEFINE a == p.k
             b == q.k
             c == r.k
  <2>1. a \in Int /\ b \in Int /\ c \in Int
    BY <1>5
  <2>2. L.k = (((a + b + 2 * d) % 4) + c + 2 * s) % 4 /\ R.k = (a + ((b + c + 2 * f) % 4) + 2 * t) % 4
    BY <1>10, <1>11
  <2> HIDE DEF a, b, c
  <2>3. (((a + b + 2 * d) % 4) + c + 2 * s) % 4 = (a + ((b + c + 2 * f) % 4) + 2 * t) % 4
    BY <1>7, <1>8, <1>9, <2>1, PhasesAssociate
  <2> QED BY <2>2, <2>3
<1>13. L = R
  BY <1>3, <1>4, <1>6, <1>12, SameOperator
<1> QED BY <1>13 DEF L, R, pq, qr

\* The identity is neutral on both sides.
LEMMA OneIsNeutral ==
    ASSUME StabilizerAssumption, NEW p \in Operators
    PROVE  One \in Operators /\ Multiply(One, p) = p /\ Multiply(p, One) = p
<1>1. One \in Operators /\ One.k = 0 /\ One.x = {} /\ One.z = {}
  BY DEF One, Operators
<1>2. Shared({}, p.x) = 0 /\ Shared(p.z, {}) = 0
  BY NoWires DEF Shared
<1>3. p.k \in 0..3
  BY DEF Operators
<1>4. (0 + p.k + 2 * 0) % 4 = p.k /\ (p.k + 0 + 2 * 0) % 4 = p.k
  <2> DEFINE k == p.k
  <2> HIDE DEF k
  <2>1. k \in 0..3
    BY <1>3 DEF k
  <2>2. (0 + k + 2 * 0) % 4 = k /\ (k + 0 + 2 * 0) % 4 = k
    BY <2>1
  <2> QED BY <2>2 DEF k
<1> DEFINE L == Multiply(One, p)
           R == Multiply(p, One)
<1>5. /\ L \in Operators /\ L.k = (One.k + p.k + 2 * Shared(One.z, p.x)) % 4 /\ IsSum(L, One, p)
      /\ R \in Operators /\ R.k = (p.k + One.k + 2 * Shared(p.z, One.x)) % 4 /\ IsSum(R, p, One)
  BY <1>1, MultiplyIs
<1> HIDE DEF L, R
<1>6. L.k = p.k /\ R.k = p.k
  BY <1>1, <1>2, <1>4, <1>5
<1>7. L.x = p.x /\ R.x = p.x /\ L.z = p.z /\ R.z = p.z
  BY <1>1, <1>5, DifferenceAssociates DEF IsSum
<1>8. L = p /\ R = p
  BY <1>5, <1>6, <1>7, SameOperator
<1> QED BY <1>1, <1>8 DEF L, R

\* Operators that do not anticommute commute.
LEMMA CommutingMultiply ==
    ASSUME StabilizerAssumption, NEW p \in Operators, NEW q \in Operators, ~ Anti(p, q)
    PROVE  Multiply(p, q) = Multiply(q, p)
<1> DEFINE L == Multiply(p, q)
           R == Multiply(q, p)
           d == Shared(p.z, q.x)
           e == Shared(q.z, p.x)
           a == p.k
           b == q.k
<1>1. /\ L \in Operators /\ L.k = (a + b + 2 * d) % 4 /\ IsSum(L, p, q)
      /\ R \in Operators /\ R.k = (b + a + 2 * e) % 4 /\ IsSum(R, q, p)
  BY MultiplyIs
<1>2. a \in Int /\ b \in Int /\ d \in Nat /\ e \in Nat
  BY SharedIs DEF Operators
<1>3. (d % 2 = 1) <=> (e % 2 = 1)
  <2>1. q.z \cap p.x = p.x \cap q.z
    OBVIOUS
  <2> QED BY <2>1 DEF Anti, Odd, Shared
<1> HIDE DEF L, R, a, b, d, e
<1>4. (a + b + 2 * d) % 4 = (b + a + 2 * e) % 4
  <2>1. (2 * d) % 4 = (2 * e) % 4
    BY <1>2, <1>3, SMTT(30)
  <2> QED BY <1>2, <2>1, SMTT(30)
<1>5. L.x = R.x /\ L.z = R.z
  BY <1>1, DifferenceAssociates DEF IsSum
<1>6. L = R
  BY <1>1, <1>4, <1>5, SameOperator
<1> QED BY <1>6 DEF L, R

\* The operator of a row has its bits, and a phase i for each Y.
LEMMA OperatorIs ==
    ASSUME StabilizerAssumption, NEW row \in Rows
    PROVE  /\ Operator(row) \in Operators /\ Alike(Operator(row), row)
           /\ Operator(row).k = (2 * row.r + Shared(row.x, row.z)) % 4
<1>1. row.r \in Int /\ Shared(row.x, row.z) \in Nat /\ row.x \in SUBSET Wires /\ row.z \in SUBSET Wires
  BY SharedIs DEF Rows
<1> DEFINE k == (2 * row.r + Shared(row.x, row.z)) % 4
<1>2. k \in 0..3
  BY <1>1, ModFour
<1>3. Operator(row) = [k |-> k, x |-> row.x, z |-> row.z]
  BY DEF Operator, Shared
<1> HIDE DEF k
<1>4. Operator(row) \in Operators /\ Operator(row).k = k /\ Operator(row).x = row.x /\ Operator(row).z = row.z
  BY <1>1, <1>2, <1>3 DEF Operators
<1> QED BY <1>4 DEF k, Alike

\* The operator of a row is its own inverse.
LEMMA RowsSquareToOne ==
    ASSUME StabilizerAssumption, NEW row \in Rows
    PROVE  Multiply(Operator(row), Operator(row)) = One
<1> DEFINE p == Operator(row)
           L == Multiply(p, p)
           n == Shared(row.x, row.z)
           r == row.r
<1>1. /\ p \in Operators /\ Alike(p, row) /\ p.k = (2 * r + n) % 4
  BY OperatorIs
<1>2. n \in Nat /\ r \in {0, 1} /\ Shared(row.z, row.x) = n
  BY SharedIs DEF Rows
<1> HIDE DEF p
<1>3. /\ L \in Operators /\ L.k = (p.k + p.k + 2 * Shared(p.z, p.x)) % 4 /\ IsSum(L, p, p)
  BY <1>1, MultiplyIs
<1>4. L.k = (((2 * r + n) % 4) + ((2 * r + n) % 4) + 2 * n) % 4
  BY <1>1, <1>2, <1>3 DEF Alike
<1> HIDE DEF L, n, r
<1>5. L.k = 0
  BY <1>2, <1>4, SMTT(30)
<1>6. L.x = {} /\ L.z = {}
  BY <1>3, DifferenceAssociates DEF IsSum
<1>7. One \in Operators /\ One.k = 0 /\ One.x = {} /\ One.z = {}
  BY DEF One, Operators
<1>8. L = One
  BY <1>3, <1>5, <1>6, <1>7, SameOperator
<1> QED BY <1>8 DEF L, p
-----------------------------------------------------------------------------
(* Products of operators, one wire after the other.                         *)
Builds(g, f, S) ==
    /\ g[0] = One
    /\ \A j \in Wires : g[j] = IF j \in S THEN Multiply(g[j - 1], f[j]) ELSE g[j - 1]

Factors(f) == f \in [Wires -> Operators]

\* Wires are numbered from 1, as the products over them count.
LEMMA WireNumbers ==
    ASSUME StabilizerAssumption
    PROVE  /\ Qubits \in Nat /\ Qubits \in 0..Qubits /\ Wires = 1..Qubits
           /\ \A j \in Wires : j - 1 \in 0..Qubits /\ j \in 0..Qubits /\ j # 0
           /\ \A j \in 0..Qubits : j = 0 \/ j \in Wires
  BY DEF StabilizerAssumption, Wires

\* The recursion of Product has a solution, wire by wire.
LEMMA ProductIsBuilt ==
    ASSUME StabilizerAssumption, NEW f, Factors(f), NEW S
    PROVE  \E g : Builds(g, f, S) /\ g \in [0..Qubits -> Operators] /\ Product(f, S) = g[Qubits]
<1> DEFINE Step == [j \in 1..Qubits |-> [p \in Operators |->
                      IF j \in S THEN Multiply(p, f[j]) ELSE p]]
           Table(g) == g = [j \in 0..Qubits |->
                              IF j = 0 THEN One
                              ELSE IF j \in S THEN Multiply(g[j - 1], f[j]) ELSE g[j - 1]]
<1>1. One \in Operators
  BY DEF One, Operators
<1>2. \A j \in 1..Qubits : \A p \in Operators : Multiply(p, f[j]) \in Operators
  BY WireNumbers, MultiplyIs DEF Factors
<1>3. Step \in Steps(Qubits, Operators)
  BY <1>2 DEF Steps
<1>4. \A j \in 1..Qubits : \A p \in Operators :
         Step[j][p] = IF j \in S THEN Multiply(p, f[j]) ELSE p
  OBVIOUS
<1> HIDE DEF Step
<1>5. PICK h : IsTable(h, Qubits, Operators, One, Step)
  BY <1>1, <1>3, StepRecursion, WireNumbers
<1>6. h \in [0..Qubits -> Operators] /\ h[0] = One
      /\ \A j \in 1..Qubits : h[j] = Step[j][h[j - 1]]
  BY <1>5 DEF IsTable
<1>7. ASSUME NEW j \in 1..Qubits
      PROVE  h[j] = IF j \in S THEN Multiply(h[j - 1], f[j]) ELSE h[j - 1]
  <2>1. h[j - 1] \in Operators
    BY <1>6
  <2> QED BY <1>4, <1>6, <2>1
<1>8. ASSUME NEW j \in 0..Qubits
      PROVE  h[j] = IF j = 0 THEN One
                    ELSE IF j \in S THEN Multiply(h[j - 1], f[j]) ELSE h[j - 1]
  <2>1. j = 0 \/ j \in 1..Qubits
    BY WireNumbers
  <2> QED BY <1>6, <1>7, <2>1
<1>9. h = [j \in 0..Qubits |-> IF j = 0 THEN One
                    ELSE IF j \in S THEN Multiply(h[j - 1], f[j]) ELSE h[j - 1]]
  <2>1. h = [j \in 0..Qubits |-> h[j]]
    BY <1>6
  <2> QED BY <1>8, <2>1
<1>10. \E g : Table(g)
  BY <1>9
<1> DEFINE product == CHOOSE g : Table(g)
<1>11. Product(f, S) = product[Qubits]
  BY DEF Product
<1>12. Table(product)
  BY <1>10
<1> HIDE DEF product
<1>13. product[0] = One /\ \A j \in 1..Qubits :
          product[j] = IF j \in S THEN Multiply(product[j - 1], f[j]) ELSE product[j - 1]
  BY <1>12, WireNumbers
<1> HIDE DEF Table
<1> DEFINE T == {j \in 0..Qubits : product[j] \in Operators}
<1>14. 0 \in T
  BY <1>1, <1>13, WireNumbers
<1>15. ASSUME NEW j \in 1..Qubits, j - 1 \in T PROVE j \in T
  BY <1>2, <1>13, <1>15
<1> HIDE DEF T
<1>16. 0..Qubits \subseteq T
  BY <1>14, <1>15, BoundedInduction, WireNumbers
<1>17. product \in [0..Qubits -> Operators]
  <2>1. product = [j \in 0..Qubits |-> product[j]]
    BY <1>12 DEF Table
  <2> QED BY <1>16, <2>1 DEF T
<1>18. Builds(product, f, S)
  BY <1>13, WireNumbers DEF Builds
<1> QED BY <1>11, <1>17, <1>18

\* Whatever follows the same steps comes to the product.
LEMMA BuildsTheProduct ==
    ASSUME StabilizerAssumption, NEW f, Factors(f), NEW S, NEW h, Builds(h, f, S)
    PROVE  Product(f, S) = h[Qubits]
<1>1. PICK g : Builds(g, f, S) /\ g \in [0..Qubits -> Operators] /\ Product(f, S) = g[Qubits]
  BY ProductIsBuilt
<1> DEFINE T == {j \in 0..Qubits : g[j] = h[j]}
<1>2. 0 \in T
  BY <1>1, WireNumbers DEF Builds
<1>3. ASSUME NEW j \in 1..Qubits, j - 1 \in T PROVE j \in T
  BY <1>1, <1>3, WireNumbers DEF Builds
<1> HIDE DEF T
<1>4. 0..Qubits \subseteq T
  BY <1>2, <1>3, BoundedInduction, WireNumbers
<1> QED BY <1>1, <1>4, WireNumbers DEF T

\* The product over no wire is the identity.
LEMMA ProductOfNone ==
    ASSUME StabilizerAssumption, NEW f, Factors(f)
    PROVE  Product(f, {}) = One
<1> DEFINE h == [j \in 0..Qubits |-> One]
<1>1. \A j \in 0..Qubits : h[j] = One
  OBVIOUS
<1> HIDE DEF h
<1>2. Builds(h, f, {})
  BY <1>1, WireNumbers DEF Builds
<1> QED BY <1>1, <1>2, BuildsTheProduct, WireNumbers

\* The product over one wire is its factor.
LEMMA ProductOfOne ==
    ASSUME StabilizerAssumption, NEW f, Factors(f), NEW a \in Wires
    PROVE  Product(f, {a}) = f[a]
<1> DEFINE h == [j \in 0..Qubits |-> IF j < a THEN One ELSE f[a]]
<1>1. \A j \in 0..Qubits : h[j] = IF j < a THEN One ELSE f[a]
  OBVIOUS
<1> HIDE DEF h
<1>2. f[a] \in Operators
  BY DEF Factors
<1>3. Multiply(One, f[a]) = f[a]
  BY <1>2, OneIsNeutral
<1>4. h[0] = One
  BY <1>1, WireNumbers
<1>5. ASSUME NEW j \in Wires
      PROVE  h[j] = IF j \in {a} THEN Multiply(h[j - 1], f[j]) ELSE h[j - 1]
  <2>1. h[j] = (IF j < a THEN One ELSE f[a]) /\ h[j - 1] = IF j - 1 < a THEN One ELSE f[a]
    BY <1>1, WireNumbers
  <2>2. j \in Nat /\ a \in Nat
    BY WireNumbers
  <2> QED BY <1>3, <2>1, <2>2
<1>6. Builds(h, f, {a})
  BY <1>4, <1>5 DEF Builds
<1>7. h[Qubits] = f[a]
  BY <1>1, WireNumbers
<1> QED BY <1>6, <1>7, BuildsTheProduct

\* What commutes with the factors commutes with the product.
LEMMA ProductCommutes ==
    ASSUME StabilizerAssumption, NEW f, Factors(f), NEW S, NEW v, IsVector(v),
           \A j \in Wires : ~ Anti(v, f[j]),
           NEW g, Builds(g, f, S), g \in [0..Qubits -> Operators]
    PROVE  \A j \in 0..Qubits : ~ Anti(v, g[j])
<1> DEFINE T == {j \in 0..Qubits : ~ Anti(v, g[j])}
<1>1. 0 \in T
  <2>1. v.x \cap {} = {} /\ v.z \cap {} = {}
    OBVIOUS
  <2>2. ~ Anti(v, One)
    BY <2>1, NoWires DEF Anti, One
  <2> QED BY <2>2, WireNumbers DEF Builds
<1>2. ASSUME NEW j \in 1..Qubits, j - 1 \in T PROVE j \in T
  <2>1. g[j - 1] \in Operators /\ f[j] \in Operators /\ j \in Wires
    BY WireNumbers DEF Factors
  <2>2. IsSum(Multiply(g[j - 1], f[j]), g[j - 1], f[j])
    BY <2>1, MultiplyIs
  <2>3. IsVector(g[j - 1]) /\ IsVector(f[j])
    BY <2>1 DEF IsVector, Operators
  <2>4. Anti(v, Multiply(g[j - 1], f[j])) <=> ~ (Anti(v, g[j - 1]) <=> Anti(v, f[j]))
    <3> DEFINE p == g[j - 1]
               q == f[j]
               w == Multiply(p, q)
    <3>1. IsVector(p) /\ IsVector(q) /\ IsVector(v) /\ IsSum(w, p, q)
      BY <2>2, <2>3
    <3> HIDE DEF p, q, w
    <3>2. Anti(v, w) <=> ~ (Anti(v, p) <=> Anti(v, q))
      <4> QED BY ONLY StabilizerAssumption, <3>1, AntiIsLinear
    <3> QED BY <3>2 DEF p, q, w
  <2>5. ~ Anti(v, g[j - 1])
    BY <1>2
  <2>6. ~ Anti(v, f[j])
    BY <2>1
  <2>7. g[j] = Multiply(g[j - 1], f[j]) \/ g[j] = g[j - 1]
    BY <2>1 DEF Builds
  <2> QED BY <2>4, <2>5, <2>6, <2>7
<1> HIDE DEF T
<1>3. 0..Qubits \subseteq T
  BY <1>1, <1>2, BoundedInduction, WireNumbers
<1> QED BY <1>3 DEF T

(* Commuting operators whose squares are One.                               *)
Commuting(f) ==
    /\ Factors(f)
    /\ \A i, j \in Wires : ~ Anti(f[i], f[j])
    /\ \A j \in Wires : Multiply(f[j], f[j]) = One

\* A factor that commutes and squares to One moves out of a product or
\* cancels.
LEMMA FactorsMove ==
    ASSUME StabilizerAssumption, NEW A \in Operators, NEW B \in Operators, NEW p \in Operators,
           Multiply(p, B) = Multiply(B, p), Multiply(p, p) = One
    PROVE  /\ Multiply(Multiply(A, p), Multiply(B, p)) = Multiply(A, B)
           /\ Multiply(Multiply(A, p), B) = Multiply(Multiply(A, B), p)
           /\ Multiply(A, Multiply(B, p)) = Multiply(Multiply(A, B), p)
<1>1. Multiply(A, p) \in Operators /\ Multiply(B, p) \in Operators /\ Multiply(A, B) \in Operators
      /\ Multiply(p, B) \in Operators
  BY MultiplyIs
<1>2. Multiply(A, Multiply(B, p)) = Multiply(Multiply(A, B), p)
  BY MultiplyAssociates
<1>3. Multiply(Multiply(A, p), B) = Multiply(Multiply(A, B), p)
  <2>1. Multiply(Multiply(A, p), B) = Multiply(A, Multiply(p, B))
    BY MultiplyAssociates
  <2> QED BY <1>2, <2>1
<1>4. Multiply(Multiply(A, p), Multiply(B, p)) = Multiply(A, B)
  <2>1. Multiply(Multiply(A, p), Multiply(B, p)) = Multiply(Multiply(Multiply(A, p), B), p)
    BY <1>1, MultiplyAssociates
  <2>2. Multiply(Multiply(Multiply(A, B), p), p) = Multiply(Multiply(A, B), Multiply(p, p))
    BY <1>1, MultiplyAssociates
  <2>3. Multiply(Multiply(A, B), One) = Multiply(A, B)
    BY <1>1, OneIsNeutral
  <2> QED BY <1>3, <2>1, <2>2, <2>3
<1> QED BY <1>2, <1>3, <1>4

\* Products over two sets multiply to the product over their difference.
LEMMA ProductsMultiply ==
    ASSUME StabilizerAssumption, NEW f, Commuting(f), NEW S \in SUBSET Wires, NEW U \in SUBSET Wires
    PROVE  Multiply(Product(f, S), Product(f, U)) = Product(f, SymDiff(S, U))
<1>1. Factors(f)
  BY DEF Commuting
<1>2. PICK g : Builds(g, f, S) /\ g \in [0..Qubits -> Operators] /\ Product(f, S) = g[Qubits]
  BY <1>1, ProductIsBuilt
<1>3. PICK h : Builds(h, f, U) /\ h \in [0..Qubits -> Operators] /\ Product(f, U) = h[Qubits]
  BY <1>1, ProductIsBuilt
<1> DEFINE m == [j \in 0..Qubits |-> Multiply(g[j], h[j])]
<1>4. \A j \in 0..Qubits : m[j] = Multiply(g[j], h[j])
  OBVIOUS
<1> HIDE DEF m
<1>5. m[0] = One
  <2>1. Multiply(One, One) = One
    BY OneIsNeutral DEF One, Operators
  <2> QED BY <1>2, <1>3, <1>4, <2>1, WireNumbers DEF Builds
<1>6. ASSUME NEW j \in Wires
      PROVE  m[j] = IF j \in SymDiff(S, U) THEN Multiply(m[j - 1], f[j]) ELSE m[j - 1]
  <2> DEFINE A == g[j - 1]
             B == h[j - 1]
             p == f[j]
  <2>1. A \in Operators /\ B \in Operators /\ p \in Operators
    BY <1>1, <1>2, <1>3, WireNumbers DEF Factors
  <2>2. Multiply(p, p) = One
    BY DEF Commuting
  <2>3. IsVector(p) /\ \A i \in Wires : ~ Anti(p, f[i])
    BY <2>1 DEF Commuting, IsVector, Operators
  <2>4. ~ Anti(p, B)
    <3> HIDE DEF p
    <3>1. \A i \in 0..Qubits : ~ Anti(p, h[i])
      BY <1>1, <1>3, <2>3, ProductCommutes
    <3> QED BY <3>1, WireNumbers
  <2>5. /\ g[j] = IF j \in S THEN Multiply(A, p) ELSE A
        /\ h[j] = IF j \in U THEN Multiply(B, p) ELSE B
    BY <1>2, <1>3 DEF Builds
  <2>6. m[j] = Multiply(g[j], h[j]) /\ m[j - 1] = Multiply(A, B)
    BY <1>4, WireNumbers
  <2>7. j \in SymDiff(S, U) <=> ~ (j \in S <=> j \in U)
    BY DEF SymDiff
  <2> HIDE DEF A, B, p
  <2>8. Multiply(p, B) = Multiply(B, p)
    BY <2>1, <2>4, CommutingMultiply
  <2>9. /\ Multiply(Multiply(A, p), Multiply(B, p)) = Multiply(A, B)
        /\ Multiply(Multiply(A, p), B) = Multiply(Multiply(A, B), p)
        /\ Multiply(A, Multiply(B, p)) = Multiply(Multiply(A, B), p)
    BY <2>1, <2>2, <2>8, FactorsMove
  <2>10. m[j] = IF j \in SymDiff(S, U) THEN Multiply(m[j - 1], p) ELSE m[j - 1]
    BY <2>5, <2>6, <2>7, <2>9
  <2> QED BY <2>10 DEF p
<1>7. Builds(m, f, SymDiff(S, U))
  BY <1>5, <1>6 DEF Builds
<1>8. Product(f, SymDiff(S, U)) = m[Qubits]
  BY <1>1, <1>7, BuildsTheProduct
<1> QED BY <1>2, <1>3, <1>4, <1>8, WireNumbers
-----------------------------------------------------------------------------
(* _rowsum multiplies two rows with their signs.                            *)
Both(a, b) == IF a = 1 /\ b = 1 THEN 1 ELSE 0
Apart(a, b) == IF a # b THEN 1 ELSE 0

\* The phase g of _rowsum on one wire is that of the product of two Paulis.
LEMMA ExponentIs ==
    ASSUME NEW a \in {0, 1}, NEW b \in {0, 1}, NEW c \in {0, 1}, NEW d \in {0, 1}
    PROVE  /\ Exponent(a, b, c, d) \in Int
           /\ \E m \in {-1, 0, 1} :
                 Exponent(a, b, c, d) + Both(Apart(a, c), Apart(b, d)) + 4 * m
                   = Both(a, b) + Both(c, d) + 2 * Both(b, c)
<1>1. CASE a = 0 /\ b = 0
  BY <1>1 DEF Exponent, Both, Apart
<1>2. CASE a = 1 /\ b = 1
  BY <1>2 DEF Exponent, Both, Apart
<1>3. CASE a = 1 /\ b = 0
  BY <1>3 DEF Exponent, Both, Apart
<1>4. CASE a = 0 /\ b = 1
  BY <1>4 DEF Exponent, Both, Apart
<1> QED BY <1>1, <1>2, <1>3, <1>4

\* how many wires up to n are in S
UpTo(S, n) == Cardinality(S \cap 1..n)

\* The wires of a set counted one after the other.
LEMMA UpToIs ==
    ASSUME StabilizerAssumption, NEW S \in SUBSET Wires
    PROVE  /\ UpTo(S, 0) = 0 /\ UpTo(S, Qubits) = Cardinality(S)
           /\ \A n \in 0..Qubits : UpTo(S, n) \in Nat
           /\ \A n \in Wires : UpTo(S, n) = UpTo(S, n - 1) + Bit(n \in S)
<1>1. S \cap 1..0 = {} /\ S \cap 1..Qubits = S
  BY WireNumbers
<1>2. \A n \in 0..Qubits : UpTo(S, n) \in Nat
  BY WiresAreCounted DEF UpTo
<1>3. ASSUME NEW n \in Wires PROVE UpTo(S, n) = UpTo(S, n - 1) + Bit(n \in S)
  <2> DEFINE T == S \cap 1..n
  <2>1. T \in SUBSET Wires /\ T \ {n} = S \cap 1..(n - 1) /\ (n \in T <=> n \in S)
    BY WireNumbers
  <2>2. UpTo(S, n) = Cardinality(T) /\ UpTo(S, n - 1) = Cardinality(T \ {n})
    BY <2>1 DEF UpTo
  <2> HIDE DEF T
  <2>3. Cardinality(T) = Cardinality(T \ {n}) + Bit(n \in T)
    BY <2>1, OneCounts
  <2> QED BY <2>1, <2>2, <2>3 DEF Bit
<1> QED BY <1>1, <1>2, <1>3, NoWires DEF UpTo

Exponents(h, i) ==
    [j \in Wires |-> Exponent(Bit(j \in i.x), Bit(j \in i.z), Bit(j \in h.x), Bit(j \in h.z))]

\* s and the count of wires in A, but for a multiple of 4, are as many as the rest
Balance(s, a, b, c, d) == \E m \in Int : s + a + 4 * m = b + c + 2 * d

\* Balances of two ranges of wires add up to that of both.
LEMMA BalanceAdds ==
    ASSUME NEW s \in Int, NEW a \in Nat, NEW b \in Nat, NEW c \in Nat, NEW d \in Nat,
           NEW t \in Int, NEW e \in Nat, NEW f \in Nat, NEW g \in Nat, NEW h \in Nat,
           Balance(s, a, b, c, d), Balance(t, e, f, g, h)
    PROVE  Balance(s + t, a + e, b + f, c + g, d + h)
<1>1. PICK m \in Int : s + a + 4 * m = b + c + 2 * d
  BY DEF Balance
<1>2. PICK n \in Int : t + e + 4 * n = f + g + 2 * h
  BY DEF Balance
<1>3. (s + t) + (a + e) + 4 * (m + n) = (b + f) + (c + g) + 2 * (d + h)
  BY <1>1, <1>2
<1>4. m + n \in Int
  OBVIOUS
<1> QED BY <1>3, <1>4 DEF Balance

\* On each wire the phase of _rowsum balances the counts of that wire.
LEMMA OneWireBalances ==
    ASSUME StabilizerAssumption, NEW h \in Rows, NEW i \in Rows, NEW j \in Wires
    PROVE  /\ Exponents(h, i)[j] \in Int
           /\ Balance(Exponents(h, i)[j],
                      Bit(j \in SymDiff(h.x, i.x) \cap SymDiff(h.z, i.z)),
                      Bit(j \in i.x \cap i.z), Bit(j \in h.x \cap h.z), Bit(j \in i.z \cap h.x))
<1> DEFINE a == Bit(j \in i.x)
           b == Bit(j \in i.z)
           c == Bit(j \in h.x)
           d == Bit(j \in h.z)
<1>1. Exponents(h, i)[j] = Exponent(a, b, c, d)
  BY DEF Exponents
<1>2. a \in {0, 1} /\ b \in {0, 1} /\ c \in {0, 1} /\ d \in {0, 1}
  BY DEF Bit
<1>3. (a = 1 <=> j \in i.x) /\ (b = 1 <=> j \in i.z) /\ (c = 1 <=> j \in h.x) /\ (d = 1 <=> j \in h.z)
  BY DEF Bit
<1> HIDE DEF a, b, c, d
<1>4. /\ Bit(j \in i.x \cap i.z) = Both(a, b)
      /\ Bit(j \in h.x \cap h.z) = Both(c, d)
      /\ Bit(j \in i.z \cap h.x) = Both(b, c)
  BY <1>3 DEF Bit, Both
<1>5. Bit(j \in SymDiff(h.x, i.x) \cap SymDiff(h.z, i.z)) = Both(Apart(a, c), Apart(b, d))
  BY <1>2, <1>3 DEF Bit, Both, Apart, SymDiff
<1>6. /\ Exponent(a, b, c, d) \in Int
      /\ \E m \in {-1, 0, 1} :
                 Exponent(a, b, c, d) + Both(Apart(a, c), Apart(b, d)) + 4 * m
                   = Both(a, b) + Both(c, d) + 2 * Both(b, c)
  BY <1>2, ExponentIs
<1>7. \A m \in {-1, 0, 1} : m \in Int
  OBVIOUS
<1>8. Balance(Exponent(a, b, c, d), Both(Apart(a, c), Apart(b, d)), Both(a, b), Both(c, d), Both(b, c))
  BY <1>6, <1>7 DEF Balance
<1> QED BY <1>1, <1>4, <1>5, <1>6, <1>8

\* The phase that _rowsum adds up balances the counts over all wires.
LEMMA SumsBalance ==
    ASSUME StabilizerAssumption, NEW h \in Rows, NEW i \in Rows
    PROVE  /\ SumTo(Exponents(h, i), Qubits) \in Int
           /\ Balance(SumTo(Exponents(h, i), Qubits),
                      Shared(SymDiff(h.x, i.x), SymDiff(h.z, i.z)),
                      Shared(i.x, i.z), Shared(h.x, h.z), Shared(i.z, h.x))
<1> DEFINE f == Exponents(h, i)
           A == SymDiff(h.x, i.x) \cap SymDiff(h.z, i.z)
           B == i.x \cap i.z
           C == h.x \cap h.z
           D == i.z \cap h.x
           T == {n \in 0..Qubits : /\ SumTo(f, n) \in Int
                                   /\ Balance(SumTo(f, n), UpTo(A, n), UpTo(B, n), UpTo(C, n), UpTo(D, n))}
<1>1. A \in SUBSET Wires /\ B \in SUBSET Wires /\ C \in SUBSET Wires /\ D \in SUBSET Wires
  BY DEF Rows, SymDiff
<1>2. \A j \in Wires : f[j] \in Int /\ Balance(f[j], Bit(j \in A), Bit(j \in B), Bit(j \in C), Bit(j \in D))
  BY OneWireBalances
<1> HIDE DEF f, A, B, C, D
<1>3. 0 \in T
  <2>1. SumTo(f, 0) = 0
    BY SumStep
  <2>2. UpTo(A, 0) = 0 /\ UpTo(B, 0) = 0 /\ UpTo(C, 0) = 0 /\ UpTo(D, 0) = 0
    BY <1>1, UpToIs
  <2>3. 0 + 0 + 4 * 0 = 0 + 0 + 2 * 0 /\ 0 \in Int
    OBVIOUS
  <2>4. Balance(0, 0, 0, 0, 0)
    BY <2>3 DEF Balance
  <2> QED BY <2>1, <2>2, <2>4, WireNumbers
<1>4. ASSUME NEW n \in 1..Qubits, n - 1 \in T PROVE n \in T
  <2>1. n \in Wires /\ n - 1 \in Nat /\ (n - 1) + 1 = n /\ n - 1 \in 0..Qubits
    BY WireNumbers
  <2>2. SumTo(f, n) = SumTo(f, n - 1) + f[n]
    BY <2>1, SumStep
  <2>3. /\ UpTo(A, n) = UpTo(A, n - 1) + Bit(n \in A) /\ UpTo(A, n - 1) \in Nat
        /\ UpTo(B, n) = UpTo(B, n - 1) + Bit(n \in B) /\ UpTo(B, n - 1) \in Nat
        /\ UpTo(C, n) = UpTo(C, n - 1) + Bit(n \in C) /\ UpTo(C, n - 1) \in Nat
        /\ UpTo(D, n) = UpTo(D, n - 1) + Bit(n \in D) /\ UpTo(D, n - 1) \in Nat
    BY <1>1, <2>1, UpToIs
  <2>4. /\ Bit(n \in A) \in Nat /\ Bit(n \in B) \in Nat /\ Bit(n \in C) \in Nat /\ Bit(n \in D) \in Nat
    BY DEF Bit
  <2>5. f[n] \in Int /\ Balance(f[n], Bit(n \in A), Bit(n \in B), Bit(n \in C), Bit(n \in D))
    BY <1>2, <2>1
  <2>6. /\ SumTo(f, n - 1) \in Int
        /\ Balance(SumTo(f, n - 1), UpTo(A, n - 1), UpTo(B, n - 1), UpTo(C, n - 1), UpTo(D, n - 1))
    BY <1>4
  <2>7. Balance(SumTo(f, n), UpTo(A, n), UpTo(B, n), UpTo(C, n), UpTo(D, n))
    <3> DEFINE s == SumTo(f, n - 1)
               a == UpTo(A, n - 1)
               b == UpTo(B, n - 1)
               c == UpTo(C, n - 1)
               d == UpTo(D, n - 1)
               t == f[n]
               e == Bit(n \in A)
               k == Bit(n \in B)
               g == Bit(n \in C)
               m == Bit(n \in D)
    <3>1. /\ s \in Int /\ a \in Nat /\ b \in Nat /\ c \in Nat /\ d \in Nat
          /\ t \in Int /\ e \in Nat /\ k \in Nat /\ g \in Nat /\ m \in Nat
          /\ Balance(s, a, b, c, d) /\ Balance(t, e, k, g, m)
      BY <2>3, <2>4, <2>5, <2>6
    <3>2. /\ SumTo(f, n) = s + t /\ UpTo(A, n) = a + e /\ UpTo(B, n) = b + k
          /\ UpTo(C, n) = c + g /\ UpTo(D, n) = d + m
      BY <2>2, <2>3
    <3> HIDE DEF s, a, b, c, d, t, e, k, g, m
    <3>3. Balance(s + t, a + e, b + k, c + g, d + m)
      BY <3>1, BalanceAdds
    <3> QED BY <3>2, <3>3
  <2>8. SumTo(f, n) \in Int
    BY <2>2, <2>5, <2>6
  <2> QED BY <2>1, <2>7, <2>8, WireNumbers
<1> HIDE DEF T
<1>5. 0..Qubits \subseteq T
  BY <1>3, <1>4, BoundedInduction, WireNumbers
<1>6. /\ SumTo(f, Qubits) \in Int
      /\ Balance(SumTo(f, Qubits), UpTo(A, Qubits), UpTo(B, Qubits), UpTo(C, Qubits), UpTo(D, Qubits))
  BY <1>5, WireNumbers DEF T
<1>7. /\ UpTo(A, Qubits) = Cardinality(A) /\ UpTo(B, Qubits) = Cardinality(B)
      /\ UpTo(C, Qubits) = Cardinality(C) /\ UpTo(D, Qubits) = Cardinality(D)
  BY <1>1, UpToIs
<1>8. Balance(SumTo(f, Qubits), Cardinality(A), Cardinality(B), Cardinality(C), Cardinality(D))
  BY <1>6, <1>7
<1> QED BY <1>6, <1>8 DEF f, A, B, C, D, Shared

\* The total of _rowsum before it is tested for being odd.
LEMMA AccumulatedIs ==
    ASSUME StabilizerAssumption, NEW h \in Rows, NEW i \in Rows
    PROVE  Accumulated(h, i) = (2 * h.r + 2 * i.r + SumTo(Exponents(h, i), Qubits)) % 4
  BY DEF Accumulated, Exponents

\* Where _rowsum does not raise it multiplies the rows, signs included.
LEMMA RowSumMultiplies ==
    ASSUME StabilizerAssumption, NEW h \in Rows, NEW i \in Rows, ~ Raises(h, i)
    PROVE  Operator(RowSum(h, i)) = Multiply(Operator(i), Operator(h))
<1> DEFINE s == SumTo(Exponents(h, i), Qubits)
           a == Shared(SymDiff(h.x, i.x), SymDiff(h.z, i.z))
           b == Shared(i.x, i.z)
           c == Shared(h.x, h.z)
           d == Shared(i.z, h.x)
           acc == Accumulated(h, i)
           w == RowSum(h, i)
           p == Operator(i)
           q == Operator(h)
           L == Operator(w)
           R == Multiply(p, q)
           hr == h.r
           ir == i.r
<1>1. s \in Int /\ Balance(s, a, b, c, d)
  BY SumsBalance
<1>2. acc = (2 * hr + 2 * ir + s) % 4 /\ hr \in {0, 1} /\ ir \in {0, 1}
  BY AccumulatedIs DEF Rows
<1>3. a \in Nat /\ b \in Nat /\ c \in Nat /\ d \in Nat
  <2>1. SymDiff(h.x, i.x) \in SUBSET Wires /\ i.x \in SUBSET Wires /\ h.x \in SUBSET Wires /\ i.z \in SUBSET Wires
    BY DEF Rows, SymDiff
  <2> QED BY <2>1, SharedIs
<1>4. /\ w \in Rows /\ w.x = SymDiff(h.x, i.x) /\ w.z = SymDiff(h.z, i.z)
      /\ w.r = Bit(acc = 2)
  BY RowSumAdds DEF RowSum, IsSum
<1>5. acc \notin {1, 3}
  BY DEF Raises
<1>6. /\ p \in Operators /\ Alike(p, i) /\ p.k = (2 * ir + b) % 4
      /\ q \in Operators /\ Alike(q, h) /\ q.k = (2 * hr + c) % 4
  BY OperatorIs
<1> HIDE DEF p, q, w
<1>7. L \in Operators /\ Alike(L, w) /\ L.k = (2 * w.r + Shared(w.x, w.z)) % 4
  BY <1>4, OperatorIs
<1>8. R \in Operators /\ R.k = (p.k + q.k + 2 * Shared(p.z, q.x)) % 4 /\ IsSum(R, p, q)
  BY <1>6, MultiplyIs
<1>9. L.x = R.x /\ L.z = R.z
  BY <1>4, <1>6, <1>7, <1>8, DifferenceAssociates DEF Alike, IsSum
<1>10. L.k = (2 * Bit(acc = 2) + a) % 4
  BY <1>4, <1>7
<1>11. R.k = (((2 * ir + b) % 4) + ((2 * hr + c) % 4) + 2 * d) % 4
  BY <1>6, <1>8 DEF Alike
<1> HIDE DEF s, a, b, c, d, acc, L, R, hr, ir
<1>12. acc \in 0..3
  <2>1. 2 * hr + 2 * ir + s \in Int
    BY <1>1, <1>2
  <2> QED BY <1>2, <2>1, ModFour
<1>13. 2 * Bit(acc = 2) = acc
  <2>1. acc = 0 \/ acc = 2
    BY <1>5, <1>12
  <2>2. (acc = 2 => Bit(acc = 2) = 1) /\ (acc # 2 => Bit(acc = 2) = 0)
    BY DEF Bit
  <2> QED BY <2>1, <2>2
<1>14. L.k = R.k
  <2> DEFINE t == 2 * hr + 2 * ir + s
  <2>1. PICK m \in Int : s + a + 4 * m = b + c + 2 * d
    BY <1>1 DEF Balance
  <2>2. t \in Int /\ acc = t % 4
    BY <1>1, <1>2
  <2>3. L.k = ((t % 4) + a) % 4
    BY <1>10, <1>13, <2>2
  <2>4. ((t % 4) + a) % 4 = (t + a) % 4
    BY <1>3, <2>2, SMTT(30)
  <2>5. R.k = ((2 * ir + b) + (2 * hr + c) + 2 * d) % 4
    <3> DEFINE u == 2 * ir + b
               v == 2 * hr + c
    <3>1. u \in Int /\ v \in Int /\ d \in Int
      BY <1>2, <1>3
    <3>2. R.k = ((u % 4) + (v % 4) + 2 * d) % 4
      BY <1>11
    <3> HIDE DEF u, v
    <3>3. ((u % 4) + (v % 4) + 2 * d) % 4 = (u + v + 2 * d) % 4
      BY <3>1, SMTT(30)
    <3> QED BY <3>2, <3>3 DEF u, v
  <2>6. (2 * ir + b) + (2 * hr + c) + 2 * d = (t + a) + 4 * m
    BY <1>1, <1>2, <1>3, <2>1
  <2>7. ((t + a) + 4 * m) % 4 = (t + a) % 4
    <3> DEFINE n == t + a
    <3>1. n \in Int
      BY <1>3, <2>2
    <3> HIDE DEF n
    <3>2. (n + 4 * m) % 4 = n % 4
      BY <3>1, SMTT(30)
    <3> QED BY <3>2 DEF n
  <2> QED BY <2>3, <2>4, <2>5, <2>6, <2>7
<1>15. L = R
  BY <1>7, <1>8, <1>9, <1>14, SameOperator
<1> QED BY <1>15 DEF L, R, p, q, w

\* It raises exactly where they anticommute.
LEMMA RaisesWhereAnti ==
    ASSUME StabilizerAssumption, NEW h \in Rows, NEW i \in Rows
    PROVE  Raises(h, i) <=> Anti(h, i)
<1> DEFINE s == SumTo(Exponents(h, i), Qubits)
           X == SymDiff(h.x, i.x)
           Z == SymDiff(h.z, i.z)
           a == Shared(X, Z)
           b == Shared(i.x, i.z)
           c == Shared(h.x, h.z)
           d == Shared(i.z, h.x)
           acc == Accumulated(h, i)
           hr == h.r
           ir == i.r
<1>1. s \in Int /\ Balance(s, a, b, c, d)
  BY SumsBalance
<1>2. acc = (2 * hr + 2 * ir + s) % 4 /\ hr \in {0, 1} /\ ir \in {0, 1}
  BY AccumulatedIs DEF Rows
<1>3. /\ X \in SUBSET Wires /\ Z \in SUBSET Wires
      /\ h.x \in SUBSET Wires /\ h.z \in SUBSET Wires /\ i.x \in SUBSET Wires /\ i.z \in SUBSET Wires
  BY DEF Rows, SymDiff
<1>4. a \in Nat /\ b \in Nat /\ c \in Nat /\ d \in Nat
  BY <1>3, SharedIs
<1> DEFINE hh == h.x \cap h.z
           hi == h.x \cap i.z
           ih == i.x \cap h.z
           ii == i.x \cap i.z
<1>5. /\ hh \in SUBSET Wires /\ hi \in SUBSET Wires /\ ih \in SUBSET Wires /\ ii \in SUBSET Wires
      /\ SymDiff(hh, hi) \in SUBSET Wires /\ SymDiff(ih, ii) \in SUBSET Wires
      /\ X \cap Z = SymDiff(SymDiff(hh, hi), SymDiff(ih, ii))
  BY <1>3 DEF SymDiff
<1>6. (a % 2 = 1 <=> Odd(X \cap Z)) /\ (b % 2 = 1 <=> Odd(ii)) /\ (c % 2 = 1 <=> Odd(hh))
  BY DEF Shared, Odd
<1>7. Anti(h, i) <=> ~ (Odd(hi) <=> Odd(ih))
  <2>1. h.z \cap i.x = i.x \cap h.z
    OBVIOUS
  <2> QED BY <2>1 DEF Anti
<1> HIDE DEF hh, hi, ih, ii, a, b, c, d, s, acc, hr, ir, X, Z
<1>8. Odd(X \cap Z) <=> Xor(Xor(Odd(hh), Odd(hi)), Xor(Odd(ih), Odd(ii)))
  <2> DEFINE L == SymDiff(hh, hi)
             R == SymDiff(ih, ii)
  <2>1. L \in SUBSET Wires /\ R \in SUBSET Wires
    BY <1>5
  <2>2. (Odd(L) <=> ~ (Odd(hh) <=> Odd(hi))) /\ (Odd(R) <=> ~ (Odd(ih) <=> Odd(ii)))
    BY <1>5, OddDifferences
  <2> HIDE DEF L, R
  <2>3. Odd(SymDiff(L, R)) <=> ~ (Odd(L) <=> Odd(R))
    BY <2>1, OddDifferences
  <2>4. Odd(X \cap Z) <=> ~ (Odd(L) <=> Odd(R))
    BY <1>5, <2>3 DEF L, R
  <2> QED BY <2>2, <2>4 DEF Xor
<1>9. PICK m \in Int : s + a + 4 * m = b + c + 2 * d
  BY <1>1 DEF Balance
<1>10. acc \in {1, 3} <=> s % 2 = 1
  <2> DEFINE t == 2 * hr + 2 * ir + s
  <2>1. t \in Int /\ acc = t % 4 /\ t = s + 2 * (hr + ir) /\ hr + ir \in Int
    BY <1>1, <1>2
  <2> HIDE DEF t
  <2>2. acc \in {1, 3} <=> t % 2 = 1
    BY <2>1, SMTT(30)
  <2>3. t % 2 = s % 2
    <3> DEFINE e == hr + ir
    <3>1. e \in Int /\ t = s + 2 * e
      BY <2>1
    <3> HIDE DEF e
    <3> QED BY <1>1, <3>1, SMTT(30)
  <2> QED BY <2>2, <2>3
<1>11. s % 2 = 1 <=> Xor(a % 2 = 1, Xor(b % 2 = 1, c % 2 = 1))
  <2>1. s = (b + c - a) + 2 * (d - 2 * m) /\ b + c - a \in Int /\ d - 2 * m \in Int
    BY <1>1, <1>4, <1>9
  <2>2. s % 2 = (b + c - a) % 2
    <3> DEFINE e == d - 2 * m
               g == b + c - a
    <3>1. e \in Int /\ g \in Int /\ s = g + 2 * e
      BY <2>1
    <3> HIDE DEF e, g
    <3>2. s % 2 = g % 2
      BY <3>1, SMTT(30)
    <3> QED BY <3>2 DEF g
  <2>3. (b + c - a) % 2 = 1 <=> ~ (a % 2 = 1 <=> ~ (b % 2 = 1 <=> c % 2 = 1))
    BY <1>4, SMTT(30)
  <2> QED BY <2>2, <2>3 DEF Xor
<1>12. Raises(h, i) <=> acc \in {1, 3}
  BY DEF Raises, acc
<1> QED BY <1>6, <1>7, <1>8, <1>10, <1>11, <1>12 DEF Xor
-----------------------------------------------------------------------------
(* The stabilizers of a tableau as operators.                               *)
Generators(t) == [j \in Wires |-> Operator(t[Qubits + j])]

\* The generators of the group are the operators of the stabilizers.
LEMMA GeneratorsAre ==
    ASSUME StabilizerAssumption, NEW t, t \in Tableaus
    PROVE  /\ Factors(Generators(t))
           /\ \A j \in Wires : /\ Generators(t)[j] = Operator(t[Qubits + j])
                               /\ t[Qubits + j] \in Rows
                               /\ Alike(Generators(t)[j], t[Qubits + j])
           /\ Group(t) = {Product(Generators(t), S) : S \in SUBSET Wires}
<1>1. ASSUME NEW j \in Wires
      PROVE  /\ Generators(t)[j] = Operator(t[Qubits + j])
             /\ t[Qubits + j] \in Rows
             /\ Generators(t)[j] \in Operators
             /\ Alike(Generators(t)[j], t[Qubits + j])
  <2>1. t[Qubits + j] \in Rows
    BY RowNumbers DEF Tableaus
  <2> QED BY <2>1, OperatorIs DEF Generators
<1>2. Generators(t) \in [Wires -> Operators]
  BY <1>1 DEF Generators
<1>3. Group(t) = {Product(Generators(t), S) : S \in SUBSET Wires}
  BY DEF Group, Generators
<1> QED BY <1>1, <1>2, <1>3 DEF Factors

\* The stabilizers of a well formed tableau commute and square to One.
LEMMA GeneratorsCommute ==
    ASSUME StabilizerAssumption, NEW t, WellFormed(t)
    PROVE  Commuting(Generators(t))
<1> DEFINE f == Generators(t)
<1>1. t \in Tableaus
  BY DEF WellFormed
<1>2. Factors(f) /\ \A j \in Wires : /\ f[j] = Operator(t[Qubits + j])
                                     /\ t[Qubits + j] \in Rows
                                     /\ Alike(f[j], t[Qubits + j])
  BY <1>1, GeneratorsAre
<1> HIDE DEF f
<1>3. ASSUME NEW i \in Wires, NEW j \in Wires PROVE ~ Anti(f[i], f[j])
  <2>1. Anti(f[i], f[j]) <=> Anti(t[Qubits + i], t[Qubits + j])
    BY <1>2, AlikeAnti
  <2>2. Qubits + i \in TableauRows /\ Qubits + j \in TableauRows
    BY RowNumbers
  <2>3. ~ Partners(Qubits + i, Qubits + j)
    BY WireNumbers DEF Partners
  <2> QED BY <2>1, <2>2, <2>3 DEF WellFormed, Paired
<1>4. ASSUME NEW j \in Wires PROVE Multiply(f[j], f[j]) = One
  BY <1>2, RowsSquareToOne
<1>5. Commuting(f)
  BY <1>2, <1>3, <1>4 DEF Commuting
<1> QED BY <1>5 DEF f

\* Elements of the group.
LEMMA GroupHas ==
    ASSUME StabilizerAssumption, NEW t, t \in Tableaus
    PROVE  One \in Group(t) /\ \A j \in Wires : Operator(t[Qubits + j]) \in Group(t)
<1> DEFINE f == Generators(t)
<1>1. Factors(f) /\ (\A j \in Wires : f[j] = Operator(t[Qubits + j]))
      /\ Group(t) = {Product(f, S) : S \in SUBSET Wires}
  BY GeneratorsAre
<1> HIDE DEF f
<1>2. Product(f, {}) = One
  BY <1>1, ProductOfNone
<1>3. One \in Group(t)
  BY <1>1, <1>2
<1>4. ASSUME NEW j \in Wires PROVE Operator(t[Qubits + j]) \in Group(t)
  <2>1. Product(f, {j}) = f[j]
    BY <1>1, ProductOfOne
  <2>2. {j} \in SUBSET Wires
    OBVIOUS
  <2> QED BY <1>1, <2>1, <2>2
<1> QED BY <1>3, <1>4

\* The products of stabilizers are closed under multiplication.
LEMMA GroupIsClosed ==
    ASSUME StabilizerAssumption, NEW t, WellFormed(t), NEW g \in Group(t), NEW h \in Group(t)
    PROVE  Multiply(g, h) \in Group(t) /\ g \in Operators
<1> DEFINE f == Generators(t)
<1>1. Group(t) = {Product(f, S) : S \in SUBSET Wires} /\ Factors(f)
  BY GeneratorsAre DEF WellFormed
<1>2. Commuting(f)
  BY GeneratorsCommute
<1> HIDE DEF f
<1>3. PICK S \in SUBSET Wires : g = Product(f, S)
  BY <1>1
<1>4. PICK U \in SUBSET Wires : h = Product(f, U)
  BY <1>1
<1>5. Multiply(g, h) = Product(f, SymDiff(S, U))
  BY <1>2, <1>3, <1>4, ProductsMultiply
<1>6. SymDiff(S, U) \in SUBSET Wires
  BY DEF SymDiff
<1>7. g \in Operators
  <2>1. PICK b : Builds(b, f, S) /\ b \in [0..Qubits -> Operators] /\ Product(f, S) = b[Qubits]
    BY <1>1, ProductIsBuilt
  <2> QED BY <1>3, <2>1, WireNumbers
<1> QED BY <1>1, <1>5, <1>6, <1>7

\* What commutes with the stabilizers commutes with the group.
LEMMA GroupCommutes ==
    ASSUME StabilizerAssumption, NEW t, t \in Tableaus, NEW v, IsVector(v),
           \A i \in Stabilizers : ~ Anti(v, t[i]), NEW g \in Group(t)
    PROVE  ~ Anti(v, g)
<1> DEFINE f == Generators(t)
<1>1. Factors(f) /\ Group(t) = {Product(f, S) : S \in SUBSET Wires}
      /\ \A j \in Wires : Alike(f[j], t[Qubits + j])
  BY GeneratorsAre
<1> HIDE DEF f
<1>2. PICK S \in SUBSET Wires : g = Product(f, S)
  BY <1>1
<1>3. PICK b : Builds(b, f, S) /\ b \in [0..Qubits -> Operators] /\ Product(f, S) = b[Qubits]
  BY <1>1, ProductIsBuilt
<1>4. ASSUME NEW j \in Wires PROVE ~ Anti(v, f[j])
  <2>1. Qubits + j \in Stabilizers /\ f[j].x = t[Qubits + j].x /\ f[j].z = t[Qubits + j].z
    BY <1>1, RowNumbers DEF Alike
  <2>2. Anti(v, f[j]) <=> Anti(v, t[Qubits + j])
    BY <2>1, AntiSame
  <2> QED BY <2>1, <2>2
<1>5. \A j \in 0..Qubits : ~ Anti(v, b[j])
  BY <1>1, <1>3, <1>4, ProductCommutes
<1> QED BY <1>2, <1>3, <1>5, WireNumbers
-----------------------------------------------------------------------------
(* The deterministic branch of a measurement.                               *)
Scratched(s, t, a) ==
    /\ s[0] = [x |-> {}, z |-> {}, r |-> 0]
    /\ \A j \in Wires : s[j] = IF a \in t[j].x THEN RowSum(s[j - 1], t[Qubits + j]) ELSE s[j - 1]

\* The scratch row of the deterministic branch is built wire by wire.
LEMMA ScratchIs ==
    ASSUME StabilizerAssumption, tableau \in Tableaus, NEW a \in Wires
    PROVE  Scratched(Scratch(a), tableau, a) /\ Scratch(a) \in [0..Qubits -> Rows]
<1> DEFINE zero == [x |-> {}, z |-> {}, r |-> 0]
           Step == [j \in 1..Qubits |-> [v \in Rows |->
                      IF a \in tableau[j].x THEN RowSum(v, tableau[Qubits + j]) ELSE v]]
           Table(s) == s = [i \in 0..Qubits |->
                              IF i = 0 THEN zero
                              ELSE IF a \in tableau[i].x
                                   THEN RowSum(s[i - 1], tableau[Qubits + i])
                              ELSE s[i - 1]]
<1>1. zero \in Rows
  BY DEF Rows
<1>2. \A j \in 1..Qubits : \A v \in Rows : RowSum(v, tableau[Qubits + j]) \in Rows
  BY WireNumbers, RowNumbers, RowSumAdds DEF Tableaus
<1>3. Step \in Steps(Qubits, Rows)
  BY <1>2 DEF Steps
<1>4. \A j \in 1..Qubits : \A v \in Rows :
         Step[j][v] = IF a \in tableau[j].x THEN RowSum(v, tableau[Qubits + j]) ELSE v
  OBVIOUS
<1> HIDE DEF Step
<1>5. PICK h : IsTable(h, Qubits, Rows, zero, Step)
  <2> HIDE DEF zero
  <2> QED BY <1>1, <1>3, StepRecursion, WireNumbers
<1>6. h \in [0..Qubits -> Rows] /\ h[0] = zero
      /\ \A j \in 1..Qubits : h[j] = Step[j][h[j - 1]]
  BY <1>5 DEF IsTable
<1> HIDE DEF zero
<1>7. ASSUME NEW j \in 1..Qubits
      PROVE  h[j] = IF a \in tableau[j].x THEN RowSum(h[j - 1], tableau[Qubits + j]) ELSE h[j - 1]
  <2>1. h[j - 1] \in Rows
    BY <1>6
  <2> QED BY <1>4, <1>6, <2>1
<1>8. ASSUME NEW j \in 0..Qubits
      PROVE  h[j] = IF j = 0 THEN zero
                    ELSE IF a \in tableau[j].x THEN RowSum(h[j - 1], tableau[Qubits + j]) ELSE h[j - 1]
  <2>1. j = 0 \/ j \in 1..Qubits
    BY WireNumbers
  <2> QED BY <1>6, <1>7, <2>1
<1>9. h = [j \in 0..Qubits |-> IF j = 0 THEN zero
                    ELSE IF a \in tableau[j].x THEN RowSum(h[j - 1], tableau[Qubits + j]) ELSE h[j - 1]]
  <2>1. h = [j \in 0..Qubits |-> h[j]]
    BY <1>6
  <2> QED BY <1>8, <2>1
<1>10. \E s : Table(s)
  BY <1>9
<1> DEFINE scratch == CHOOSE s : Table(s)
<1>11. Scratch(a) = scratch
  BY DEF Scratch, zero
<1>12. Table(scratch)
  BY <1>10
<1> HIDE DEF scratch
<1>13. scratch[0] = zero /\ \A j \in 1..Qubits :
          scratch[j] = IF a \in tableau[j].x THEN RowSum(scratch[j - 1], tableau[Qubits + j])
                       ELSE scratch[j - 1]
  BY <1>12, WireNumbers
<1> HIDE DEF Table
<1> DEFINE T == {j \in 0..Qubits : scratch[j] \in Rows}
<1>14. 0 \in T
  BY <1>1, <1>13, WireNumbers
<1>15. ASSUME NEW j \in 1..Qubits, j - 1 \in T PROVE j \in T
  BY <1>2, <1>13, <1>15
<1> HIDE DEF T
<1>16. 0..Qubits \subseteq T
  BY <1>14, <1>15, BoundedInduction, WireNumbers
<1>17. scratch \in [0..Qubits -> Rows]
  <2>1. scratch = [j \in 0..Qubits |-> scratch[j]]
    BY <1>12 DEF Table
  <2> QED BY <1>16, <2>1 DEF T
<1>18. Scratched(scratch, tableau, a)
  BY <1>13, WireNumbers DEF Scratched, zero
<1> QED BY <1>11, <1>17, <1>18

\* The scratch row anticommutes with the destabilizers that it has passed
\* and that have a bit in x.
LEMMA ScratchAnti ==
    ASSUME StabilizerAssumption, NEW t, WellFormed(t), NEW a \in Wires,
           NEW s, Scratched(s, t, a), s \in [0..Qubits -> Rows]
    PROVE  \A n \in 0..Qubits : \A i \in TableauRows :
              Anti(t[i], s[n]) <=> (i \in Wires /\ i <= n /\ a \in t[i].x)
<1> DEFINE T == {n \in 0..Qubits : \A i \in TableauRows :
                    Anti(t[i], s[n]) <=> (i \in Wires /\ i <= n /\ a \in t[i].x)}
<1>1. \A i \in TableauRows : t[i] \in Rows
  BY DEF WellFormed, Tableaus
<1>2. 0 \in T
  <2>1. ASSUME NEW i \in TableauRows PROVE ~ Anti(t[i], s[0])
    <3>1. s[0].x = {} /\ s[0].z = {}
      BY DEF Scratched
    <3>2. t[i].x \cap {} = {} /\ t[i].z \cap {} = {}
      OBVIOUS
    <3> QED BY <3>1, <3>2, NoWires DEF Anti
  <2>2. ASSUME NEW i \in TableauRows PROVE ~ (i \in Wires /\ i <= 0)
    BY DEF Wires
  <2> QED BY <2>1, <2>2, WireNumbers
<1>3. ASSUME NEW n \in 1..Qubits, n - 1 \in T PROVE n \in T
  <2>1. n \in Wires /\ n - 1 \in 0..Qubits /\ n \in 0..Qubits /\ Qubits + n \in TableauRows
        /\ n \in TableauRows /\ n \in Nat
    BY WireNumbers, RowNumbers
  <2> SUFFICES ASSUME NEW i \in TableauRows
               PROVE  Anti(t[i], s[n]) <=> (i \in Wires /\ i <= n /\ a \in t[i].x)
    BY <2>1
  <2>2. Anti(t[i], s[n - 1]) <=> (i \in Wires /\ i <= n - 1 /\ a \in t[i].x)
    BY <1>3
  <2>3. i \in Nat
    BY RowNumbers
  <2>4. CASE a \notin t[n].x
    <3>1. s[n] = s[n - 1]
      BY <2>1, <2>4 DEF Scratched
    <3>2. (i \in Wires /\ i <= n /\ a \in t[i].x) <=> (i \in Wires /\ i <= n - 1 /\ a \in t[i].x)
      BY <2>1, <2>3, <2>4
    <3> QED BY <2>2, <3>1, <3>2
  <2>5. CASE a \in t[n].x
    <3> DEFINE u == s[n - 1]
               v == t[Qubits + n]
               w == s[n]
               y == t[i]
    <3>1. w = RowSum(u, v) /\ u \in Rows /\ v \in Rows /\ y \in Rows
      BY <1>1, <2>1, <2>5 DEF Scratched
    <3>2. Anti(y, v) <=> i = n
      <4>1. Anti(y, v) <=> Partners(i, Qubits + n)
        BY <2>1 DEF WellFormed, Paired
      <4>2. Partners(i, Qubits + n) <=> i = n
        BY <2>1, <2>3, RowNumbers DEF Partners
      <4> QED BY <4>1, <4>2
    <3> HIDE DEF u, v, w, y
    <3>3. IsSum(w, u, v) /\ IsVector(u) /\ IsVector(v) /\ IsVector(y)
      BY <3>1, RowSumAdds, RowIsVector
    <3>4. Anti(y, w) <=> ~ (Anti(y, u) <=> Anti(y, v))
      BY ONLY StabilizerAssumption, <3>3, AntiIsLinear
    <3>5. Anti(t[i], s[n]) <=> ~ (Anti(t[i], s[n - 1]) <=> i = n)
      BY <3>2, <3>4 DEF u, w, y
    <3>6. (i \in Wires /\ i <= n /\ a \in t[i].x) <=> (i = n \/ (i \in Wires /\ i <= n - 1 /\ a \in t[i].x))
      BY <2>1, <2>3, <2>5
    <3>7. i = n => ~ (i <= n - 1)
      BY <2>1
    <3> QED BY <2>2, <3>5, <3>6, <3>7
  <2> QED BY <2>4, <2>5
<1> HIDE DEF T
<1>4. 0..Qubits \subseteq T
  BY <1>2, <1>3, BoundedInduction, WireNumbers
<1> QED BY <1>4 DEF T

\* Its operator is a product of stabilizers.
LEMMA ScratchInGroup ==
    ASSUME StabilizerAssumption, NEW t, WellFormed(t), NEW a \in Wires,
           NEW s, Scratched(s, t, a), s \in [0..Qubits -> Rows]
    PROVE  Operator(s[Qubits]) \in Group(t)
<1> DEFINE f == Generators(t)
           S == {j \in Wires : a \in t[j].x}
           h == [j \in 0..Qubits |-> Operator(s[j])]
<1>1. t \in Tableaus /\ \A i \in TableauRows : t[i] \in Rows
  BY DEF WellFormed, Tableaus
<1>2. Factors(f) /\ (\A j \in Wires : f[j] = Operator(t[Qubits + j]))
      /\ Group(t) = {Product(f, U) : U \in SUBSET Wires}
  BY <1>1, GeneratorsAre
<1>3. \A j \in 0..Qubits : h[j] = Operator(s[j])
  OBVIOUS
<1>4. S \in SUBSET Wires /\ \A j \in Wires : j \in S <=> a \in t[j].x
  OBVIOUS
<1> HIDE DEF f, h, S
<1>5. h[0] = One
  <2>1. s[0] \in Rows /\ s[0].x = {} /\ s[0].z = {} /\ s[0].r = 0
    <3>1. 0 \in 0..Qubits
      BY WireNumbers
    <3>2. s[0] \in Rows
      BY <3>1
    <3>3. s[0] = [x |-> {}, z |-> {}, r |-> 0]
      BY DEF Scratched
    <3> QED BY <3>2, <3>3
  <2>2. Operator(s[0]) \in Operators /\ Alike(Operator(s[0]), s[0])
        /\ Operator(s[0]).k = (2 * s[0].r + Shared(s[0].x, s[0].z)) % 4
    BY <2>1, OperatorIs
  <2>3. Shared({}, {}) = 0
    BY NoWires DEF Shared
  <2>4. (2 * 0 + 0) % 4 = 0
    OBVIOUS
  <2>5. Operator(s[0]).k = 0
    BY <2>1, <2>2, <2>3, <2>4
  <2>6. One \in Operators /\ One.k = 0 /\ One.x = {} /\ One.z = {}
    BY DEF One, Operators
  <2>7. Operator(s[0]) = One
    <3> DEFINE p == Operator(s[0])
    <3>1. p \in Operators /\ p.k = One.k /\ p.x = One.x /\ p.z = One.z
      BY <2>1, <2>2, <2>5, <2>6 DEF Alike
    <3> HIDE DEF p
    <3>2. p = One
      BY <2>6, <3>1, SameOperator
    <3> QED BY <3>2 DEF p
  <2> QED BY <1>3, <2>7, WireNumbers
<1>6. ASSUME NEW j \in Wires
      PROVE  h[j] = IF j \in S THEN Multiply(h[j - 1], f[j]) ELSE h[j - 1]
  <2>1. j - 1 \in 0..Qubits /\ j \in 0..Qubits /\ Qubits + j \in TableauRows
        /\ Qubits + j \notin Wires
    BY WireNumbers, RowNumbers
  <2>2. CASE j \notin S
    <3>1. s[j] = s[j - 1]
      BY <1>4, <2>2 DEF Scratched
    <3> QED BY <1>3, <2>1, <2>2, <3>1
  <2>3. CASE j \in S
    <3> DEFINE u == s[j - 1]
               v == t[Qubits + j]
               p == Operator(v)
               q == Operator(u)
    <3>1. s[j] = RowSum(u, v) /\ u \in Rows /\ v \in Rows
      BY <1>1, <1>4, <2>1, <2>3 DEF Scratched
    <3>2. ~ Anti(v, u)
      BY <2>1, ScratchAnti
    <3> HIDE DEF u, v
    <3>3. IsVector(u) /\ IsVector(v)
      BY <3>1, RowIsVector
    <3>4. ~ Anti(u, v)
      BY <3>2, <3>3, AntiEitherWay
    <3>5. ~ Raises(u, v)
      BY <3>1, <3>4, RaisesWhereAnti
    <3>6. Operator(s[j]) = Multiply(p, q)
      BY <3>1, <3>5, RowSumMultiplies
    <3>7. p \in Operators /\ q \in Operators /\ Alike(p, v) /\ Alike(q, u)
      BY <3>1, OperatorIs
    <3> HIDE DEF p, q
    <3>8. ~ Anti(p, q)
      BY <3>2, <3>7, AlikeAnti
    <3>9. Multiply(p, q) = Multiply(q, p)
      BY <3>7, <3>8, CommutingMultiply
    <3>10. h[j] = Multiply(q, p)
      BY <1>3, <2>1, <3>6, <3>9
    <3>11. q = h[j - 1] /\ p = f[j]
      BY <1>2, <1>3, <2>1 DEF p, q, u, v
    <3> QED BY <2>3, <3>10, <3>11
  <2> QED BY <2>2, <2>3
<1>7. Builds(h, f, S)
  BY <1>5, <1>6 DEF Builds
<1>8. Product(f, S) = h[Qubits]
  BY <1>2, <1>7, BuildsTheProduct
<1> QED BY <1>2, <1>3, <1>4, <1>8, WireNumbers
-----------------------------------------------------------------------------
(* Outcomes.                                                                *)
LEMMA ScaledIs ==
    ASSUME NEW p \in Operators, NEW n \in Int
    PROVE  /\ Scaled(p, n) \in Operators
           /\ Scaled(p, n).k = (p.k + n) % 4
           /\ Scaled(p, n).x = p.x /\ Scaled(p, n).z = p.z
<1> DEFINE k == (p.k + n) % 4
<1>1. p.k + n \in Int
  BY DEF Operators
<1>2. k \in 0..3
  BY <1>1, ModFour
<1>3. Scaled(p, n) = [p EXCEPT !.k = k]
  BY DEF Scaled, Operators
<1> HIDE DEF k
<1>4. /\ [p EXCEPT !.k = k] \in Operators /\ [p EXCEPT !.k = k].k = k
      /\ [p EXCEPT !.k = k].x = p.x /\ [p EXCEPT !.k = k].z = p.z
  BY <1>2 DEF Operators
<1> QED BY <1>3, <1>4 DEF k

\* Z on a wire and its negative, by phase and bits.
LEMMA ZIs ==
    ASSUME StabilizerAssumption, NEW a \in Wires
    PROVE  /\ ZOn({a}) \in Operators /\ ZOn({a}).k = 0 /\ ZOn({a}).x = {} /\ ZOn({a}).z = {a}
           /\ Scaled(ZOn({a}), 2) \in Operators
           /\ Scaled(ZOn({a}), 2).k = 2
           /\ Scaled(ZOn({a}), 2).x = {} /\ Scaled(ZOn({a}), 2).z = {a}
           /\ Scaled(ZOn({a}), 0) = ZOn({a})
<1> DEFINE y == ZOn({a})
<1>1. y \in Operators /\ y.k = 0 /\ y.x = {} /\ y.z = {a}
  BY DEF ZOn, Operators
<1>2. (0 + 2) % 4 = 2 /\ (0 + 0) % 4 = 0
  OBVIOUS
<1> HIDE DEF y
<1>3. /\ Scaled(y, 2) \in Operators /\ Scaled(y, 2).k = 2
      /\ Scaled(y, 2).x = {} /\ Scaled(y, 2).z = {a}
  <2> DEFINE n == 2
             v == Scaled(y, n)
  <2>0. n \in Int
    OBVIOUS
  <2> HIDE DEF n
  <2>1. v \in Operators /\ v.k = (y.k + n) % 4 /\ v.x = y.x /\ v.z = y.z
    BY <1>1, <2>0, ScaledIs
  <2> USE DEF n
  <2> HIDE DEF v
  <2>2. v \in Operators /\ v.k = 2 /\ v.x = {} /\ v.z = {a}
    BY <1>1, <1>2, <2>1
  <2> QED BY <2>2 DEF v
<1> DEFINE w == Scaled(y, 0)
<1>4. w \in Operators /\ w.k = 0 /\ w.x = {} /\ w.z = {a}
  BY <1>1, <1>2, ScaledIs
<1> HIDE DEF w
<1>5. w = y
  BY <1>1, <1>4, SameOperator
<1> QED BY <1>1, <1>3, <1>5 DEF y, w

\* No two stabilizers are partners, so they commute.
LEMMA StabilizersAreNoPartners ==
    ASSUME StabilizerAssumption, NEW i \in Stabilizers, NEW j \in Stabilizers
    PROVE  ~ Partners(i, j) /\ i \in TableauRows /\ j \in TableauRows
<1>1. Qubits \in Nat /\ Qubits > 0
  BY DEF StabilizerAssumption
<1>2. i \in Int /\ j \in Int /\ Qubits + 1 <= i /\ i <= 2 * Qubits /\ Qubits + 1 <= j /\ j <= 2 * Qubits
  BY <1>1 DEF Stabilizers
<1>3. i - j < Qubits /\ i - j > -Qubits
  BY <1>1, <1>2
<1>4. i \in TableauRows /\ j \in TableauRows
  BY <1>1, <1>2 DEF TableauRows
<1> QED BY <1>1, <1>2, <1>3, <1>4 DEF Partners

\* With a pivot, no product of stabilizers is Z on the wire or its negative.
LEMMA RandomIsUndetermined ==
    ASSUME StabilizerAssumption, WellFormed(tableau), NEW a \in Wires, Pivots(a) # {},
           NEW g \in Group(tableau)
    PROVE  ~ (g.x = {} /\ g.z = {a})
<1> DEFINE P == tableau[Pivot(a)]
<1>1. Pivot(a) \in Stabilizers /\ a \in P.x /\ Pivot(a) \in TableauRows
  BY PivotIs
<1>2. tableau \in Tableaus /\ P \in Rows
  BY <1>1 DEF WellFormed, Tableaus
<1>3. ASSUME NEW i \in Stabilizers PROVE ~ Anti(P, tableau[i])
  <2>1. i \in TableauRows /\ ~ Partners(Pivot(a), i)
    BY <1>1, StabilizersAreNoPartners
  <2> QED BY <1>1, <2>1 DEF WellFormed, Paired
<1> HIDE DEF P
<1>4. IsVector(P)
  BY <1>2, RowIsVector
<1>5. ~ Anti(P, g)
  BY <1>2, <1>3, <1>4, GroupCommutes
<1> SUFFICES ASSUME g.x = {} /\ g.z = {a} PROVE FALSE
  OBVIOUS
<1>6. Anti(P, g)
  BY <1>1, <1>4, AntiZ
<1> QED BY <1>5, <1>6

\* Without a pivot, the group has Z on the wire with the sign returned.
LEMMA DeterminedIsRight ==
    ASSUME StabilizerAssumption, WellFormed(tableau), NEW a \in Wires, Pivots(a) = {}
    PROVE  IF Determined(a) = 0 THEN ZOn({a}) \in Group(tableau)
           ELSE Scaled(ZOn({a}), 2) \in Group(tableau)
<1>1. tableau \in Tableaus /\ \A i \in TableauRows : tableau[i] \in Rows
  BY DEF WellFormed, Tableaus
<1> DEFINE s == Scratch(a)
<1>2. Scratched(s, tableau, a) /\ s \in [0..Qubits -> Rows] /\ Determined(a) = s[Qubits].r
  BY <1>1, ScratchIs DEF Determined
<1> HIDE DEF s
<1> DEFINE v == s[Qubits]
           p == Operator(v)
           y == [x |-> {}, z |-> {a}, r |-> 0]
           w == RowSum(v, y)
<1>3. v \in Rows /\ Determined(a) = v.r
  BY <1>2, WireNumbers
<1>4. p \in Group(tableau)
  BY <1>2, ScratchInGroup
<1>5. ASSUME NEW i \in TableauRows PROVE Anti(tableau[i], v) <=> a \in tableau[i].x
  <2>1. Anti(tableau[i], v) <=> (i \in Wires /\ i <= Qubits /\ a \in tableau[i].x)
    BY <1>2, ScratchAnti, WireNumbers
  <2>2. i \in Wires => i <= Qubits
    BY WireNumbers
  <2>3. i \notin Wires => a \notin tableau[i].x
    <3>1. i \notin Wires => i \in Stabilizers
      BY RowNumbers
    <3> QED BY <3>1 DEF Pivots
  <2> QED BY <2>1, <2>2, <2>3
<1> HIDE DEF v
<1>6. y \in Rows /\ y.x = {} /\ y.z = {a}
  BY DEF Rows
<1> HIDE DEF y
<1>7. w \in Rows /\ IsSum(w, v, y)
  BY <1>3, <1>6, RowSumAdds
<1> HIDE DEF w
<1>8. ASSUME NEW i \in TableauRows PROVE ~ Anti(w, tableau[i])
  <2> DEFINE u == tableau[i]
  <2>1. u \in Rows
    BY <1>1
  <2>2. Anti(u, v) <=> a \in u.x
    BY <1>5
  <2> HIDE DEF u
  <2>3. IsVector(u) /\ IsVector(v) /\ IsVector(y) /\ IsVector(w)
    BY <1>3, <1>6, <1>7, <2>1, RowIsVector
  <2>4. Anti(u, y) <=> a \in u.x
    BY <1>6, <2>3, AntiZ
  <2>5. Anti(u, w) <=> ~ (Anti(u, v) <=> Anti(u, y))
    BY ONLY StabilizerAssumption, <1>7, <2>3, AntiIsLinear
  <2>6. ~ Anti(w, u)
    BY <2>2, <2>3, <2>4, <2>5, AntiEitherWay
  <2> QED BY <2>6 DEF u
<1>9. IsZero(w)
  BY <1>7, <1>8 DEF WellFormed, Separates
<1>10. v.x = {} /\ v.z = {a}
  BY <1>6, <1>7, <1>9 DEF IsZero, IsSum, SymDiff
<1>11. p \in Operators /\ Alike(p, v) /\ p.k = (2 * v.r + Shared(v.x, v.z)) % 4
  BY <1>3, OperatorIs
<1>12. Shared(v.x, v.z) = 0
  BY <1>10, NoWires DEF Shared
<1> HIDE DEF p
<1>13. CASE v.r = 0
  <2>1. p.k = 0
    <3>1. (2 * 0 + 0) % 4 = 0
      OBVIOUS
    <3> QED BY <1>11, <1>12, <1>13, <3>1
  <2> DEFINE q == ZOn({a})
  <2>2. q \in Operators /\ q.k = 0 /\ q.x = {} /\ q.z = {a}
    BY ZIs
  <2> HIDE DEF q
  <2>3. p = q
    BY <1>10, <1>11, <2>1, <2>2, SameOperator DEF Alike
  <2> QED BY <1>3, <1>4, <1>13, <2>3 DEF q
<1>14. CASE v.r = 1
  <2>1. p.k = 2
    <3>1. (2 * 1 + 0) % 4 = 2
      OBVIOUS
    <3> QED BY <1>11, <1>12, <1>14, <3>1
  <2> DEFINE q == Scaled(ZOn({a}), 2)
  <2>2. q \in Operators /\ q.k = 2 /\ q.x = {} /\ q.z = {a}
    BY ZIs
  <2> HIDE DEF q
  <2>3. p = q
    BY <1>10, <1>11, <2>1, <2>2, SameOperator DEF Alike
  <2> QED BY <1>3, <1>4, <1>14, <2>3 DEF q
<1> QED BY <1>3, <1>13, <1>14 DEF Rows

\* OutcomesAreDetermined holds of every well formed tableau.
LEMMA WellFormedDetermines ==
    ASSUME StabilizerAssumption, WellFormed(tableau)
    PROVE  OutcomesAreDetermined
<1> SUFFICES ASSUME NEW a \in Wires
             PROVE  IF Pivots(a) # {}
                    THEN ZOn({a}) \notin Group(tableau) /\ Scaled(ZOn({a}), 2) \notin Group(tableau)
                    ELSE IF Determined(a) = 0 THEN ZOn({a}) \in Group(tableau)
                         ELSE Scaled(ZOn({a}), 2) \in Group(tableau)
  BY DEF OutcomesAreDetermined
<1>1. CASE Pivots(a) # {}
  <2>1. ZOn({a}).x = {} /\ ZOn({a}).z = {a}
        /\ Scaled(ZOn({a}), 2).x = {} /\ Scaled(ZOn({a}), 2).z = {a}
    BY ZIs
  <2> QED BY <1>1, <2>1, RandomIsUndetermined
<1>2. CASE Pivots(a) = {}
  BY <1>2, DeterminedIsRight
<1> QED BY <1>1, <1>2

\* Rows pair as their bits do.
LEMMA WellFormedPairs ==
    ASSUME StabilizerAssumption, WellFormed(tableau)
    PROVE  RowsPair
<1> SUFFICES ASSUME NEW i \in TableauRows, NEW j \in TableauRows
             PROVE  Commute(Operator(tableau[i]), Operator(tableau[j]))
                       <=> (i - j) \notin {Qubits, -Qubits}
  BY DEF RowsPair
<1> DEFINE p == Operator(tableau[i])
           q == Operator(tableau[j])
<1>1. tableau[i] \in Rows /\ tableau[j] \in Rows
  BY DEF WellFormed, Tableaus
<1>2. p \in Operators /\ Alike(p, tableau[i]) /\ q \in Operators /\ Alike(q, tableau[j])
  BY <1>1, OperatorIs
<1>3. Anti(p, q) <=> Anti(tableau[i], tableau[j])
  BY <1>2, AlikeAnti
<1>4. Anti(tableau[i], tableau[j]) <=> Partners(i, j)
  BY DEF WellFormed, Paired
<1> HIDE DEF p, q
<1> DEFINE m == Cardinality(p.x \cap q.z)
           n == Cardinality(p.z \cap q.x)
<1>5. m \in Nat /\ n \in Nat
  BY <1>2, WiresAreCounted DEF Operators
<1>6. Anti(p, q) <=> ~ (m % 2 = 1 <=> n % 2 = 1)
  BY DEF Anti, Odd
<1>7. Commute(p, q) <=> (m + n) % 2 = 0
  BY DEF Commute
<1> HIDE DEF m, n
<1>8. (m + n) % 2 = 0 <=> (m % 2 = 1 <=> n % 2 = 1)
  BY <1>5, SMTT(30)
<1>9. Commute(p, q) <=> ~ Partners(i, j)
  BY <1>3, <1>4, <1>6, <1>7, <1>8
<1> QED BY <1>9 DEF p, q, Partners
-----------------------------------------------------------------------------
(* What a measurement at random keeps.                                      *)
LEMMA PivotMoves ==
    ASSUME StabilizerAssumption, NEW P \in Operators, NEW g \in Operators, NEW q \in Operators,
           Multiply(P, g) = Multiply(g, P), Multiply(P, P) = One
    PROVE  /\ Multiply(P, Multiply(g, P)) = g
           /\ Multiply(P, Multiply(g, q)) = Multiply(Multiply(P, g), q)
           /\ Multiply(P, Multiply(g, q)) = Multiply(g, Multiply(P, q))
           /\ Multiply(Multiply(P, g), Multiply(P, q)) = Multiply(g, q)
<1>1. Multiply(P, g) \in Operators /\ Multiply(P, q) \in Operators /\ Multiply(g, P) \in Operators
  BY MultiplyIs
<1>2. Multiply(P, Multiply(g, P)) = g
  <2>1. Multiply(P, Multiply(P, g)) = Multiply(Multiply(P, P), g)
    BY MultiplyAssociates
  <2>2. Multiply(One, g) = g
    BY OneIsNeutral
  <2> QED BY <2>1, <2>2
<1>3. Multiply(P, Multiply(g, q)) = Multiply(Multiply(P, g), q)
  BY MultiplyAssociates
<1>4. Multiply(P, Multiply(g, q)) = Multiply(g, Multiply(P, q))
  <2>1. Multiply(Multiply(g, P), q) = Multiply(g, Multiply(P, q))
    BY MultiplyAssociates
  <2> QED BY <1>3, <2>1
<1>5. Multiply(Multiply(P, g), Multiply(P, q)) = Multiply(g, q)
  <2>1. Multiply(Multiply(g, P), Multiply(P, q)) = Multiply(g, Multiply(P, Multiply(P, q)))
    BY <1>1, MultiplyAssociates
  <2>2. Multiply(P, Multiply(P, q)) = Multiply(Multiply(P, P), q)
    BY MultiplyAssociates
  <2>3. Multiply(One, q) = q
    BY OneIsNeutral
  <2> QED BY <2>1, <2>2, <2>3
<1> QED BY <1>2, <1>3, <1>4, <1>5

\* The stabilizers after the random branch, but for the pivot.
LEMMA CollapsedStabilizers ==
    ASSUME StabilizerAssumption, WellFormed(tableau), NEW a \in Wires, Pivots(a) # {},
           NEW outcome, NEW i \in Stabilizers, i # Pivot(a)
    PROVE  Collapse(a, outcome)[i] = IF a \in tableau[i].x
                                     THEN RowSum(tableau[i], tableau[Pivot(a)])
                                     ELSE tableau[i]
<1> DEFINE p == Pivot(a)
<1>1. p - Qubits \notin Stabilizers /\ i \in TableauRows
  <2>1. p \in Stabilizers
    BY PivotIs
  <2> HIDE DEF p
  <2> QED BY <2>1, RowNumbers
<1>2. i \in Multiplied(a) <=> a \in tableau[i].x
  BY <1>1 DEF Multiplied
<1>3. i # p - Qubits
  BY <1>1
<1> QED BY <1>1, <1>2, <1>3 DEF Collapse

\* A product of stabilizers that commutes with Z is one of the new
\* stabilizers.
LEMMA ProductsProject ==
    ASSUME StabilizerAssumption, WellFormed(tableau), NEW a \in Wires, Pivots(a) # {},
           NEW outcome \in {0, 1}, WellFormed(Collapse(a, outcome)),
           NEW g \in Group(tableau), a \notin g.x
    PROVE  g \in Group(Collapse(a, outcome))
<1> DEFINE t == tableau
           s == Collapse(a, outcome)
           p == Pivot(a)
           P == Operator(t[p])
           f == Generators(t)
           G == Group(s)
<1>1. t \in Tableaus /\ s \in Tableaus /\ WellFormed(t) /\ WellFormed(s)
  BY DEF WellFormed
<1>2. p \in Stabilizers /\ a \in t[p].x /\ p \in TableauRows
  BY PivotIs
<1>3. \A i \in TableauRows : t[i] \in Rows
  BY <1>1 DEF Tableaus
<1>4. /\ P \in Operators /\ Alike(P, t[p]) /\ Multiply(P, P) = One
  BY <1>2, <1>3, OperatorIs, RowsSquareToOne
<1>5. ASSUME NEW j \in Wires, Qubits + j # p
      PROVE  s[Qubits + j] = IF a \in t[Qubits + j].x THEN RowSum(t[Qubits + j], t[p])
                             ELSE t[Qubits + j]
  <2> DEFINE i == Qubits + j
  <2>1. i \in Stabilizers /\ i # Pivot(a)
    BY <1>5, RowNumbers
  <2> HIDE DEF i
  <2>2. Collapse(a, outcome)[i] = IF a \in tableau[i].x
                                     THEN RowSum(tableau[i], tableau[Pivot(a)])
                                     ELSE tableau[i]
    BY <2>1, CollapsedStabilizers
  <2> QED BY <2>2 DEF i
<1>6. /\ Factors(f)
      /\ Group(t) = {Product(f, S) : S \in SUBSET Wires}
      /\ \A j \in Wires : f[j] = Operator(t[Qubits + j]) /\ Alike(f[j], t[Qubits + j])
  BY <1>1, GeneratorsAre
<1>7. Commuting(f)
  BY <1>1, GeneratorsCommute
<1>8. One \in G /\ \A j \in Wires : Operator(s[Qubits + j]) \in G
  <2> HIDE DEF s
  <2> QED BY <1>1, GroupHas
<1>9. \A u, v \in G : Multiply(u, v) \in G
  <2> HIDE DEF s
  <2> QED BY <1>1, GroupIsClosed
<1> HIDE DEF f, G, s, t
<1>10. PICK S \in SUBSET Wires : g = Product(f, S)
  BY <1>6 DEF t
<1>11. PICK b : Builds(b, f, S) /\ b \in [0..Qubits -> Operators] /\ Product(f, S) = b[Qubits]
  BY <1>6, ProductIsBuilt
\* the pivot commutes with the product
<1>12. \A j \in 0..Qubits : ~ Anti(P, b[j])
  <2>1. ASSUME NEW j \in Wires PROVE ~ Anti(P, f[j])
    <3>1. ~ Anti(t[p], t[Qubits + j])
      <4>1. Qubits + j \in Stabilizers
        BY RowNumbers
      <4>2. ~ Partners(p, Qubits + j) /\ Qubits + j \in TableauRows
        BY <1>2, <4>1, StabilizersAreNoPartners
      <4> QED BY <1>1, <1>2, <4>2 DEF WellFormed, Paired
    <3>2. Alike(P, t[p]) /\ Alike(f[j], t[Qubits + j])
      BY <1>4, <1>6
    <3> QED BY <3>1, <3>2, AlikeAnti
  <2>2. IsVector(P)
    BY <1>4 DEF IsVector, Operators
  <2> HIDE DEF P
  <2> QED BY <1>6, <1>11, <2>1, <2>2, ProductCommutes
<1> DEFINE Projected(u) == IF a \in u.x THEN Multiply(P, u) \in G ELSE u \in G
           T == {j \in 0..Qubits : Projected(b[j])}
<1>13. 0 \in T
  <2>1. b[0] = One /\ a \notin One.x
    BY <1>11 DEF Builds, One
  <2> QED BY <1>8, <2>1, WireNumbers
<1>14. ASSUME NEW j \in 1..Qubits, j - 1 \in T PROVE j \in T
  <2> DEFINE u == b[j - 1]
             q == f[j]
             w == Multiply(u, q)
  <2>1. j \in Wires /\ j - 1 \in 0..Qubits /\ j \in 0..Qubits
    BY WireNumbers
  <2>2. u \in Operators /\ q \in Operators
    BY <1>6, <1>11, <2>1 DEF Factors
  <2>3. Projected(u)
    BY <1>14
  <2>4. b[j] = IF j \in S THEN w ELSE u
    BY <1>11, <2>1 DEF Builds
  <2> SUFFICES Projected(w)
    BY <2>1, <2>3, <2>4
  <2>5. ~ Anti(P, u)
    BY <1>12, <2>1
  <2>6. q = Operator(t[Qubits + j]) /\ Alike(q, t[Qubits + j])
    BY <1>6, <2>1
  <2> DEFINE r == t[Qubits + j]
  <2>7. r \in Rows /\ Operator(s[Qubits + j]) \in G
    BY <1>3, <1>8, <2>1, RowNumbers
  <2>8. a \in q.x <=> a \in r.x
    BY <2>6 DEF Alike
  <2> HIDE DEF P, u, q
  <2>9. Multiply(P, u) = Multiply(u, P)
    BY <1>4, <2>2, <2>5, CommutingMultiply
  <2>10. /\ Multiply(P, Multiply(u, P)) = u
         /\ Multiply(P, Multiply(u, q)) = Multiply(Multiply(P, u), q)
         /\ Multiply(P, Multiply(u, q)) = Multiply(u, Multiply(P, q))
         /\ Multiply(Multiply(P, u), Multiply(P, q)) = Multiply(u, q)
    BY <1>4, <2>2, <2>9, PivotMoves
  <2>11. a \in w.x <=> ~ (a \in u.x <=> a \in q.x)
    <3>1. w.x = SymDiff(u.x, q.x)
      BY <2>2, MultiplyIs DEF IsSum
    <3> QED BY <3>1 DEF SymDiff
  <2>12. CASE Qubits + j = p
    <3>1. q = P /\ a \in q.x
      BY <1>2, <2>6, <2>8, <2>12 DEF P
    <3> QED BY <2>3, <2>9, <2>10, <2>11, <3>1
  <2>13. CASE Qubits + j # p /\ a \notin q.x
    <3>1. s[Qubits + j] = r
      BY <1>5, <2>1, <2>8, <2>13
    <3>2. q \in G
      BY <2>6, <2>7, <3>1
    <3> QED BY <1>9, <2>3, <2>10, <2>11, <2>13, <3>2
  <2>14. CASE Qubits + j # p /\ a \in q.x
    <3>1. s[Qubits + j] = RowSum(r, t[p])
      BY <1>5, <2>1, <2>8, <2>14
    <3>2. ~ Anti(r, t[p])
      <4>1. Qubits + j \in Stabilizers
        BY <2>1, RowNumbers
      <4>2. ~ Partners(Qubits + j, p) /\ Qubits + j \in TableauRows
        BY <1>2, <4>1, StabilizersAreNoPartners
      <4> QED BY <1>1, <1>2, <4>2 DEF WellFormed, Paired
    <3> HIDE DEF r
    <3>3. ~ Raises(r, t[p])
      BY <1>2, <1>3, <2>7, <3>2, RaisesWhereAnti
    <3>4. Operator(RowSum(r, t[p])) = Multiply(Operator(t[p]), Operator(r))
      BY <1>2, <1>3, <2>7, <3>3, RowSumMultiplies
    <3>5. Multiply(P, q) \in G
      BY <2>6, <2>7, <3>1, <3>4 DEF P, r
    <3> QED BY <1>9, <2>3, <2>10, <2>11, <2>14, <3>5
  <2> QED BY <2>12, <2>13, <2>14
<1> HIDE DEF T, Projected
<1>15. 0..Qubits \subseteq T
  BY <1>13, <1>14, BoundedInduction, WireNumbers
<1>16. Projected(g)
  BY <1>10, <1>11, <1>15, WireNumbers DEF T
<1> QED BY <1>16 DEF Projected, G, s

\* A row with Z on one wire alone is Z there, with the sign of the row.
LEMMA RowOfZ ==
    ASSUME StabilizerAssumption, NEW a \in Wires, NEW row \in Rows, row.x = {}, row.z = {a}
    PROVE  Operator(row) = Scaled(ZOn({a}), 2 * row.r)
<1> DEFINE p == Operator(row)
           y == ZOn({a})
           n == 2 * row.r
           q == Scaled(y, n)
<1>1. /\ p \in Operators /\ p.x = {} /\ p.z = {a} /\ p.k = (n + Shared(row.x, row.z)) % 4
  BY OperatorIs DEF Alike
<1>2. y \in Operators /\ y.k = 0 /\ y.x = {} /\ y.z = {a}
  BY ZIs
<1>3. Shared(row.x, row.z) = 0
  BY NoWires DEF Shared
<1>4. n \in Int
  BY DEF Rows
<1> HIDE DEF p, y, n
<1>5. q \in Operators /\ q.k = (y.k + n) % 4 /\ q.x = {} /\ q.z = {a}
  BY <1>2, <1>4, ScaledIs
<1> HIDE DEF q
<1>6. n + 0 = 0 + n
  BY <1>4
<1>8. p.k = q.k
  BY <1>1, <1>2, <1>3, <1>5, <1>6
<1>7. p = q
  BY <1>1, <1>5, <1>8, SameOperator
<1> QED BY <1>7 DEF p, q, y, n

\* MeasurementsProject holds of every well formed tableau.
LEMMA WellFormedProjects ==
    ASSUME StabilizerAssumption, WellFormed(tableau)
    PROVE  MeasurementsProject
<1> SUFFICES ASSUME NEW a \in Wires, NEW outcome \in {0, 1}, Random(a)
             PROVE  /\ Scaled(ZOn({a}), 2 * outcome) \in Group(Collapse(a, outcome))
                    /\ \A g \in Group(tableau) :
                          Commute(g, ZOn({a})) => g \in Group(Collapse(a, outcome))
                    /\ ZOn({a}) \in Group(ResetTo(outcome, a, Collapse(a, outcome)))
  BY DEF MeasurementsProject
<1> DEFINE s == Collapse(a, outcome)
           p == Pivot(a)
<1>1. Pivots(a) # {}
  BY DEF Random
<1>2. CollapsedFrom(s, tableau, a, p, outcome)
  BY <1>1, CollapseIs
<1>3. p \in Stabilizers /\ a \in tableau[p].x /\ p \in TableauRows
      /\ p - Qubits \in Wires /\ Qubits + (p - Qubits) = p
  BY <1>1, PivotIs
<1>4. WellFormed(s)
  <2> HIDE DEF s, p
  <2> QED BY <1>2, <1>3, CollapsedIsWellFormed
<1>5. ASSUME NEW g \in Group(tableau), Commute(g, ZOn({a})) PROVE g \in Group(s)
  <2>1. g \in Operators
    BY GroupIsClosed
  <2> DEFINE y == ZOn({a})
  <2>2. y.x = {} /\ y.z = {a} /\ g.x \in SUBSET Wires
    BY <2>1, ZIs DEF Operators
  <2>3. (Cardinality(g.x \cap y.z) + Cardinality(g.z \cap y.x)) % 2 = 0
    BY <1>5 DEF Commute
  <2> HIDE DEF y
  <2>4. Cardinality(g.x \cap {a}) = Bit(a \in g.x) /\ Cardinality(g.z \cap {}) = 0
    BY <2>2, OneCounts, NoWires
  <2>5. (Bit(a \in g.x) + 0) % 2 = 0
    BY <2>2, <2>3, <2>4
  <2>6. (1 + 0) % 2 = 1
    OBVIOUS
  <2>7. a \notin g.x
    BY <2>5, <2>6 DEF Bit
  <2> QED BY <1>1, <1>4, <2>7, ProductsProject
<1> HIDE DEF s, p
<1>6. s \in Tableaus /\ s[p] \in Rows /\ s[p].x = {} /\ s[p].z = {a} /\ s[p].r = outcome
  BY <1>2, <1>3 DEF CollapsedFrom, Tableaus
<1>7. Scaled(ZOn({a}), 2 * outcome) \in Group(s)
  <2>1. Operator(s[p]) = Scaled(ZOn({a}), 2 * outcome)
    BY <1>6, RowOfZ
  <2>2. Operator(s[Qubits + (p - Qubits)]) \in Group(s)
    BY <1>3, <1>6, GroupHas
  <2> QED BY <1>3, <2>1, <2>2
<1>8. ZOn({a}) \in Group(ResetTo(outcome, a, s))
  <2> DEFINE o == ResetTo(outcome, a, s)
  <2>1. WellFormed(o)
    BY <1>4, ResetKeepsForm
  <2>2. o[p] \in Rows /\ o[p].x = {} /\ o[p].z = {a} /\ o[p].r = 0
    <3>1. CASE outcome = 0
      BY <1>6, <3>1 DEF ResetTo
    <3>2. CASE outcome = 1
      <4>1. o[p] = Negate(s[p], a \in s[p].z)
        BY <1>3, <3>2 DEF ResetTo, XGate
      <4> DEFINE n == Negate(s[p], a \in s[p].z)
                 b == Bit(a \in s[p].z)
      <4>2. n \in Rows /\ n.x = s[p].x /\ n.z = s[p].z /\ n.r = (s[p].r + b) % 2
        BY <1>6, NegatedRow
      <4>3. b = 1
        BY <1>6 DEF Bit
      <4>4. (1 + 1) % 2 = 0
        OBVIOUS
      <4> HIDE DEF n, b, o
      <4> QED BY <1>6, <3>2, <4>1, <4>2, <4>3, <4>4 DEF n
    <3> QED BY <3>1, <3>2
  <2> HIDE DEF o
  <2>3. Operator(o[p]) = Scaled(ZOn({a}), 2 * 0)
    BY <2>2, RowOfZ
  <2>4. Scaled(ZOn({a}), 2 * 0) = ZOn({a})
    <3>1. 2 * 0 = 0
      OBVIOUS
    <3> QED BY <3>1, ZIs
  <2>5. Operator(o[Qubits + (p - Qubits)]) \in Group(o)
    BY <1>3, <2>1, GroupHas DEF WellFormed
  <2> QED BY <1>3, <2>3, <2>4, <2>5 DEF o
<1> QED BY <1>5, <1>7, <1>8 DEF s
-----------------------------------------------------------------------------
(* Products in closed form: F says what the product over each set is.       *)
Grows(F, f) ==
    /\ F \in [SUBSET Wires -> Operators] /\ F[{}] = One
    /\ \A j \in Wires : \A S \in SUBSET (1..(j - 1)) :
          /\ F[S \cup {j}].k = (F[S].k + f[j].k + 2 * Shared(F[S].z, f[j].x)) % 4
          /\ IsSum(F[S \cup {j}], F[S], f[j])

\* What grows by one factor at each wire is the product.
LEMMA ClosedForm ==
    ASSUME StabilizerAssumption, NEW f, Factors(f), NEW F, Grows(F, f), NEW S \in SUBSET Wires
    PROVE  Product(f, S) = F[S]
<1> DEFINE h == [j \in 0..Qubits |-> F[S \cap 1..j]]
<1>1. \A j \in 0..Qubits : h[j] = F[S \cap 1..j]
  OBVIOUS
<1> HIDE DEF h
<1>2. h[0] = One
  <2>1. S \cap 1..0 = {}
    OBVIOUS
  <2> QED BY <1>1, <2>1, WireNumbers DEF Grows
<1>3. ASSUME NEW j \in Wires
      PROVE  h[j] = IF j \in S THEN Multiply(h[j - 1], f[j]) ELSE h[j - 1]
  <2> DEFINE U == S \cap 1..(j - 1)
  <2>1. h[j] = F[S \cap 1..j] /\ h[j - 1] = F[U]
    BY <1>1, WireNumbers
  <2>2. j \in Nat /\ S \cap 1..j = (IF j \in S THEN U \cup {j} ELSE U)
    BY WireNumbers
  <2>3. U \in SUBSET (1..(j - 1)) /\ U \in SUBSET Wires /\ U \cup {j} \in SUBSET Wires
    OBVIOUS
  <2> HIDE DEF U
  <2>4. CASE j \notin S
    BY <2>1, <2>2, <2>4
  <2>5. CASE j \in S
    <3> DEFINE p == F[U]
               q == f[j]
               w == F[U \cup {j}]
               m == Multiply(p, q)
    <3>1. p \in Operators /\ q \in Operators /\ w \in Operators
      BY <2>3 DEF Grows, Factors
    <3>2. w.k = (p.k + q.k + 2 * Shared(p.z, q.x)) % 4 /\ IsSum(w, p, q)
      BY <2>3 DEF Grows
    <3> HIDE DEF p, q, w
    <3>3. m \in Operators /\ m.k = (p.k + q.k + 2 * Shared(p.z, q.x)) % 4 /\ IsSum(m, p, q)
      BY <3>1, MultiplyIs
    <3> HIDE DEF m
    <3>4. m.x = w.x /\ m.z = w.z /\ m.k = w.k
      BY <3>2, <3>3 DEF IsSum
    <3>5. m = w
      BY <3>1, <3>3, <3>4, SameOperator
    <3> QED BY <2>1, <2>2, <2>5, <3>5 DEF m, p, q, w
  <2> QED BY <2>4, <2>5
<1>4. Builds(h, f, S)
  BY <1>2, <1>3 DEF Builds
<1>5. Product(f, S) = h[Qubits]
  BY <1>4, BuildsTheProduct
<1>6. S \cap 1..Qubits = S
  BY WireNumbers
<1> QED BY <1>1, <1>5, <1>6, WireNumbers

\* Numbers that are the same but for a multiple of 4.
Same4(m, n) == (m - n) % 4 = 0

\* A row is what a gate makes of another one where bits and phase are.
LEMMA ConjugateIs ==
    ASSUME StabilizerAssumption, NEW gate, NEW a \in Wires, NEW b \in Wires,
           NEW row \in Rows, NEW turned \in Rows, NEW p \in Operators, NEW q \in Operators,
           Product([j \in Wires |-> XImage(gate, a, b, j)], row.x) = p,
           Product([j \in Wires |-> ZImage(gate, a, b, j)], row.z) = q,
           IsSum(turned, p, q),
           Same4(2 * turned.r + Shared(turned.x, turned.z),
                 p.k + q.k + 2 * Shared(p.z, q.x) + 2 * row.r + Shared(row.x, row.z))
    PROVE  Operator(turned) = Conjugate(gate, a, b, Operator(row))
<1> DEFINE o == Operator(row)
           L == Operator(turned)
           m == Multiply(p, q)
           n == o.k
           R == Scaled(m, n)
           i == 2 * row.r + Shared(row.x, row.z)
           k == 2 * turned.r + Shared(turned.x, turned.z)
           g == p.k + q.k + 2 * Shared(p.z, q.x)
<1>1. o \in Operators /\ o.x = row.x /\ o.z = row.z /\ o.k = i % 4
  BY OperatorIs DEF Alike
<1>2. L \in Operators /\ L.x = turned.x /\ L.z = turned.z /\ L.k = k % 4
  BY OperatorIs DEF Alike
<1>3. m \in Operators /\ m.k = g % 4 /\ IsSum(m, p, q)
  BY MultiplyIs
<1>4. Conjugate(gate, a, b, o) = R
  BY <1>1 DEF Conjugate
<1>5. i \in Int /\ k \in Int /\ g \in Int
  <2>1. Shared(row.x, row.z) \in Nat /\ Shared(turned.x, turned.z) \in Nat /\ Shared(p.z, q.x) \in Nat
    BY SharedIs DEF Rows, Operators
  <2>2. row.r \in {0, 1} /\ turned.r \in {0, 1} /\ p.k \in 0..3 /\ q.k \in 0..3
    BY DEF Rows, Operators
  <2> QED BY <2>1, <2>2
<1>6. Same4(k, g + i)
  <2>1. g + i = p.k + q.k + 2 * Shared(p.z, q.x) + 2 * row.r + Shared(row.x, row.z)
    <3>1. Shared(row.x, row.z) \in Nat /\ Shared(p.z, q.x) \in Nat
      BY SharedIs DEF Rows, Operators
    <3>2. row.r \in {0, 1} /\ p.k \in 0..3 /\ q.k \in 0..3
      BY DEF Rows, Operators
    <3> QED BY <3>1, <3>2
  <2> QED BY <2>1
<1>7. n \in Int
  BY <1>1 DEF Operators
<1> HIDE DEF L, m, n, i, k, g
<1>8. R \in Operators /\ R.k = (m.k + n) % 4 /\ R.x = m.x /\ R.z = m.z
  BY <1>3, <1>7, ScaledIs
<1> HIDE DEF R
<1>9. R.k = ((g % 4) + (i % 4)) % 4
  BY <1>1, <1>3, <1>8 DEF n
<1>10. L.k = R.k
  <2>1. (k - (g + i)) % 4 = 0
    BY <1>6 DEF Same4
  <2>2. k % 4 = ((g % 4) + (i % 4)) % 4
    BY <1>5, <2>1, SMTT(30)
  <2> QED BY <1>2, <1>9, <2>2
<1>11. L.x = R.x /\ L.z = R.z
  BY <1>2, <1>3, <1>8 DEF IsSum
<1>12. L = R
  BY <1>2, <1>8, <1>10, <1>11, SameOperator
<1> QED BY <1>4, <1>12 DEF L, R
-----------------------------------------------------------------------------
(* What is shared, counted apart on one wire or two.                        *)
CountedOffOne(A, B, a) ==
    /\ Cardinality((A \cap B) \ {a}) \in Nat
    /\ Shared(A, B) = Cardinality((A \cap B) \ {a}) + Bit(a \in A /\ a \in B)

CountedOffTwo(A, B, a, b) ==
    /\ Cardinality((A \cap B) \ {a, b}) \in Nat
    /\ Shared(A, B) = Cardinality((A \cap B) \ {a, b}) + Bit(a \in A /\ a \in B)
                         + Bit(b \in A /\ b \in B)

\* What two sets share is counted off one wire and there.
LEMMA SharedOffOne ==
    ASSUME StabilizerAssumption, NEW a \in Wires, NEW A \in SUBSET Wires, NEW B \in SUBSET Wires
    PROVE  CountedOffOne(A, B, a)
<1> DEFINE S == A \cap B
<1>1. S \in SUBSET Wires /\ S \ {a} \in SUBSET Wires /\ (a \in S <=> (a \in A /\ a \in B))
  OBVIOUS
<1>2. Shared(A, B) = Cardinality(S)
  BY DEF Shared
<1> HIDE DEF S
<1>3. Cardinality(S) = Cardinality(S \ {a}) + Bit(a \in S) /\ Cardinality(S \ {a}) \in Nat
  BY <1>1, OneCounts, WiresAreCounted
<1>4. Bit(a \in S) = Bit(a \in A /\ a \in B)
  BY <1>1 DEF Bit
<1> QED BY <1>2, <1>3, <1>4 DEF S, CountedOffOne

\* What two sets share is counted off two wires and on each.
LEMMA SharedOffTwo ==
    ASSUME StabilizerAssumption, NEW a \in Wires, NEW b \in Wires, a # b,
           NEW A \in SUBSET Wires, NEW B \in SUBSET Wires
    PROVE  CountedOffTwo(A, B, a, b)
<1> DEFINE S == (A \cap B) \ {a}
<1>1. S \in SUBSET Wires /\ S \ {b} = (A \cap B) \ {a, b} /\ (b \in S <=> (b \in A /\ b \in B))
      /\ S \ {b} \in SUBSET Wires
  OBVIOUS
<1>2. Cardinality(S) \in Nat /\ Shared(A, B) = Cardinality(S) + Bit(a \in A /\ a \in B)
  <2>1. CountedOffOne(A, B, a)
    BY SharedOffOne
  <2> QED BY <2>1 DEF CountedOffOne
<1> HIDE DEF S
<1>3. Cardinality(S) = Cardinality(S \ {b}) + Bit(b \in S) /\ Cardinality(S \ {b}) \in Nat
  BY <1>1, OneCounts, WiresAreCounted
<1>4. Bit(b \in S) = Bit(b \in A /\ b \in B)
  BY <1>1 DEF Bit
<1>5. Bit(a \in A /\ a \in B) \in Nat /\ Bit(b \in A /\ b \in B) \in Nat
  BY DEF Bit
<1> DEFINE n == Cardinality(S \ {b})
           c == Bit(a \in A /\ a \in B)
           d == Bit(b \in A /\ b \in B)
<1>6. Shared(A, B) = (n + d) + c /\ n \in Nat /\ c \in Nat /\ d \in Nat
  BY <1>2, <1>3, <1>4, <1>5
<1>7. n = Cardinality((A \cap B) \ {a, b})
  BY <1>1
<1> HIDE DEF n, c, d
<1>8. Shared(A, B) = n + c + d
  BY <1>6
<1> QED BY <1>6, <1>7, <1>8 DEF c, d, CountedOffTwo
-----------------------------------------------------------------------------
(* What the images of a gate multiply to.                                   *)
Pauli(k, x, z) == [k |-> k, x |-> x, z |-> z]

\* A phase with two sets of wires is an operator.
LEMMA PauliIs ==
    ASSUME NEW k \in 0..3, NEW x \in SUBSET Wires, NEW z \in SUBSET Wires
    PROVE  /\ Pauli(k, x, z) \in Operators
           /\ Pauli(k, x, z).k = k /\ Pauli(k, x, z).x = x /\ Pauli(k, x, z).z = z
  BY DEF Pauli, Operators

\* A wire is not among those before it.
LEMMA WiresBelow ==
    ASSUME StabilizerAssumption, NEW j \in Wires, NEW U \in SUBSET (1..(j - 1))
    PROVE  j \notin U /\ U \in SUBSET Wires /\ U \cup {j} \in SUBSET Wires
<1>1. j \in Nat /\ j \in 1..Qubits /\ Qubits \in Nat
  BY StabilizerAssumption DEF Wires
<1>2. \A i \in 1..(j - 1) : i # j /\ i \in 1..Qubits
  BY <1>1
<1>3. \A i \in U : i # j /\ i \in Wires
  BY <1>2 DEF Wires
<1> QED BY <1>3

\* One leaves a phase as it is.
LEMMA SmallPhases ==
    ASSUME NEW k \in 0..3
    PROVE  (k + 0 + 2 * 0) % 4 = k /\ (0 + k + 2 * 0) % 4 = k
  OBVIOUS

\* Only wire a has an image of its own among the X.
TurnsX(f, a, o) ==
    /\ f \in [Wires -> Operators] /\ f[a] = o
    /\ o \in Operators /\ o.x \subseteq {a} /\ o.z \subseteq {a}
    /\ \A j \in Wires \ {a} : f[j] = Pauli(0, {j}, {})

XAfter(S, a, o) ==
    IF a \in S THEN Pauli(o.k, (S \ {a}) \cup o.x, o.z) ELSE Pauli(0, S, {})

\* The product of the images of X, where one wire has an image of its own.
LEMMA OneWireX ==
    ASSUME StabilizerAssumption, NEW a \in Wires, NEW f, NEW o, TurnsX(f, a, o),
           NEW S \in SUBSET Wires
    PROVE  Product(f, S) = XAfter(S, a, o)
<1> DEFINE F == [U \in SUBSET Wires |-> XAfter(U, a, o)]
<1>1. /\ Factors(f) /\ f[a] = o /\ o \in Operators
      /\ o.k \in 0..3 /\ o.x \subseteq {a} /\ o.z \subseteq {a}
  BY DEF TurnsX, Factors, Operators
<1>2. ASSUME NEW U \in SUBSET Wires
      PROVE  /\ F[U] \in Operators
             /\ a \in U => F[U].k = o.k /\ F[U].x = (U \ {a}) \cup o.x /\ F[U].z = o.z
             /\ a \notin U => F[U].k = 0 /\ F[U].x = U /\ F[U].z = {}
  <2>1. (U \ {a}) \cup o.x \in SUBSET Wires /\ o.z \in SUBSET Wires
    BY <1>1
  <2>2. CASE a \in U
    <3>1. F[U] = Pauli(o.k, (U \ {a}) \cup o.x, o.z)
      BY <2>2 DEF XAfter
    <3> HIDE DEF F
    <3> QED BY <1>1, <2>1, <2>2, <3>1, PauliIs
  <2>3. CASE a \notin U
    <3>1. F[U] = Pauli(0, U, {})
      BY <2>3 DEF XAfter
    <3>2. 0 \in 0..3 /\ {} \in SUBSET Wires
      OBVIOUS
    <3> HIDE DEF F
    <3> QED BY <2>3, <3>1, <3>2, PauliIs
  <2> QED BY <2>2, <2>3
<1>3. F[{}] = One
  BY DEF XAfter, Pauli, One
<1>4. F \in [SUBSET Wires -> Operators]
  BY <1>2
<1>5. F[S] = XAfter(S, a, o)
  OBVIOUS
<1> HIDE DEF F
<1>6. ASSUME NEW j \in Wires, NEW U \in SUBSET (1..(j - 1))
      PROVE  /\ F[U \cup {j}].k = (F[U].k + f[j].k + 2 * Shared(F[U].z, f[j].x)) % 4
             /\ IsSum(F[U \cup {j}], F[U], f[j])
  <2>1. j \notin U /\ U \in SUBSET Wires /\ U \cup {j} \in SUBSET Wires
    BY WiresBelow
  <2> DEFINE V == U \cup {j}
             y == F[U]
             w == F[V]
  <2>2. /\ a \in U => y.k = o.k /\ y.x = (U \ {a}) \cup o.x /\ y.z = o.z
        /\ a \notin U => y.k = 0 /\ y.x = U /\ y.z = {}
    BY <1>2, <2>1
  <2>3. /\ a \in V => w.k = o.k /\ w.x = (V \ {a}) \cup o.x /\ w.z = o.z
        /\ a \notin V => w.k = 0 /\ w.x = V /\ w.z = {}
    BY <1>2, <2>1
  <2> HIDE DEF y, w
  <2>4. CASE j = a
    <3>1. a \notin U /\ a \in V
      BY <2>1, <2>4
    <3>2. w.k = o.k /\ y.k = 0 /\ f[j].k = o.k /\ y.z = {}
      BY <1>1, <2>2, <2>3, <2>4, <3>1
    <3>3. Shared({}, f[j].x) = 0
      BY NoWires DEF Shared
    <3>4. (0 + o.k + 2 * 0) % 4 = o.k
      BY <1>1, SmallPhases
    <3>5. w.k = (y.k + f[j].k + 2 * Shared(y.z, f[j].x)) % 4
      BY <3>2, <3>3, <3>4
    <3>6. IsSum(w, y, f[j])
      BY <1>1, <2>1, <2>2, <2>3, <2>4, <3>1 DEF IsSum, SymDiff
    <3> QED BY <3>5, <3>6 DEF w, y
  <2>5. CASE j # a
    <3>1. f[j] = Pauli(0, {j}, {})
      BY <2>5 DEF TurnsX
    <3>2. f[j].k = 0 /\ f[j].x = {j} /\ f[j].z = {}
      BY <3>1, PauliIs
    <3>3. y.z \cap f[j].x = {}
      BY <1>1, <2>2, <2>5, <3>2
    <3>4. Shared(y.z, f[j].x) = 0
      BY <3>3, NoWires DEF Shared
    <3>5. w.k = y.k /\ y.k \in 0..3
      BY <1>1, <2>2, <2>3, <2>5
    <3>6. (y.k + 0 + 2 * 0) % 4 = y.k
      BY <3>5, SmallPhases
    <3>7. w.k = (y.k + f[j].k + 2 * Shared(y.z, f[j].x)) % 4
      BY <3>2, <3>4, <3>5, <3>6
    <3>8. IsSum(w, y, f[j])
      <4>1. f[j].x = {j} /\ f[j].z = {} /\ o.x \subseteq {a} /\ o.z \subseteq {a}
        BY <1>1, <3>2
      <4>2. CASE a \in U
        <5>1. /\ w.x = (V \ {a}) \cup o.x /\ w.z = o.z
              /\ y.x = (U \ {a}) \cup o.x /\ y.z = o.z
          BY <2>2, <2>3, <4>2
        <5>2. w.x = SymDiff(y.x, f[j].x)
          BY <2>1, <2>5, <4>1, <5>1 DEF SymDiff
        <5>3. w.z = SymDiff(y.z, f[j].z)
          BY <4>1, <5>1 DEF SymDiff
        <5> QED BY <5>2, <5>3 DEF IsSum
      <4>3. CASE a \notin U
        <5>1. w.x = V /\ w.z = {} /\ y.x = U /\ y.z = {}
          BY <2>2, <2>3, <2>5, <4>3
        <5>2. w.x = SymDiff(y.x, f[j].x)
          BY <2>1, <4>1, <5>1 DEF SymDiff
        <5>3. w.z = SymDiff(y.z, f[j].z)
          BY <4>1, <5>1 DEF SymDiff
        <5> QED BY <5>2, <5>3 DEF IsSum
      <4> QED BY <4>2, <4>3
    <3> QED BY <3>7, <3>8 DEF w, y
  <2> QED BY <2>4, <2>5
<1>7. Grows(F, f)
  BY <1>3, <1>4, <1>6 DEF Grows
<1> QED BY <1>1, <1>5, <1>7, ClosedForm

\* And among the Z.
TurnsZ(f, a, o) ==
    /\ f \in [Wires -> Operators] /\ f[a] = o
    /\ o \in Operators /\ o.x \subseteq {a} /\ o.z \subseteq {a}
    /\ \A j \in Wires \ {a} : f[j] = Pauli(0, {}, {j})

ZAfter(S, a, o) ==
    IF a \in S THEN Pauli(o.k, o.x, (S \ {a}) \cup o.z) ELSE Pauli(0, {}, S)

\* The product of the images of Z, where one wire has an image of its own.
LEMMA OneWireZ ==
    ASSUME StabilizerAssumption, NEW a \in Wires, NEW f, NEW o, TurnsZ(f, a, o),
           NEW S \in SUBSET Wires
    PROVE  Product(f, S) = ZAfter(S, a, o)
<1> DEFINE F == [U \in SUBSET Wires |-> ZAfter(U, a, o)]
<1>1. /\ Factors(f) /\ f[a] = o /\ o \in Operators
      /\ o.k \in 0..3 /\ o.x \subseteq {a} /\ o.z \subseteq {a}
  BY DEF TurnsZ, Factors, Operators
<1>2. ASSUME NEW U \in SUBSET Wires
      PROVE  /\ F[U] \in Operators
             /\ a \in U => F[U].k = o.k /\ F[U].z = (U \ {a}) \cup o.z /\ F[U].x = o.x
             /\ a \notin U => F[U].k = 0 /\ F[U].z = U /\ F[U].x = {}
  <2>1. (U \ {a}) \cup o.z \in SUBSET Wires /\ o.x \in SUBSET Wires
    BY <1>1
  <2>2. CASE a \in U
    <3>1. F[U] = Pauli(o.k, o.x, (U \ {a}) \cup o.z)
      BY <2>2 DEF ZAfter
    <3> HIDE DEF F
    <3> QED BY <1>1, <2>1, <2>2, <3>1, PauliIs
  <2>3. CASE a \notin U
    <3>1. F[U] = Pauli(0, {}, U)
      BY <2>3 DEF ZAfter
    <3>2. 0 \in 0..3 /\ {} \in SUBSET Wires
      OBVIOUS
    <3> HIDE DEF F
    <3> QED BY <2>3, <3>1, <3>2, PauliIs
  <2> QED BY <2>2, <2>3
<1>3. F[{}] = One
  BY DEF ZAfter, Pauli, One
<1>4. F \in [SUBSET Wires -> Operators]
  BY <1>2
<1>5. F[S] = ZAfter(S, a, o)
  OBVIOUS
<1> HIDE DEF F
<1>6. ASSUME NEW j \in Wires, NEW U \in SUBSET (1..(j - 1))
      PROVE  /\ F[U \cup {j}].k = (F[U].k + f[j].k + 2 * Shared(F[U].z, f[j].x)) % 4
             /\ IsSum(F[U \cup {j}], F[U], f[j])
  <2>1. j \notin U /\ U \in SUBSET Wires /\ U \cup {j} \in SUBSET Wires
    BY WiresBelow
  <2> DEFINE V == U \cup {j}
             y == F[U]
             w == F[V]
  <2>2. /\ a \in U => y.k = o.k /\ y.z = (U \ {a}) \cup o.z /\ y.x = o.x
        /\ a \notin U => y.k = 0 /\ y.z = U /\ y.x = {}
    BY <1>2, <2>1
  <2>3. /\ a \in V => w.k = o.k /\ w.z = (V \ {a}) \cup o.z /\ w.x = o.x
        /\ a \notin V => w.k = 0 /\ w.z = V /\ w.x = {}
    BY <1>2, <2>1
  <2> HIDE DEF y, w
  <2>4. CASE j = a
    <3>1. a \notin U /\ a \in V
      BY <2>1, <2>4
    <3>2. w.k = o.k /\ y.k = 0 /\ f[j].k = o.k /\ y.z = U
      BY <1>1, <2>2, <2>3, <2>4, <3>1
    <3>3. Shared(y.z, f[j].x) = 0
      <4>1. y.z \cap f[j].x = {}
        BY <1>1, <2>4, <3>1, <3>2
      <4> QED BY <4>1, NoWires DEF Shared
    <3>4. (0 + o.k + 2 * 0) % 4 = o.k
      BY <1>1, SmallPhases
    <3>5. w.k = (y.k + f[j].k + 2 * Shared(y.z, f[j].x)) % 4
      BY <3>2, <3>3, <3>4
    <3>6. IsSum(w, y, f[j])
      BY <1>1, <2>1, <2>2, <2>3, <2>4, <3>1 DEF IsSum, SymDiff
    <3> QED BY <3>5, <3>6 DEF w, y
  <2>5. CASE j # a
    <3>1. f[j] = Pauli(0, {}, {j})
      BY <2>5 DEF TurnsZ
    <3>2. f[j].k = 0 /\ f[j].x = {} /\ f[j].z = {j}
      BY <3>1, PauliIs
    <3>3. y.z \cap f[j].x = {}
      BY <3>2
    <3>4. Shared(y.z, f[j].x) = 0
      BY <3>3, NoWires DEF Shared
    <3>5. w.k = y.k /\ y.k \in 0..3
      BY <1>1, <2>2, <2>3, <2>5
    <3>6. (y.k + 0 + 2 * 0) % 4 = y.k
      BY <3>5, SmallPhases
    <3>7. w.k = (y.k + f[j].k + 2 * Shared(y.z, f[j].x)) % 4
      BY <3>2, <3>4, <3>5, <3>6
    <3>8. IsSum(w, y, f[j])
      <4>1. f[j].z = {j} /\ f[j].x = {} /\ o.x \subseteq {a} /\ o.z \subseteq {a}
        BY <1>1, <3>2
      <4>2. CASE a \in U
        <5>1. /\ w.z = (V \ {a}) \cup o.z /\ w.x = o.x
              /\ y.z = (U \ {a}) \cup o.z /\ y.x = o.x
          BY <2>2, <2>3, <4>2
        <5>2. w.z = SymDiff(y.z, f[j].z)
          BY <2>1, <2>5, <4>1, <5>1 DEF SymDiff
        <5>3. w.x = SymDiff(y.x, f[j].x)
          BY <4>1, <5>1 DEF SymDiff
        <5> QED BY <5>2, <5>3 DEF IsSum
      <4>3. CASE a \notin U
        <5>1. w.z = V /\ w.x = {} /\ y.z = U /\ y.x = {}
          BY <2>2, <2>3, <2>5, <4>3
        <5>2. w.z = SymDiff(y.z, f[j].z)
          BY <2>1, <4>1, <5>1 DEF SymDiff
        <5>3. w.x = SymDiff(y.x, f[j].x)
          BY <4>1, <5>1 DEF SymDiff
        <5> QED BY <5>2, <5>3 DEF IsSum
      <4> QED BY <4>2, <4>3
    <3> QED BY <3>7, <3>8 DEF w, y
  <2> QED BY <2>4, <2>5
<1>7. Grows(F, f)
  BY <1>3, <1>4, <1>6 DEF Grows
<1> QED BY <1>1, <1>5, <1>7, ClosedForm
-----------------------------------------------------------------------------
\* Images that are X alone, or Z alone: sets of wires that are added up.
AddsUp(L, g) ==
    /\ L \in [SUBSET Wires -> SUBSET Wires] /\ L[{}] = {}
    /\ g \in [Wires -> SUBSET Wires]
    /\ \A j \in Wires : \A S \in SUBSET (1..(j - 1)) : L[S \cup {j}] = SymDiff(L[S], g[j])

AllX(f, g) == \A j \in Wires : f[j] = Pauli(0, g[j], {})
AllZ(f, g) == \A j \in Wires : f[j] = Pauli(0, {}, g[j])

\* Images that are X alone multiply to X on the wires that add up.
LEMMA ProductOfX ==
    ASSUME StabilizerAssumption, NEW f, NEW g, NEW L, f \in [Wires -> Operators],
           AddsUp(L, g), AllX(f, g), NEW S \in SUBSET Wires
    PROVE  Product(f, S) = Pauli(0, L[S], {})
<1> DEFINE F == [U \in SUBSET Wires |-> Pauli(0, L[U], {})]
<1>1. ASSUME NEW U \in SUBSET Wires
      PROVE  F[U] \in Operators /\ F[U].k = 0 /\ F[U].x = L[U] /\ F[U].z = {}
  <2>1. 0 \in 0..3 /\ L[U] \in SUBSET Wires /\ {} \in SUBSET Wires
    BY DEF AddsUp
  <2>2. F[U] = Pauli(0, L[U], {})
    OBVIOUS
  <2> HIDE DEF F
  <2> QED BY <2>1, <2>2, PauliIs
<1>2. F[{}] = One
  BY DEF AddsUp, Pauli, One
<1>3. F \in [SUBSET Wires -> Operators]
  BY <1>1
<1>4. F[S] = Pauli(0, L[S], {})
  OBVIOUS
<1> HIDE DEF F
<1>5. ASSUME NEW j \in Wires, NEW U \in SUBSET (1..(j - 1))
      PROVE  /\ F[U \cup {j}].k = (F[U].k + f[j].k + 2 * Shared(F[U].z, f[j].x)) % 4
             /\ IsSum(F[U \cup {j}], F[U], f[j])
  <2>1. U \in SUBSET Wires /\ U \cup {j} \in SUBSET Wires
    BY WiresBelow
  <2>2. g[j] \in SUBSET Wires /\ L[U \cup {j}] = SymDiff(L[U], g[j])
    BY DEF AddsUp
  <2> DEFINE y == F[U]
             w == F[U \cup {j}]
             v == f[j]
  <2>3. y.k = 0 /\ y.x = L[U] /\ y.z = {} /\ w.k = 0 /\ w.x = L[U \cup {j}] /\ w.z = {}
    BY <1>1, <2>1
  <2>4. v.k = 0 /\ v.x = g[j] /\ v.z = {}
    <3>1. v = Pauli(0, g[j], {}) /\ 0 \in 0..3 /\ {} \in SUBSET Wires
      BY DEF AllX
    <3> HIDE DEF v
    <3> QED BY <2>2, <3>1, PauliIs
  <2> HIDE DEF y, w, v
  <2>5. Shared(y.z, v.x) = 0
    BY <2>3, NoWires DEF Shared
  <2>6. w.k = (y.k + v.k + 2 * Shared(y.z, v.x)) % 4
    BY <2>3, <2>4, <2>5
  <2>7. IsSum(w, y, v)
    <3>1. SymDiff({}, {}) = {}
      BY DEF SymDiff
    <3> QED BY <2>2, <2>3, <2>4, <3>1 DEF IsSum
  <2> QED BY <2>6, <2>7 DEF y, w, v
<1>6. Grows(F, f)
  BY <1>2, <1>3, <1>5 DEF Grows
<1>7. Factors(f)
  BY DEF Factors
<1> QED BY <1>4, <1>6, <1>7, ClosedForm

\* Images that are Z alone multiply to Z on the wires that add up.
LEMMA ProductOfZ ==
    ASSUME StabilizerAssumption, NEW f, NEW g, NEW L, f \in [Wires -> Operators],
           AddsUp(L, g), AllZ(f, g), NEW S \in SUBSET Wires
    PROVE  Product(f, S) = Pauli(0, {}, L[S])
<1> DEFINE F == [U \in SUBSET Wires |-> Pauli(0, {}, L[U])]
<1>1. ASSUME NEW U \in SUBSET Wires
      PROVE  F[U] \in Operators /\ F[U].k = 0 /\ F[U].x = {} /\ F[U].z = L[U]
  <2>1. 0 \in 0..3 /\ L[U] \in SUBSET Wires /\ {} \in SUBSET Wires
    BY DEF AddsUp
  <2>2. F[U] = Pauli(0, {}, L[U])
    OBVIOUS
  <2> HIDE DEF F
  <2> QED BY <2>1, <2>2, PauliIs
<1>2. F[{}] = One
  BY DEF AddsUp, Pauli, One
<1>3. F \in [SUBSET Wires -> Operators]
  BY <1>1
<1>4. F[S] = Pauli(0, {}, L[S])
  OBVIOUS
<1> HIDE DEF F
<1>5. ASSUME NEW j \in Wires, NEW U \in SUBSET (1..(j - 1))
      PROVE  /\ F[U \cup {j}].k = (F[U].k + f[j].k + 2 * Shared(F[U].z, f[j].x)) % 4
             /\ IsSum(F[U \cup {j}], F[U], f[j])
  <2>1. U \in SUBSET Wires /\ U \cup {j} \in SUBSET Wires
    BY WiresBelow
  <2>2. g[j] \in SUBSET Wires /\ L[U \cup {j}] = SymDiff(L[U], g[j])
    BY DEF AddsUp
  <2> DEFINE y == F[U]
             w == F[U \cup {j}]
             v == f[j]
  <2>3. y.k = 0 /\ y.x = {} /\ y.z = L[U] /\ w.k = 0 /\ w.x = {} /\ w.z = L[U \cup {j}]
    BY <1>1, <2>1
  <2>4. v.k = 0 /\ v.x = {} /\ v.z = g[j]
    <3>1. v = Pauli(0, {}, g[j]) /\ 0 \in 0..3 /\ {} \in SUBSET Wires
      BY DEF AllZ
    <3> HIDE DEF v
    <3> QED BY <2>2, <3>1, PauliIs
  <2> HIDE DEF y, w, v
  <2>5. Shared(y.z, v.x) = 0
    <3>1. y.z \cap v.x = {}
      BY <2>4
    <3> QED BY <3>1, NoWires DEF Shared
  <2>6. w.k = (y.k + v.k + 2 * Shared(y.z, v.x)) % 4
    BY <2>3, <2>4, <2>5
  <2>7. IsSum(w, y, v)
    <3>1. SymDiff({}, {}) = {}
      BY DEF SymDiff
    <3> QED BY <2>2, <2>3, <2>4, <3>1 DEF IsSum
  <2> QED BY <2>6, <2>7 DEF y, w, v
<1>6. Grows(F, f)
  BY <1>2, <1>3, <1>5 DEF Grows
<1>7. Factors(f)
  BY DEF Factors
<1> QED BY <1>4, <1>6, <1>7, ClosedForm
-----------------------------------------------------------------------------
\* What a gate on two wires makes of sets of wires.
Copied(S, a, b) == IF a \in S THEN SymDiff(S, {b}) ELSE S

Exchanged(S, a, b) ==
    {i \in Wires : IF i = a THEN b \in S ELSE IF i = b THEN a \in S ELSE i \in S}

Across(S, a, b) == {i \in Wires : (i = a /\ b \in S) \/ (i = b /\ a \in S)}

\* Copying one wire to another is linear.
LEMMA CopiesAddUp ==
    ASSUME StabilizerAssumption, NEW a \in Wires, NEW b \in Wires, a # b
    PROVE  AddsUp([S \in SUBSET Wires |-> Copied(S, a, b)],
                  [j \in Wires |-> IF j = a THEN {a, b} ELSE {j}])
<1> DEFINE L == [S \in SUBSET Wires |-> Copied(S, a, b)]
           g == [j \in Wires |-> IF j = a THEN {a, b} ELSE {j}]
<1>1. L \in [SUBSET Wires -> SUBSET Wires] /\ L[{}] = {} /\ g \in [Wires -> SUBSET Wires]
  BY DEF Copied, SymDiff
<1>2. ASSUME NEW j \in Wires, NEW S \in SUBSET (1..(j - 1))
      PROVE  L[S \cup {j}] = SymDiff(L[S], g[j])
  <2>1. j \notin S /\ S \in SUBSET Wires /\ S \cup {j} \in SUBSET Wires
    BY WiresBelow
  <2>2. L[S \cup {j}] = Copied(S \cup {j}, a, b) /\ L[S] = Copied(S, a, b)
        /\ g[j] = IF j = a THEN {a, b} ELSE {j}
    BY <2>1
  <2> HIDE DEF L, g
  <2>3. CASE j = a
    BY <2>1, <2>2, <2>3 DEF Copied, SymDiff
  <2>4. CASE j # a /\ a \in S
    <3>1. L[S \cup {j}] = SymDiff(S \cup {j}, {b}) /\ L[S] = SymDiff(S, {b}) /\ g[j] = {j}
      BY <2>2, <2>4 DEF Copied
    <3>2. SymDiff(S \cup {j}, {b}) = SymDiff(SymDiff(S, {b}), {j})
      BY <2>1 DEF SymDiff
    <3> QED BY <3>1, <3>2
  <2>5. CASE j # a /\ a \notin S
    BY <2>1, <2>2, <2>5 DEF Copied, SymDiff
  <2> QED BY <2>3, <2>4, <2>5
<1> HIDE DEF L, g
<1>3. AddsUp(L, g)
  BY <1>1, <1>2 DEF AddsUp
<1> QED BY <1>3 DEF L, g

\* Exchanging two wires is linear.
LEMMA ExchangesAddUp ==
    ASSUME StabilizerAssumption, NEW a \in Wires, NEW b \in Wires, a # b
    PROVE  AddsUp([S \in SUBSET Wires |-> Exchanged(S, a, b)],
                  [j \in Wires |-> IF j = a THEN {b} ELSE IF j = b THEN {a} ELSE {j}])
<1> DEFINE L == [S \in SUBSET Wires |-> Exchanged(S, a, b)]
           g == [j \in Wires |-> IF j = a THEN {b} ELSE IF j = b THEN {a} ELSE {j}]
<1>1. L \in [SUBSET Wires -> SUBSET Wires] /\ L[{}] = {} /\ g \in [Wires -> SUBSET Wires]
  BY DEF Exchanged
<1>2. ASSUME NEW j \in Wires, NEW S \in SUBSET (1..(j - 1))
      PROVE  L[S \cup {j}] = SymDiff(L[S], g[j])
  <2>1. j \notin S /\ S \in SUBSET Wires /\ S \cup {j} \in SUBSET Wires
    BY WiresBelow
  <2>2. L[S \cup {j}] = Exchanged(S \cup {j}, a, b) /\ L[S] = Exchanged(S, a, b)
        /\ g[j] = IF j = a THEN {b} ELSE IF j = b THEN {a} ELSE {j}
    BY <2>1
  <2> HIDE DEF L, g
  <2>3. CASE j = a
    BY <2>1, <2>2, <2>3 DEF Exchanged, SymDiff
  <2>4. CASE j = b
    BY <2>1, <2>2, <2>4 DEF Exchanged, SymDiff
  <2>5. CASE j # a /\ j # b
    BY <2>1, <2>2, <2>5 DEF Exchanged, SymDiff
  <2> QED BY <2>3, <2>4, <2>5
<1> HIDE DEF L, g
<1>3. AddsUp(L, g)
  BY <1>1, <1>2 DEF AddsUp
<1> QED BY <1>3 DEF L, g

\* A set of wires is the sum of its wires.
LEMMA SetsAddUp ==
    ASSUME StabilizerAssumption
    PROVE  AddsUp([S \in SUBSET Wires |-> S], [j \in Wires |-> {j}])
<1> DEFINE L == [S \in SUBSET Wires |-> S]
           g == [j \in Wires |-> {j}]
<1>1. L \in [SUBSET Wires -> SUBSET Wires] /\ L[{}] = {} /\ g \in [Wires -> SUBSET Wires]
  OBVIOUS
<1>2. ASSUME NEW j \in Wires, NEW S \in SUBSET (1..(j - 1))
      PROVE  L[S \cup {j}] = SymDiff(L[S], g[j])
  <2>1. j \notin S /\ S \in SUBSET Wires /\ S \cup {j} \in SUBSET Wires
    BY WiresBelow
  <2>2. L[S \cup {j}] = S \cup {j} /\ L[S] = S /\ g[j] = {j}
    BY <2>1
  <2> QED BY <2>1, <2>2 DEF SymDiff
<1> HIDE DEF L, g
<1>3. AddsUp(L, g)
  BY <1>1, <1>2 DEF AddsUp
<1> QED BY <1>3 DEF L, g

\* Controlled Z puts Z across, and a sign where both wires have X.
CrossesX(f, a, b) ==
    /\ f \in [Wires -> Operators]
    /\ f[a] = Pauli(0, {a}, {b}) /\ f[b] = Pauli(0, {b}, {a})
    /\ \A j \in Wires \ {a, b} : f[j] = Pauli(0, {j}, {})

BothWires(S, a, b) == IF a \in S /\ b \in S THEN 2 ELSE 0

\* The product of the images of X under CZ.
LEMMA CrossedX ==
    ASSUME StabilizerAssumption, NEW a \in Wires, NEW b \in Wires, a # b, NEW f,
           CrossesX(f, a, b), NEW S \in SUBSET Wires
    PROVE  Product(f, S) = Pauli(BothWires(S, a, b), S, Across(S, a, b))
<1> DEFINE F == [U \in SUBSET Wires |-> Pauli(BothWires(U, a, b), U, Across(U, a, b))]
<1>1. ASSUME NEW U \in SUBSET Wires
      PROVE  /\ F[U] \in Operators /\ F[U].k = BothWires(U, a, b)
             /\ F[U].x = U /\ F[U].z = Across(U, a, b)
  <2>1. BothWires(U, a, b) \in 0..3 /\ Across(U, a, b) \in SUBSET Wires
    BY DEF BothWires, Across
  <2>2. F[U] = Pauli(BothWires(U, a, b), U, Across(U, a, b))
    OBVIOUS
  <2> HIDE DEF F
  <2> QED BY <2>1, <2>2, PauliIs
<1>2. F[{}] = One
  <2>1. BothWires({}, a, b) = 0 /\ Across({}, a, b) = {}
    BY DEF BothWires, Across
  <2> QED BY <2>1 DEF Pauli, One
<1>3. F \in [SUBSET Wires -> Operators]
  BY <1>1
<1>4. F[S] = Pauli(BothWires(S, a, b), S, Across(S, a, b))
  OBVIOUS
<1> HIDE DEF F
<1>5. ASSUME NEW j \in Wires, NEW U \in SUBSET (1..(j - 1))
      PROVE  /\ F[U \cup {j}].k = (F[U].k + f[j].k + 2 * Shared(F[U].z, f[j].x)) % 4
             /\ IsSum(F[U \cup {j}], F[U], f[j])
  <2>1. j \notin U /\ U \in SUBSET Wires /\ U \cup {j} \in SUBSET Wires
    BY WiresBelow
  <2> DEFINE y == F[U]
             V == U \cup {j}
             w == F[V]
             v == f[j]
             c == IF j = a THEN {b} ELSE IF j = b THEN {a} ELSE {}
  <2>2. /\ y.k = BothWires(U, a, b) /\ y.x = U /\ y.z = Across(U, a, b)
        /\ w.k = BothWires(V, a, b) /\ w.x = V /\ w.z = Across(V, a, b)
    BY <1>1, <2>1
  <2>3. v.k = 0 /\ v.x = {j} /\ v.z = c
    <3>1. v = Pauli(0, {j}, c) /\ 0 \in 0..3 /\ {j} \in SUBSET Wires /\ c \in SUBSET Wires
      BY DEF CrossesX
    <3> HIDE DEF v, c
    <3> QED BY <3>1, PauliIs
  <2> HIDE DEF y, w, v
  <2>4. w.x = SymDiff(y.x, v.x)
    BY <2>1, <2>2, <2>3 DEF SymDiff
  <2>5. w.z = SymDiff(y.z, v.z)
    <3>1. CASE j = a
      BY <2>1, <2>2, <2>3, <3>1 DEF Across, SymDiff
    <3>2. CASE j = b
      BY <2>1, <2>2, <2>3, <3>2 DEF Across, SymDiff
    <3>3. CASE j # a /\ j # b
      BY <2>1, <2>2, <2>3, <3>3 DEF Across, SymDiff
    <3> QED BY <3>1, <3>2, <3>3
  <2>6. Shared(y.z, v.x) = Bit(j \in y.z)
    <3>1. Across(U, a, b) \in SUBSET Wires
      BY DEF Across
    <3>2. y.z \in SUBSET Wires /\ v.x = {j}
      BY <2>2, <2>3, <3>1
    <3>3. Cardinality(y.z \cap {j}) = Bit(j \in y.z)
      <4> DEFINE A == y.z
      <4>1. A \in SUBSET Wires
        BY <3>2
      <4> HIDE DEF A
      <4>2. Cardinality(A \cap {j}) = Bit(j \in A)
        BY <4>1, OneCounts
      <4> QED BY <4>2 DEF A
    <3> QED BY <3>2, <3>3 DEF Shared
  <2>7. w.k = (y.k + v.k + 2 * Shared(y.z, v.x)) % 4
    <3>1. CASE (j = a /\ b \in U) \/ (j = b /\ a \in U)
      <4>1. j \in y.z
        BY <2>2, <3>1 DEF Across
      <4>2. y.k = 0 /\ w.k = 2
        BY <2>1, <2>2, <3>1 DEF BothWires
      <4>3. Shared(y.z, v.x) = 1
        BY <2>6, <4>1 DEF Bit
      <4> QED BY <2>3, <4>2, <4>3
    <3>2. CASE ~ ((j = a /\ b \in U) \/ (j = b /\ a \in U))
      <4>1. j \notin y.z
        BY <2>2, <3>2 DEF Across
      <4>2. y.k = w.k /\ y.k \in 0..3
        BY <2>1, <2>2, <3>2 DEF BothWires
      <4>3. Shared(y.z, v.x) = 0
        BY <2>6, <4>1 DEF Bit
      <4>4. (y.k + 0 + 2 * 0) % 4 = y.k
        BY <4>2, SmallPhases
      <4> QED BY <2>3, <4>2, <4>3, <4>4
    <3> QED BY <3>1, <3>2
  <2> QED BY <2>4, <2>5, <2>7 DEF y, w, v, IsSum
<1>6. Grows(F, f)
  BY <1>2, <1>3, <1>5 DEF Grows
<1>7. Factors(f)
  BY DEF CrossesX, Factors
<1> QED BY <1>4, <1>6, <1>7, ClosedForm
-----------------------------------------------------------------------------
\* The gates on one wire: what they make of X and Z there.
OnlyOn(o, a) == o \in Operators /\ o.x \subseteq {a} /\ o.z \subseteq {a}

\* A gate on one wire leaves X and Z on the others.
LEMMA ImagesElsewhere ==
    ASSUME NEW gate \in Gates1, NEW a \in Wires, NEW j \in Wires, j # a
    PROVE  XImage(gate, a, a, j) = Pauli(0, {j}, {}) /\ ZImage(gate, a, a, j) = Pauli(0, {}, {j})
  BY DEF XImage, ZImage, XOn, ZOn, Pauli, Gates1

\* The negatives of X, Z and Y on a wire.
LEMMA DoubledX ==
    ASSUME NEW a \in Wires
    PROVE  /\ Scaled(XOn({a}), 2) = Pauli(2, {a}, {})
           /\ Scaled(ZOn({a}), 2) = Pauli(2, {}, {a})
           /\ Scaled(YOn(a), 2) = Pauli(3, {a}, {a})
  BY DEF Scaled, XOn, ZOn, YOn, Pauli

\* What each gate on one wire makes of X and Z there.
LEMMA ImagesThere ==
    ASSUME NEW a \in Wires
    PROVE  /\ XImage("H", a, a, a) = Pauli(0, {}, {a})
           /\ ZImage("H", a, a, a) = Pauli(0, {a}, {})
           /\ XImage("S", a, a, a) = Pauli(1, {a}, {a})
           /\ ZImage("S", a, a, a) = Pauli(0, {}, {a})
           /\ XImage("SDG", a, a, a) = Pauli(3, {a}, {a})
           /\ ZImage("SDG", a, a, a) = Pauli(0, {}, {a})
           /\ XImage("X", a, a, a) = Pauli(0, {a}, {})
           /\ ZImage("X", a, a, a) = Pauli(2, {}, {a})
           /\ XImage("Y", a, a, a) = Pauli(2, {a}, {})
           /\ ZImage("Y", a, a, a) = Pauli(2, {}, {a})
           /\ XImage("Z", a, a, a) = Pauli(2, {a}, {})
           /\ ZImage("Z", a, a, a) = Pauli(0, {}, {a})
<1>1. /\ XImage("H", a, a, a) = ZOn({a}) /\ ZImage("H", a, a, a) = XOn({a})
      /\ XImage("S", a, a, a) = YOn(a) /\ ZImage("S", a, a, a) = ZOn({a})
      /\ XImage("SDG", a, a, a) = Scaled(YOn(a), 2) /\ ZImage("SDG", a, a, a) = ZOn({a})
  BY DEF XImage, ZImage
<1>2. /\ XImage("X", a, a, a) = XOn({a}) /\ ZImage("X", a, a, a) = Scaled(ZOn({a}), 2)
      /\ XImage("Y", a, a, a) = Scaled(XOn({a}), 2) /\ ZImage("Y", a, a, a) = Scaled(ZOn({a}), 2)
      /\ XImage("Z", a, a, a) = Scaled(XOn({a}), 2) /\ ZImage("Z", a, a, a) = ZOn({a})
  BY DEF XImage, ZImage
<1>3. ZOn({a}) = Pauli(0, {}, {a}) /\ XOn({a}) = Pauli(0, {a}, {}) /\ YOn(a) = Pauli(1, {a}, {a})
  BY DEF XOn, ZOn, YOn, Pauli
<1> QED BY <1>1, <1>2, <1>3, DoubledX

\* The products of the images under a gate on one wire.
LEMMA OneWireProducts ==
    ASSUME StabilizerAssumption, NEW gate \in Gates1, NEW a \in Wires, NEW o, NEW u,
           XImage(gate, a, a, a) = o, ZImage(gate, a, a, a) = u, OnlyOn(o, a), OnlyOn(u, a),
           NEW S \in SUBSET Wires
    PROVE  /\ Product([j \in Wires |-> XImage(gate, a, a, j)], S) = XAfter(S, a, o)
           /\ Product([j \in Wires |-> ZImage(gate, a, a, j)], S) = ZAfter(S, a, u)
<1> DEFINE f == [j \in Wires |-> XImage(gate, a, a, j)]
           g == [j \in Wires |-> ZImage(gate, a, a, j)]
<1>1. ASSUME NEW j \in Wires \ {a}
      PROVE  /\ f[j] = Pauli(0, {j}, {}) /\ f[j] \in Operators
             /\ g[j] = Pauli(0, {}, {j}) /\ g[j] \in Operators
  <2>1. f[j] = Pauli(0, {j}, {}) /\ g[j] = Pauli(0, {}, {j})
    BY ImagesElsewhere
  <2>2. 0 \in 0..3 /\ {j} \in SUBSET Wires /\ {} \in SUBSET Wires
    OBVIOUS
  <2> HIDE DEF f, g
  <2> QED BY <2>1, <2>2, PauliIs
<1>2. f[a] = o /\ g[a] = u /\ o \in Operators /\ u \in Operators
  BY DEF OnlyOn
<1>3. f \in [Wires -> Operators] /\ g \in [Wires -> Operators]
  <2>1. \A j \in Wires : f[j] \in Operators /\ g[j] \in Operators
    BY <1>1, <1>2
  <2> QED BY <2>1
<1> HIDE DEF f, g
<1>4. TurnsX(f, a, o) /\ TurnsZ(g, a, u)
  BY <1>1, <1>2, <1>3 DEF TurnsX, TurnsZ, OnlyOn
<1>5. Product(f, S) = XAfter(S, a, o) /\ Product(g, S) = ZAfter(S, a, u)
  BY <1>4, OneWireX, OneWireZ
<1> QED BY <1>5 DEF f, g

\* What the bits and the sign of a row must be after the gate.
TurnedThere(turned, row, a, o, u) ==
    /\ turned.x \ {a} = row.x \ {a} /\ turned.z \ {a} = row.z \ {a}
    /\ a \in turned.x <=> Xor(a \in row.x /\ a \in o.x, a \in row.z /\ a \in u.x)
    /\ a \in turned.z <=> Xor(a \in row.x /\ a \in o.z, a \in row.z /\ a \in u.z)

SignedThere(turned, row, a, o, u) ==
    Same4(2 * turned.r + Bit(a \in turned.x /\ a \in turned.z),
          (IF a \in row.x THEN o.k ELSE 0) + (IF a \in row.z THEN u.k ELSE 0)
             + 2 * Bit(a \in row.x /\ a \in row.z /\ a \in o.z /\ a \in u.x)
             + 2 * row.r + Bit(a \in row.x /\ a \in row.z))

\* A gate on one wire conjugates the rows if its bits and sign there do.
LEMMA OneWireConjugates ==
    ASSUME StabilizerAssumption, NEW gate \in Gates1, NEW a \in Wires, NEW o, NEW u,
           XImage(gate, a, a, a) = o, ZImage(gate, a, a, a) = u, OnlyOn(o, a), OnlyOn(u, a),
           NEW row \in Rows, NEW turned \in Rows,
           TurnedThere(turned, row, a, o, u), SignedThere(turned, row, a, o, u)
    PROVE  Operator(turned) = Conjugate(gate, a, a, Operator(row))
<1> DEFINE p == XAfter(row.x, a, o)
           q == ZAfter(row.z, a, u)
<1>1. /\ row.x \in SUBSET Wires /\ row.z \in SUBSET Wires /\ row.r \in {0, 1}
      /\ turned.x \in SUBSET Wires /\ turned.z \in SUBSET Wires /\ turned.r \in {0, 1}
      /\ o.k \in 0..3 /\ u.k \in 0..3 /\ o.x \subseteq {a} /\ o.z \subseteq {a}
      /\ u.x \subseteq {a} /\ u.z \subseteq {a}
  BY DEF Rows, OnlyOn, Operators
<1>2. /\ p \in Operators /\ p.k = IF a \in row.x THEN o.k ELSE 0
      /\ p.x = (row.x \ {a}) \cup (IF a \in row.x THEN o.x ELSE {})
      /\ p.z = IF a \in row.x THEN o.z ELSE {}
  <2> DEFINE x == (row.x \ {a}) \cup (IF a \in row.x THEN o.x ELSE {})
             z == IF a \in row.x THEN o.z ELSE {}
             k == IF a \in row.x THEN o.k ELSE 0
  <2>1. k \in 0..3 /\ x \in SUBSET Wires /\ z \in SUBSET Wires
    BY <1>1
  <2>2. p = Pauli(k, x, z)
    <3>1. CASE a \in row.x
      BY <3>1 DEF XAfter
    <3>2. CASE a \notin row.x
      <4>1. x = row.x /\ z = {} /\ k = 0
        BY <3>2
      <4> QED BY <3>2, <4>1 DEF XAfter
    <3> QED BY <3>1, <3>2
  <2> HIDE DEF p, x, z, k
  <2>3. p \in Operators /\ p.k = k /\ p.x = x /\ p.z = z
    BY <2>1, <2>2, PauliIs
  <2> QED BY <2>3 DEF x, z, k
<1>3. /\ q \in Operators /\ q.k = IF a \in row.z THEN u.k ELSE 0
      /\ q.z = (row.z \ {a}) \cup (IF a \in row.z THEN u.z ELSE {})
      /\ q.x = IF a \in row.z THEN u.x ELSE {}
  <2> DEFINE z == (row.z \ {a}) \cup (IF a \in row.z THEN u.z ELSE {})
             x == IF a \in row.z THEN u.x ELSE {}
             k == IF a \in row.z THEN u.k ELSE 0
  <2>1. k \in 0..3 /\ x \in SUBSET Wires /\ z \in SUBSET Wires
    BY <1>1
  <2>2. q = Pauli(k, x, z)
    <3>1. CASE a \in row.z
      BY <3>1 DEF ZAfter
    <3>2. CASE a \notin row.z
      <4>1. z = row.z /\ x = {} /\ k = 0
        BY <3>2
      <4> QED BY <3>2, <4>1 DEF ZAfter
    <3> QED BY <3>1, <3>2
  <2> HIDE DEF q, x, z, k
  <2>3. q \in Operators /\ q.k = k /\ q.x = x /\ q.z = z
    BY <2>1, <2>2, PauliIs
  <2> QED BY <2>3 DEF x, z, k
<1>4. /\ Product([j \in Wires |-> XImage(gate, a, a, j)], row.x) = p
      /\ Product([j \in Wires |-> ZImage(gate, a, a, j)], row.z) = q
  BY <1>1, OneWireProducts
<1> HIDE DEF p, q
<1>5. IsSum(turned, p, q)
  <2> DEFINE A == IF a \in row.x THEN o.x ELSE {}
             B == IF a \in row.z THEN u.x ELSE {}
             C == IF a \in row.x THEN o.z ELSE {}
             D == IF a \in row.z THEN u.z ELSE {}
  <2>1. /\ A \subseteq {a} /\ B \subseteq {a} /\ C \subseteq {a} /\ D \subseteq {a}
        /\ a \in A <=> (a \in row.x /\ a \in o.x)
        /\ a \in B <=> (a \in row.z /\ a \in u.x)
        /\ a \in C <=> (a \in row.x /\ a \in o.z)
        /\ a \in D <=> (a \in row.z /\ a \in u.z)
    BY <1>1
  <2>2. p.x = (row.x \ {a}) \cup A /\ q.x = B /\ p.z = C /\ q.z = (row.z \ {a}) \cup D
    BY <1>2, <1>3
  <2> HIDE DEF A, B, C, D
  <2>3. /\ turned.x \ {a} = row.x \ {a} /\ turned.z \ {a} = row.z \ {a}
        /\ a \in turned.x <=> ~ (a \in A <=> a \in B)
        /\ a \in turned.z <=> ~ (a \in C <=> a \in D)
    BY <2>1 DEF TurnedThere, Xor
  <2>4. turned.x = SymDiff((row.x \ {a}) \cup A, B)
    BY <2>1, <2>3 DEF SymDiff
  <2>5. turned.z = SymDiff(C, (row.z \ {a}) \cup D)
    BY <2>1, <2>3 DEF SymDiff
  <2> QED BY <2>2, <2>4, <2>5 DEF IsSum
<1>6. Shared(p.z, q.x) = Bit(a \in row.x /\ a \in row.z /\ a \in o.z /\ a \in u.x)
  <2>1. p.z \in SUBSET Wires /\ q.x = q.x \cap {a} /\ p.z \cap q.x \in SUBSET Wires
    BY <1>1, <1>2, <1>3
  <2> DEFINE S == p.z \cap q.x
  <2>2. S \in SUBSET Wires /\ S \cap {a} = S
    BY <2>1
  <2>3. a \in S <=> (a \in row.x /\ a \in row.z /\ a \in o.z /\ a \in u.x)
    BY <1>2, <1>3
  <2>4. Shared(p.z, q.x) = Cardinality(S)
    BY DEF Shared
  <2> HIDE DEF S
  <2>5. Cardinality(S \cap {a}) = Bit(a \in S)
    BY <2>2, OneCounts
  <2> QED BY <2>2, <2>3, <2>4, <2>5 DEF Bit
<1>7. Same4(2 * turned.r + Shared(turned.x, turned.z),
            p.k + q.k + 2 * Shared(p.z, q.x) + 2 * row.r + Shared(row.x, row.z))
  <2>1. CountedOffOne(row.x, row.z, a) /\ CountedOffOne(turned.x, turned.z, a)
    BY <1>1, SharedOffOne
  <2>2. (turned.x \cap turned.z) \ {a} = (row.x \cap row.z) \ {a}
    BY DEF TurnedThere
  <2> DEFINE n == Cardinality((row.x \cap row.z) \ {a})
             c == Bit(a \in row.x /\ a \in row.z)
             d == Bit(a \in turned.x /\ a \in turned.z)
             e == Bit(a \in row.x /\ a \in row.z /\ a \in o.z /\ a \in u.x)
             l == IF a \in row.x THEN o.k ELSE 0
             m == IF a \in row.z THEN u.k ELSE 0
             r == row.r
             s == turned.r
  <2>3. n \in Nat /\ Shared(row.x, row.z) = n + c /\ Shared(turned.x, turned.z) = n + d
    BY <2>1, <2>2 DEF CountedOffOne
  <2>4. c \in Int /\ d \in Int /\ e \in Int /\ l \in Int /\ m \in Int /\ r \in Int /\ s \in Int
    BY <1>1 DEF Bit
  <2>5. ((2 * s + d) - (l + m + 2 * e + 2 * r + c)) % 4 = 0
    BY DEF SignedThere, Same4
  <2>6. p.k = l /\ q.k = m /\ Shared(p.z, q.x) = e
    BY <1>2, <1>3, <1>6
  <2> HIDE DEF n, c, d, e, l, m, r, s
  <2>7. (2 * s + (n + d)) - (l + m + 2 * e + 2 * r + (n + c))
          = (2 * s + d) - (l + m + 2 * e + 2 * r + c)
    BY <2>3, <2>4
  <2>8. Same4(2 * s + (n + d), l + m + 2 * e + 2 * r + (n + c))
    BY <2>5, <2>7 DEF Same4
  <2> QED BY <2>3, <2>6, <2>8 DEF r, s
<1> QED BY <1>2, <1>3, <1>4, <1>5, <1>7, ConjugateIs
-----------------------------------------------------------------------------
AtMost(S, a) == S \in {{}, {a}}

\* An operator whose bits are on one wire.
LEMMA PauliOnlyOn ==
    ASSUME NEW a \in Wires, NEW k \in 0..3, NEW x, NEW z, AtMost(x, a), AtMost(z, a)
    PROVE  /\ OnlyOn(Pauli(k, x, z), a) /\ Pauli(k, x, z).k = k
           /\ Pauli(k, x, z).x = x /\ Pauli(k, x, z).z = z
<1>1. x \in SUBSET Wires /\ z \in SUBSET Wires /\ x \subseteq {a} /\ z \subseteq {a}
  BY DEF AtMost
<1> QED BY <1>1, PauliIs DEF OnlyOn

\* _h conjugates by H: X to Z, Z to X, Y to its negative.
LEMMA HadamardConjugates ==
    ASSUME StabilizerAssumption, NEW a \in Wires, NEW row \in Rows
    PROVE  Operator(OnOne("H", row, a)) = Conjugate("H", a, a, Operator(row))
<1> DEFINE turned == OnOne("H", row, a)
           o == Pauli(0, {}, {a})
           u == Pauli(0, {a}, {})
           xa == a \in row.x
           za == a \in row.z
           r == row.r
<1>1. turned = Hadamard(row, a)
  BY OneWireGatesAre
<1>2. /\ turned \in Rows
      /\ turned.x = (row.x \ {a}) \cup (row.z \cap {a})
      /\ turned.z = (row.z \ {a}) \cup (row.x \cap {a})
      /\ turned.r = (row.r + Bit(a \in row.x \cap row.z)) % 2
  BY <1>1, HadamardRow
<1> HIDE DEF turned
<1>3. OnlyOn(o, a) /\ o.k = 0 /\ o.x = {} /\ o.z = {a}
  <2> DEFINE k == 0
             x == {}
             z == {a}
  <2>1. k \in 0..3 /\ AtMost(x, a) /\ AtMost(z, a)
    BY DEF AtMost
  <2>2. o = Pauli(k, x, z)
    OBVIOUS
  <2> HIDE DEF k, x, z, o
  <2>3. OnlyOn(o, a) /\ o.k = k /\ o.x = x /\ o.z = z
    BY <2>1, <2>2, PauliOnlyOn
  <2> QED BY <2>3 DEF k, x, z
<1>4. OnlyOn(u, a) /\ u.k = 0 /\ u.x = {a} /\ u.z = {}
  <2> DEFINE k == 0
             x == {a}
             z == {}
  <2>1. k \in 0..3 /\ AtMost(x, a) /\ AtMost(z, a)
    BY DEF AtMost
  <2>2. u = Pauli(k, x, z)
    OBVIOUS
  <2> HIDE DEF k, x, z, u
  <2>3. OnlyOn(u, a) /\ u.k = k /\ u.x = x /\ u.z = z
    BY <2>1, <2>2, PauliOnlyOn
  <2> QED BY <2>3 DEF k, x, z
<1>5. XImage("H", a, a, a) = o /\ ZImage("H", a, a, a) = u /\ "H" \in Gates1
  BY ImagesThere DEF Gates1
<1> HIDE DEF o, u
<1>6. /\ a \in turned.x <=> za
      /\ a \in turned.z <=> xa
      /\ turned.r = (r + Bit(xa /\ za)) % 2
  <2>1. /\ a \in turned.x <=> za
        /\ a \in turned.z <=> xa
    BY <1>2 DEF SymDiff, Xor
  <2>2. turned.r = (r + Bit(xa /\ za)) % 2
    BY <1>2 DEF SymDiff, Xor, Bit
  <2> QED BY <2>1, <2>2
<1>7. TurnedThere(turned, row, a, o, u)
  <2>1. turned.x \ {a} = row.x \ {a} /\ turned.z \ {a} = row.z \ {a}
    BY <1>2 DEF SymDiff
  <2> QED BY <1>3, <1>4, <1>6, <2>1 DEF TurnedThere, Xor
<1>8. SignedThere(turned, row, a, o, u)
  <2> DEFINE d == Bit(a \in turned.x /\ a \in turned.z)
             e == Bit(xa /\ za /\ a \in o.z /\ a \in u.x)
             c == Bit(xa /\ za)
  <2>1. d = Bit(za /\ xa) /\ e = Bit(xa /\ za)
    BY <1>3, <1>4, <1>6 DEF Bit
  <2>2. r \in {0, 1} /\ xa \in BOOLEAN /\ za \in BOOLEAN
    BY DEF Rows
  <2> DEFINE s == turned.r
  <2> HIDE DEF xa, za, r, d, e, s
  <2>3. s = (r + Bit(xa /\ za)) % 2
    BY <1>6 DEF s
  <2>4. Same4(2 * s + d, (IF xa THEN 0 ELSE 0) + (IF za THEN 0 ELSE 0) + 2 * e + 2 * r + c)
    BY <2>1, <2>2, <2>3 DEF Same4, Bit, Xor
  <2> QED BY <1>3, <1>4, <2>4 DEF SignedThere, s, d, e, xa, za, r
<1> QED BY <1>2, <1>3, <1>4, <1>5, <1>7, <1>8, OneWireConjugates DEF turned

\* _s conjugates by S: X to Y, Y to the negative of X.
LEMMA PhaseConjugates ==
    ASSUME StabilizerAssumption, NEW a \in Wires, NEW row \in Rows
    PROVE  Operator(OnOne("S", row, a)) = Conjugate("S", a, a, Operator(row))
<1> DEFINE turned == OnOne("S", row, a)
           o == Pauli(1, {a}, {a})
           u == Pauli(0, {}, {a})
           xa == a \in row.x
           za == a \in row.z
           r == row.r
<1>1. turned = Phase(row, a)
  BY OneWireGatesAre
<1>2. /\ turned \in Rows
      /\ turned.x = row.x /\ turned.z = SymDiff(row.z, row.x \cap {a})
      /\ turned.r = (row.r + Bit(a \in row.x \cap row.z)) % 2
  BY <1>1, PhaseRow
<1> HIDE DEF turned
<1>3. OnlyOn(o, a) /\ o.k = 1 /\ o.x = {a} /\ o.z = {a}
  <2> DEFINE k == 1
             x == {a}
             z == {a}
  <2>1. k \in 0..3 /\ AtMost(x, a) /\ AtMost(z, a)
    BY DEF AtMost
  <2>2. o = Pauli(k, x, z)
    OBVIOUS
  <2> HIDE DEF k, x, z, o
  <2>3. OnlyOn(o, a) /\ o.k = k /\ o.x = x /\ o.z = z
    BY <2>1, <2>2, PauliOnlyOn
  <2> QED BY <2>3 DEF k, x, z
<1>4. OnlyOn(u, a) /\ u.k = 0 /\ u.x = {} /\ u.z = {a}
  <2> DEFINE k == 0
             x == {}
             z == {a}
  <2>1. k \in 0..3 /\ AtMost(x, a) /\ AtMost(z, a)
    BY DEF AtMost
  <2>2. u = Pauli(k, x, z)
    OBVIOUS
  <2> HIDE DEF k, x, z, u
  <2>3. OnlyOn(u, a) /\ u.k = k /\ u.x = x /\ u.z = z
    BY <2>1, <2>2, PauliOnlyOn
  <2> QED BY <2>3 DEF k, x, z
<1>5. XImage("S", a, a, a) = o /\ ZImage("S", a, a, a) = u /\ "S" \in Gates1
  BY ImagesThere DEF Gates1
<1> HIDE DEF o, u
<1>6. /\ a \in turned.x <=> xa
      /\ a \in turned.z <=> Xor(xa, za)
      /\ turned.r = (r + Bit(xa /\ za)) % 2
  <2>1. /\ a \in turned.x <=> xa
        /\ a \in turned.z <=> Xor(xa, za)
    BY <1>2 DEF SymDiff, Xor
  <2>2. turned.r = (r + Bit(xa /\ za)) % 2
    BY <1>2 DEF SymDiff, Xor, Bit
  <2> QED BY <2>1, <2>2
<1>7. TurnedThere(turned, row, a, o, u)
  <2>1. turned.x \ {a} = row.x \ {a} /\ turned.z \ {a} = row.z \ {a}
    BY <1>2 DEF SymDiff
  <2> QED BY <1>3, <1>4, <1>6, <2>1 DEF TurnedThere, Xor
<1>8. SignedThere(turned, row, a, o, u)
  <2> DEFINE d == Bit(a \in turned.x /\ a \in turned.z)
             e == Bit(xa /\ za /\ a \in o.z /\ a \in u.x)
             c == Bit(xa /\ za)
  <2>1. d = Bit(xa /\ Xor(xa, za)) /\ e = 0
    BY <1>3, <1>4, <1>6 DEF Bit
  <2>2. r \in {0, 1} /\ xa \in BOOLEAN /\ za \in BOOLEAN
    BY DEF Rows
  <2> DEFINE s == turned.r
  <2> HIDE DEF xa, za, r, d, e, s
  <2>3. s = (r + Bit(xa /\ za)) % 2
    BY <1>6 DEF s
  <2>4. Same4(2 * s + d, (IF xa THEN 1 ELSE 0) + (IF za THEN 0 ELSE 0) + 2 * e + 2 * r + c)
    BY <2>1, <2>2, <2>3 DEF Same4, Bit, Xor
  <2> QED BY <1>3, <1>4, <2>4 DEF SignedThere, s, d, e, xa, za, r
<1> QED BY <1>2, <1>3, <1>4, <1>5, <1>7, <1>8, OneWireConjugates DEF turned

\* Three times _s conjugates by the inverse of S.
LEMMA PhaseInverseConjugates ==
    ASSUME StabilizerAssumption, NEW a \in Wires, NEW row \in Rows
    PROVE  Operator(OnOne("SDG", row, a)) = Conjugate("SDG", a, a, Operator(row))
<1> DEFINE turned == OnOne("SDG", row, a)
           o == Pauli(3, {a}, {a})
           u == Pauli(0, {}, {a})
           xa == a \in row.x
           za == a \in row.z
           r == row.r
<1> DEFINE half == Phase(row, a)
<1>1. /\ half \in Rows
      /\ half.x = row.x /\ half.z = SymDiff(row.z, row.x \cap {a})
      /\ half.r = (row.r + Bit(a \in row.x \cap row.z)) % 2
  BY PhaseRow
<1>2. /\ turned \in Rows
      /\ turned.x = row.x /\ turned.z = SymDiff(row.z, row.x \cap {a})
      /\ turned.r = (((row.r + Bit(a \in row.x \cap row.z)) % 2) + Bit(a \in row.x)) % 2
  <2>1. turned = Negate(half, a \in half.x)
    BY OneWireGatesAre DEF PhaseInverse, ZGate
  <2> HIDE DEF half, turned
  <2> QED BY <1>1, <2>1, NegatedRow
<1> HIDE DEF turned
<1>3. OnlyOn(o, a) /\ o.k = 3 /\ o.x = {a} /\ o.z = {a}
  <2> DEFINE k == 3
             x == {a}
             z == {a}
  <2>1. k \in 0..3 /\ AtMost(x, a) /\ AtMost(z, a)
    BY DEF AtMost
  <2>2. o = Pauli(k, x, z)
    OBVIOUS
  <2> HIDE DEF k, x, z, o
  <2>3. OnlyOn(o, a) /\ o.k = k /\ o.x = x /\ o.z = z
    BY <2>1, <2>2, PauliOnlyOn
  <2> QED BY <2>3 DEF k, x, z
<1>4. OnlyOn(u, a) /\ u.k = 0 /\ u.x = {} /\ u.z = {a}
  <2> DEFINE k == 0
             x == {}
             z == {a}
  <2>1. k \in 0..3 /\ AtMost(x, a) /\ AtMost(z, a)
    BY DEF AtMost
  <2>2. u = Pauli(k, x, z)
    OBVIOUS
  <2> HIDE DEF k, x, z, u
  <2>3. OnlyOn(u, a) /\ u.k = k /\ u.x = x /\ u.z = z
    BY <2>1, <2>2, PauliOnlyOn
  <2> QED BY <2>3 DEF k, x, z
<1>5. XImage("SDG", a, a, a) = o /\ ZImage("SDG", a, a, a) = u /\ "SDG" \in Gates1
  BY ImagesThere DEF Gates1
<1> HIDE DEF o, u
<1>6. /\ a \in turned.x <=> xa
      /\ a \in turned.z <=> Xor(xa, za)
      /\ turned.r = (((r + Bit(xa /\ za)) % 2) + Bit(xa)) % 2
  <2>1. /\ a \in turned.x <=> xa
        /\ a \in turned.z <=> Xor(xa, za)
    BY <1>2 DEF SymDiff, Xor
  <2>2. turned.r = (((r + Bit(xa /\ za)) % 2) + Bit(xa)) % 2
    BY <1>2 DEF SymDiff, Xor, Bit
  <2> QED BY <2>1, <2>2
<1>7. TurnedThere(turned, row, a, o, u)
  <2>1. turned.x \ {a} = row.x \ {a} /\ turned.z \ {a} = row.z \ {a}
    BY <1>2 DEF SymDiff
  <2> QED BY <1>3, <1>4, <1>6, <2>1 DEF TurnedThere, Xor
<1>8. SignedThere(turned, row, a, o, u)
  <2> DEFINE d == Bit(a \in turned.x /\ a \in turned.z)
             e == Bit(xa /\ za /\ a \in o.z /\ a \in u.x)
             c == Bit(xa /\ za)
  <2>1. d = Bit(xa /\ Xor(xa, za)) /\ e = 0
    BY <1>3, <1>4, <1>6 DEF Bit
  <2>2. r \in {0, 1} /\ xa \in BOOLEAN /\ za \in BOOLEAN
    BY DEF Rows
  <2> DEFINE s == turned.r
  <2> HIDE DEF xa, za, r, d, e, s
  <2>3. s = (((r + Bit(xa /\ za)) % 2) + Bit(xa)) % 2
    BY <1>6 DEF s
  <2>4. Same4(2 * s + d, (IF xa THEN 3 ELSE 0) + (IF za THEN 0 ELSE 0) + 2 * e + 2 * r + c)
    BY <2>1, <2>2, <2>3 DEF Same4, Bit, Xor
  <2> QED BY <1>3, <1>4, <2>4 DEF SignedThere, s, d, e, xa, za, r
<1> QED BY <1>2, <1>3, <1>4, <1>5, <1>7, <1>8, OneWireConjugates DEF turned

\* The sign that X puts where a row has Z is that of conjugation.
LEMMA XConjugates ==
    ASSUME StabilizerAssumption, NEW a \in Wires, NEW row \in Rows
    PROVE  Operator(OnOne("X", row, a)) = Conjugate("X", a, a, Operator(row))
<1> DEFINE turned == OnOne("X", row, a)
           o == Pauli(0, {a}, {})
           u == Pauli(2, {}, {a})
           xa == a \in row.x
           za == a \in row.z
           r == row.r
<1>1. turned = Negate(row, a \in row.z)
  BY OneWireGatesAre DEF XGate
<1>2. /\ turned \in Rows /\ turned.x = row.x /\ turned.z = row.z
      /\ turned.r = (row.r + Bit(a \in row.z)) % 2
  BY <1>1, NegatedRow
<1> HIDE DEF turned
<1>3. OnlyOn(o, a) /\ o.k = 0 /\ o.x = {a} /\ o.z = {}
  <2> DEFINE k == 0
             x == {a}
             z == {}
  <2>1. k \in 0..3 /\ AtMost(x, a) /\ AtMost(z, a)
    BY DEF AtMost
  <2>2. o = Pauli(k, x, z)
    OBVIOUS
  <2> HIDE DEF k, x, z, o
  <2>3. OnlyOn(o, a) /\ o.k = k /\ o.x = x /\ o.z = z
    BY <2>1, <2>2, PauliOnlyOn
  <2> QED BY <2>3 DEF k, x, z
<1>4. OnlyOn(u, a) /\ u.k = 2 /\ u.x = {} /\ u.z = {a}
  <2> DEFINE k == 2
             x == {}
             z == {a}
  <2>1. k \in 0..3 /\ AtMost(x, a) /\ AtMost(z, a)
    BY DEF AtMost
  <2>2. u = Pauli(k, x, z)
    OBVIOUS
  <2> HIDE DEF k, x, z, u
  <2>3. OnlyOn(u, a) /\ u.k = k /\ u.x = x /\ u.z = z
    BY <2>1, <2>2, PauliOnlyOn
  <2> QED BY <2>3 DEF k, x, z
<1>5. XImage("X", a, a, a) = o /\ ZImage("X", a, a, a) = u /\ "X" \in Gates1
  BY ImagesThere DEF Gates1
<1> HIDE DEF o, u
<1>6. /\ a \in turned.x <=> xa
      /\ a \in turned.z <=> za
      /\ turned.r = (r + Bit(za)) % 2
  <2>1. /\ a \in turned.x <=> xa
        /\ a \in turned.z <=> za
    BY <1>2 DEF SymDiff, Xor
  <2>2. turned.r = (r + Bit(za)) % 2
    BY <1>2 DEF SymDiff, Xor, Bit
  <2> QED BY <2>1, <2>2
<1>7. TurnedThere(turned, row, a, o, u)
  <2>1. turned.x \ {a} = row.x \ {a} /\ turned.z \ {a} = row.z \ {a}
    BY <1>2 DEF SymDiff
  <2> QED BY <1>3, <1>4, <1>6, <2>1 DEF TurnedThere, Xor
<1>8. SignedThere(turned, row, a, o, u)
  <2> DEFINE d == Bit(a \in turned.x /\ a \in turned.z)
             e == Bit(xa /\ za /\ a \in o.z /\ a \in u.x)
             c == Bit(xa /\ za)
  <2>1. d = Bit(xa /\ za) /\ e = 0
    BY <1>3, <1>4, <1>6 DEF Bit
  <2>2. r \in {0, 1} /\ xa \in BOOLEAN /\ za \in BOOLEAN
    BY DEF Rows
  <2> DEFINE s == turned.r
  <2> HIDE DEF xa, za, r, d, e, s
  <2>3. s = (r + Bit(za)) % 2
    BY <1>6 DEF s
  <2>4. Same4(2 * s + d, (IF xa THEN 0 ELSE 0) + (IF za THEN 2 ELSE 0) + 2 * e + 2 * r + c)
    BY <2>1, <2>2, <2>3 DEF Same4, Bit, Xor
  <2> QED BY <1>3, <1>4, <2>4 DEF SignedThere, s, d, e, xa, za, r
<1> QED BY <1>2, <1>3, <1>4, <1>5, <1>7, <1>8, OneWireConjugates DEF turned

\* The sign that Y puts where a row has one of X and Z is that of
\* conjugation.
LEMMA YConjugates ==
    ASSUME StabilizerAssumption, NEW a \in Wires, NEW row \in Rows
    PROVE  Operator(OnOne("Y", row, a)) = Conjugate("Y", a, a, Operator(row))
<1> DEFINE turned == OnOne("Y", row, a)
           o == Pauli(2, {a}, {})
           u == Pauli(2, {}, {a})
           xa == a \in row.x
           za == a \in row.z
           r == row.r
<1>1. turned = Negate(row, a \in SymDiff(row.x, row.z))
  BY OneWireGatesAre DEF YGate
<1>2. /\ turned \in Rows /\ turned.x = row.x /\ turned.z = row.z
      /\ turned.r = (row.r + Bit(a \in SymDiff(row.x, row.z))) % 2
  BY <1>1, NegatedRow
<1> HIDE DEF turned
<1>3. OnlyOn(o, a) /\ o.k = 2 /\ o.x = {a} /\ o.z = {}
  <2> DEFINE k == 2
             x == {a}
             z == {}
  <2>1. k \in 0..3 /\ AtMost(x, a) /\ AtMost(z, a)
    BY DEF AtMost
  <2>2. o = Pauli(k, x, z)
    OBVIOUS
  <2> HIDE DEF k, x, z, o
  <2>3. OnlyOn(o, a) /\ o.k = k /\ o.x = x /\ o.z = z
    BY <2>1, <2>2, PauliOnlyOn
  <2> QED BY <2>3 DEF k, x, z
<1>4. OnlyOn(u, a) /\ u.k = 2 /\ u.x = {} /\ u.z = {a}
  <2> DEFINE k == 2
             x == {}
             z == {a}
  <2>1. k \in 0..3 /\ AtMost(x, a) /\ AtMost(z, a)
    BY DEF AtMost
  <2>2. u = Pauli(k, x, z)
    OBVIOUS
  <2> HIDE DEF k, x, z, u
  <2>3. OnlyOn(u, a) /\ u.k = k /\ u.x = x /\ u.z = z
    BY <2>1, <2>2, PauliOnlyOn
  <2> QED BY <2>3 DEF k, x, z
<1>5. XImage("Y", a, a, a) = o /\ ZImage("Y", a, a, a) = u /\ "Y" \in Gates1
  BY ImagesThere DEF Gates1
<1> HIDE DEF o, u
<1>6. /\ a \in turned.x <=> xa
      /\ a \in turned.z <=> za
      /\ turned.r = (r + Bit(Xor(xa, za))) % 2
  <2>1. /\ a \in turned.x <=> xa
        /\ a \in turned.z <=> za
    BY <1>2 DEF SymDiff, Xor
  <2>2. turned.r = (r + Bit(Xor(xa, za))) % 2
    BY <1>2 DEF SymDiff, Xor, Bit
  <2> QED BY <2>1, <2>2
<1>7. TurnedThere(turned, row, a, o, u)
  <2>1. turned.x \ {a} = row.x \ {a} /\ turned.z \ {a} = row.z \ {a}
    BY <1>2 DEF SymDiff
  <2> QED BY <1>3, <1>4, <1>6, <2>1 DEF TurnedThere, Xor
<1>8. SignedThere(turned, row, a, o, u)
  <2> DEFINE d == Bit(a \in turned.x /\ a \in turned.z)
             e == Bit(xa /\ za /\ a \in o.z /\ a \in u.x)
             c == Bit(xa /\ za)
  <2>1. d = Bit(xa /\ za) /\ e = 0
    BY <1>3, <1>4, <1>6 DEF Bit
  <2>2. r \in {0, 1} /\ xa \in BOOLEAN /\ za \in BOOLEAN
    BY DEF Rows
  <2> DEFINE s == turned.r
  <2> HIDE DEF xa, za, r, d, e, s
  <2>3. s = (r + Bit(Xor(xa, za))) % 2
    BY <1>6 DEF s
  <2>4. Same4(2 * s + d, (IF xa THEN 2 ELSE 0) + (IF za THEN 2 ELSE 0) + 2 * e + 2 * r + c)
    BY <2>1, <2>2, <2>3 DEF Same4, Bit, Xor
  <2> QED BY <1>3, <1>4, <2>4 DEF SignedThere, s, d, e, xa, za, r
<1> QED BY <1>2, <1>3, <1>4, <1>5, <1>7, <1>8, OneWireConjugates DEF turned

\* The sign that Z puts where a row has X is that of conjugation.
LEMMA ZConjugates ==
    ASSUME StabilizerAssumption, NEW a \in Wires, NEW row \in Rows
    PROVE  Operator(OnOne("Z", row, a)) = Conjugate("Z", a, a, Operator(row))
<1> DEFINE turned == OnOne("Z", row, a)
           o == Pauli(2, {a}, {})
           u == Pauli(0, {}, {a})
           xa == a \in row.x
           za == a \in row.z
           r == row.r
<1>1. turned = Negate(row, a \in row.x)
  BY OneWireGatesAre DEF ZGate
<1>2. /\ turned \in Rows /\ turned.x = row.x /\ turned.z = row.z
      /\ turned.r = (row.r + Bit(a \in row.x)) % 2
  BY <1>1, NegatedRow
<1> HIDE DEF turned
<1>3. OnlyOn(o, a) /\ o.k = 2 /\ o.x = {a} /\ o.z = {}
  <2> DEFINE k == 2
             x == {a}
             z == {}
  <2>1. k \in 0..3 /\ AtMost(x, a) /\ AtMost(z, a)
    BY DEF AtMost
  <2>2. o = Pauli(k, x, z)
    OBVIOUS
  <2> HIDE DEF k, x, z, o
  <2>3. OnlyOn(o, a) /\ o.k = k /\ o.x = x /\ o.z = z
    BY <2>1, <2>2, PauliOnlyOn
  <2> QED BY <2>3 DEF k, x, z
<1>4. OnlyOn(u, a) /\ u.k = 0 /\ u.x = {} /\ u.z = {a}
  <2> DEFINE k == 0
             x == {}
             z == {a}
  <2>1. k \in 0..3 /\ AtMost(x, a) /\ AtMost(z, a)
    BY DEF AtMost
  <2>2. u = Pauli(k, x, z)
    OBVIOUS
  <2> HIDE DEF k, x, z, u
  <2>3. OnlyOn(u, a) /\ u.k = k /\ u.x = x /\ u.z = z
    BY <2>1, <2>2, PauliOnlyOn
  <2> QED BY <2>3 DEF k, x, z
<1>5. XImage("Z", a, a, a) = o /\ ZImage("Z", a, a, a) = u /\ "Z" \in Gates1
  BY ImagesThere DEF Gates1
<1> HIDE DEF o, u
<1>6. /\ a \in turned.x <=> xa
      /\ a \in turned.z <=> za
      /\ turned.r = (r + Bit(xa)) % 2
  <2>1. /\ a \in turned.x <=> xa
        /\ a \in turned.z <=> za
    BY <1>2 DEF SymDiff, Xor
  <2>2. turned.r = (r + Bit(xa)) % 2
    BY <1>2 DEF SymDiff, Xor, Bit
  <2> QED BY <2>1, <2>2
<1>7. TurnedThere(turned, row, a, o, u)
  <2>1. turned.x \ {a} = row.x \ {a} /\ turned.z \ {a} = row.z \ {a}
    BY <1>2 DEF SymDiff
  <2> QED BY <1>3, <1>4, <1>6, <2>1 DEF TurnedThere, Xor
<1>8. SignedThere(turned, row, a, o, u)
  <2> DEFINE d == Bit(a \in turned.x /\ a \in turned.z)
             e == Bit(xa /\ za /\ a \in o.z /\ a \in u.x)
             c == Bit(xa /\ za)
  <2>1. d = Bit(xa /\ za) /\ e = 0
    BY <1>3, <1>4, <1>6 DEF Bit
  <2>2. r \in {0, 1} /\ xa \in BOOLEAN /\ za \in BOOLEAN
    BY DEF Rows
  <2> DEFINE s == turned.r
  <2> HIDE DEF xa, za, r, d, e, s
  <2>3. s = (r + Bit(xa)) % 2
    BY <1>6 DEF s
  <2>4. Same4(2 * s + d, (IF xa THEN 2 ELSE 0) + (IF za THEN 0 ELSE 0) + 2 * e + 2 * r + c)
    BY <2>1, <2>2, <2>3 DEF Same4, Bit, Xor
  <2> QED BY <1>3, <1>4, <2>4 DEF SignedThere, s, d, e, xa, za, r
<1> QED BY <1>2, <1>3, <1>4, <1>5, <1>7, <1>8, OneWireConjugates DEF turned
-----------------------------------------------------------------------------
\* The gates on two wires: bits elsewhere, bits there, and the sign.
OutsideSame(h, row, a, b) ==
    h.x \ {a, b} = row.x \ {a, b} /\ h.z \ {a, b} = row.z \ {a, b}

ControlledThere(h, row, a, b) ==
    /\ h \in Rows /\ OutsideSame(h, row, a, b)
    /\ a \in h.x <=> a \in row.x
    /\ b \in h.x <=> Xor(b \in row.x, a \in row.x)
    /\ a \in h.z <=> Xor(a \in row.z, b \in row.z)
    /\ b \in h.z <=> b \in row.z
    /\ h.r = (row.r + Bit(a \in row.x /\ b \in row.z /\ (b \in row.x <=> a \in row.z))) % 2

\* The bits and the sign after CX.
LEMMA ControlledBits ==
    ASSUME NEW row \in Rows, NEW a \in Wires, NEW b \in Wires, a # b
    PROVE  ControlledThere(ControlledX(row, a, b), row, a, b)
<1> DEFINE h == ControlledX(row, a, b)
<1>1. IsControlled(h, row, a, b)
  BY ControlledXRow
<1> HIDE DEF h
<1>2. h \in Rows /\ h.r = (row.r + Bit(a \in row.x /\ b \in row.z /\ (b \in row.x <=> a \in row.z))) % 2
  BY <1>1 DEF IsControlled
<1>3. /\ h.x \ {a, b} = row.x \ {a, b}
      /\ a \in h.x <=> a \in row.x
      /\ b \in h.x <=> Xor(b \in row.x, a \in row.x)
  <2>1. CASE a \in row.x
    <3>1. h.x = SymDiff(row.x, {b})
      BY <1>1, <2>1 DEF IsControlled
    <3> QED BY <2>1, <3>1 DEF SymDiff, Xor
  <2>2. CASE a \notin row.x
    <3>1. h.x = row.x
      BY <1>1, <2>2 DEF IsControlled
    <3> QED BY <2>2, <3>1 DEF Xor
  <2> QED BY <2>1, <2>2
<1>4. /\ h.z \ {a, b} = row.z \ {a, b}
      /\ b \in h.z <=> b \in row.z
      /\ a \in h.z <=> Xor(a \in row.z, b \in row.z)
  <2>1. CASE b \in row.z
    <3>1. h.z = SymDiff(row.z, {a})
      BY <1>1, <2>1 DEF IsControlled
    <3> QED BY <2>1, <3>1 DEF SymDiff, Xor
  <2>2. CASE b \notin row.z
    <3>1. h.z = row.z
      BY <1>1, <2>2 DEF IsControlled
    <3> QED BY <2>2, <3>1 DEF Xor
  <2> QED BY <2>1, <2>2
<1>5. ControlledThere(h, row, a, b)
  BY <1>2, <1>3, <1>4 DEF ControlledThere, OutsideSame
<1> QED BY <1>5 DEF h

HadamardThere(h, row, a, b) ==
    /\ h \in Rows /\ OutsideSame(h, row, a, b)
    /\ a \in h.x <=> a \in row.x
    /\ b \in h.x <=> b \in row.z
    /\ a \in h.z <=> a \in row.z
    /\ b \in h.z <=> b \in row.x
    /\ h.r = (row.r + Bit(b \in row.x /\ b \in row.z)) % 2

\* The bits and the sign after H on the second wire.
LEMMA HadamardBits ==
    ASSUME NEW row \in Rows, NEW a \in Wires, NEW b \in Wires, a # b
    PROVE  HadamardThere(Hadamard(row, b), row, a, b)
<1> DEFINE h == Hadamard(row, b)
<1>1. /\ h \in Rows
      /\ h.x = (row.x \ {b}) \cup (row.z \cap {b})
      /\ h.z = (row.z \ {b}) \cup (row.x \cap {b})
      /\ h.r = (row.r + Bit(b \in row.x \cap row.z)) % 2
  BY HadamardRow
<1> HIDE DEF h
<1>2. h.x \ {a, b} = row.x \ {a, b} /\ h.z \ {a, b} = row.z \ {a, b}
  BY <1>1
<1>3. /\ a \in h.x <=> a \in row.x
      /\ b \in h.x <=> b \in row.z
      /\ a \in h.z <=> a \in row.z
      /\ b \in h.z <=> b \in row.x
  BY <1>1
<1>4. h.r = (row.r + Bit(b \in row.x /\ b \in row.z)) % 2
  BY <1>1 DEF Bit
<1>5. HadamardThere(h, row, a, b)
  BY <1>1, <1>2, <1>3, <1>4 DEF HadamardThere, OutsideSame
<1> QED BY <1>5 DEF h

SwappedThere(h, row, a, b) ==
    /\ h \in Rows /\ OutsideSame(h, row, a, b)
    /\ a \in h.x <=> b \in row.x
    /\ b \in h.x <=> a \in row.x
    /\ a \in h.z <=> b \in row.z
    /\ b \in h.z <=> a \in row.z
    /\ h.r = row.r

\* The bits and the sign after SWAP, that is three CX.
LEMMA SwapBits ==
    ASSUME NEW row \in Rows, NEW a \in Wires, NEW b \in Wires, a # b
    PROVE  SwappedThere(Swap(row, a, b), row, a, b)
<1> DEFINE h == ControlledX(row, a, b)
           i == ControlledX(h, b, a)
           l == ControlledX(i, a, b)
           xa == a \in row.x
           xb == b \in row.x
           za == a \in row.z
           zb == b \in row.z
           r == row.r
<1>1. ControlledThere(h, row, a, b)
  BY ControlledBits
<1>2. h \in Rows
  BY <1>1 DEF ControlledThere
<1>3. ControlledThere(i, h, b, a)
  <2> HIDE DEF h
  <2> QED BY <1>2, ControlledBits
<1>4. i \in Rows
  BY <1>3 DEF ControlledThere
<1>5. ControlledThere(l, i, a, b)
  <2> HIDE DEF i
  <2> QED BY <1>4, ControlledBits
<1>6. Swap(row, a, b) = l
  BY DEF Swap
<1> HIDE DEF h, i, l
<1>7. OutsideSame(l, row, a, b) /\ l \in Rows
  BY <1>1, <1>3, <1>5 DEF ControlledThere, OutsideSame
<1>8. /\ a \in h.x <=> xa
      /\ b \in h.x <=> Xor(xb, xa)
      /\ a \in h.z <=> Xor(za, zb)
      /\ b \in h.z <=> zb
      /\ h.r = (r + Bit(xa /\ zb /\ (xb <=> za))) % 2
  BY <1>1 DEF ControlledThere
<1>9. /\ b \in i.x <=> b \in h.x
      /\ a \in i.x <=> Xor(a \in h.x, b \in h.x)
      /\ b \in i.z <=> Xor(b \in h.z, a \in h.z)
      /\ a \in i.z <=> a \in h.z
      /\ i.r = (h.r + Bit(b \in h.x /\ a \in h.z /\ (a \in h.x <=> b \in h.z))) % 2
  BY <1>3 DEF ControlledThere
<1>10. /\ a \in l.x <=> a \in i.x
       /\ b \in l.x <=> Xor(b \in i.x, a \in i.x)
       /\ a \in l.z <=> Xor(a \in i.z, b \in i.z)
       /\ b \in l.z <=> b \in i.z
       /\ l.r = (i.r + Bit(a \in i.x /\ b \in i.z /\ (b \in i.x <=> a \in i.z))) % 2
  BY <1>5 DEF ControlledThere
<1>11. xa \in BOOLEAN /\ xb \in BOOLEAN /\ za \in BOOLEAN /\ zb \in BOOLEAN /\ r \in {0, 1}
  BY DEF Rows
<1> HIDE DEF xa, xb, za, zb, r
<1>12. /\ b \in i.x <=> Xor(xb, xa)
       /\ a \in i.x <=> xb
       /\ b \in i.z <=> za
       /\ a \in i.z <=> Xor(za, zb)
       /\ i.r = (h.r + Bit(Xor(xb, xa) /\ Xor(za, zb) /\ (xa <=> zb))) % 2
  <2>1. /\ b \in i.x <=> Xor(xb, xa)
        /\ a \in i.x <=> xb
        /\ b \in i.z <=> za
        /\ a \in i.z <=> Xor(za, zb)
    BY <1>8, <1>9, <1>11 DEF Xor
  <2>2. Bit(b \in h.x /\ a \in h.z /\ (a \in h.x <=> b \in h.z))
          = Bit(Xor(xb, xa) /\ Xor(za, zb) /\ (xa <=> zb))
    BY <1>8 DEF Bit
  <2> QED BY <1>9, <2>1, <2>2
<1>13. /\ a \in l.x <=> xb
       /\ b \in l.x <=> xa
       /\ a \in l.z <=> zb
       /\ b \in l.z <=> za
       /\ l.r = (i.r + Bit(xb /\ za /\ (Xor(xb, xa) <=> Xor(za, zb)))) % 2
  <2>1. /\ a \in l.x <=> xb
        /\ b \in l.x <=> xa
        /\ a \in l.z <=> zb
        /\ b \in l.z <=> za
    BY <1>10, <1>11, <1>12 DEF Xor
  <2>2. Bit(a \in i.x /\ b \in i.z /\ (b \in i.x <=> a \in i.z))
          = Bit(xb /\ za /\ (Xor(xb, xa) <=> Xor(za, zb)))
    BY <1>12 DEF Bit
  <2> QED BY <1>10, <2>1, <2>2
<1>14. l.r = r
  <2> DEFINE s == h.r
             t == i.r
             u == l.r
  <2>1. /\ s = (r + Bit(xa /\ zb /\ (xb <=> za))) % 2
        /\ t = (s + Bit(Xor(xb, xa) /\ Xor(za, zb) /\ (xa <=> zb))) % 2
        /\ u = (t + Bit(xb /\ za /\ (Xor(xb, xa) <=> Xor(za, zb)))) % 2
    BY <1>8, <1>12, <1>13
  <2> HIDE DEF s, t, u
  <2>2. u = r
    BY <1>11, <2>1 DEF Bit, Xor
  <2> QED BY <2>2 DEF u
<1> QED BY <1>6, <1>7, <1>13, <1>14 DEF SwappedThere, xa, xb, za, zb, r

CrossedThere(h, row, a, b) ==
    /\ h \in Rows /\ OutsideSame(h, row, a, b)
    /\ a \in h.x <=> a \in row.x
    /\ b \in h.x <=> b \in row.x
    /\ a \in h.z <=> Xor(a \in row.z, b \in row.x)
    /\ b \in h.z <=> Xor(b \in row.z, a \in row.x)
    /\ h.r = (row.r + Bit(a \in row.x /\ b \in row.x /\ Xor(a \in row.z, b \in row.z))) % 2

\* The bits and the sign after CZ, that is CX between two H.
LEMMA CrossedBits ==
    ASSUME NEW row \in Rows, NEW a \in Wires, NEW b \in Wires, a # b
    PROVE  CrossedThere(ControlledZ(row, a, b), row, a, b)
<1> DEFINE h == Hadamard(row, b)
           i == ControlledX(h, a, b)
           l == Hadamard(i, b)
           xa == a \in row.x
           xb == b \in row.x
           za == a \in row.z
           zb == b \in row.z
           r == row.r
<1>1. HadamardThere(h, row, a, b)
  BY HadamardBits
<1>2. h \in Rows
  BY <1>1 DEF HadamardThere
<1>3. ControlledThere(i, h, a, b)
  <2> HIDE DEF h
  <2> QED BY <1>2, ControlledBits
<1>4. i \in Rows
  BY <1>3 DEF ControlledThere
<1>5. HadamardThere(l, i, a, b)
  <2> HIDE DEF i
  <2> QED BY <1>4, HadamardBits
<1>6. ControlledZ(row, a, b) = l
  BY DEF ControlledZ
<1> HIDE DEF h, i, l
<1>7. OutsideSame(l, row, a, b) /\ l \in Rows
  BY <1>1, <1>3, <1>5 DEF ControlledThere, HadamardThere, OutsideSame
<1>8. /\ a \in h.x <=> xa
      /\ b \in h.x <=> zb
      /\ a \in h.z <=> za
      /\ b \in h.z <=> xb
      /\ h.r = (r + Bit(xb /\ zb)) % 2
  BY <1>1 DEF HadamardThere
<1>9. /\ a \in i.x <=> a \in h.x
      /\ b \in i.x <=> Xor(b \in h.x, a \in h.x)
      /\ a \in i.z <=> Xor(a \in h.z, b \in h.z)
      /\ b \in i.z <=> b \in h.z
      /\ i.r = (h.r + Bit(a \in h.x /\ b \in h.z /\ (b \in h.x <=> a \in h.z))) % 2
  BY <1>3 DEF ControlledThere
<1>10. /\ a \in l.x <=> a \in i.x
       /\ b \in l.x <=> b \in i.z
       /\ a \in l.z <=> a \in i.z
       /\ b \in l.z <=> b \in i.x
       /\ l.r = (i.r + Bit(b \in i.x /\ b \in i.z)) % 2
  BY <1>5 DEF HadamardThere
<1>11. xa \in BOOLEAN /\ xb \in BOOLEAN /\ za \in BOOLEAN /\ zb \in BOOLEAN /\ r \in {0, 1}
  BY DEF Rows
<1> HIDE DEF xa, xb, za, zb, r
<1>12. /\ a \in i.x <=> xa
       /\ b \in i.x <=> Xor(zb, xa)
       /\ a \in i.z <=> Xor(za, xb)
       /\ b \in i.z <=> xb
       /\ i.r = (h.r + Bit(xa /\ xb /\ (zb <=> za))) % 2
  <2>1. /\ a \in i.x <=> xa
        /\ b \in i.x <=> Xor(zb, xa)
        /\ a \in i.z <=> Xor(za, xb)
        /\ b \in i.z <=> xb
    BY <1>8, <1>9, <1>11 DEF Xor
  <2>2. Bit(a \in h.x /\ b \in h.z /\ (b \in h.x <=> a \in h.z)) = Bit(xa /\ xb /\ (zb <=> za))
    BY <1>8 DEF Bit
  <2> QED BY <1>9, <2>1, <2>2
<1>13. /\ a \in l.x <=> xa
       /\ b \in l.x <=> xb
       /\ a \in l.z <=> Xor(za, xb)
       /\ b \in l.z <=> Xor(zb, xa)
       /\ l.r = (i.r + Bit(Xor(zb, xa) /\ xb)) % 2
  <2>1. /\ a \in l.x <=> xa
        /\ b \in l.x <=> xb
        /\ a \in l.z <=> Xor(za, xb)
        /\ b \in l.z <=> Xor(zb, xa)
    BY <1>10, <1>11, <1>12 DEF Xor
  <2>2. Bit(b \in i.x /\ b \in i.z) = Bit(Xor(zb, xa) /\ xb)
    BY <1>12 DEF Bit
  <2> QED BY <1>10, <2>1, <2>2
<1>14. l.r = (r + Bit(xa /\ xb /\ Xor(za, zb))) % 2
  <2> DEFINE s == h.r
             t == i.r
             u == l.r
  <2>1. /\ s = (r + Bit(xb /\ zb)) % 2
        /\ t = (s + Bit(xa /\ xb /\ (zb <=> za))) % 2
        /\ u = (t + Bit(Xor(zb, xa) /\ xb)) % 2
    BY <1>8, <1>12, <1>13
  <2> HIDE DEF s, t, u
  <2>2. u = (r + Bit(xa /\ xb /\ Xor(za, zb))) % 2
    BY <1>11, <2>1 DEF Bit, Xor
  <2> QED BY <2>2 DEF u
<1> QED BY <1>6, <1>7, <1>13, <1>14 DEF CrossedThere, xa, xb, za, zb, r
-----------------------------------------------------------------------------
PairSame(turned, row, a, b, k) ==
    Same4(2 * turned.r + Bit(a \in turned.x /\ a \in turned.z) + Bit(b \in turned.x /\ b \in turned.z),
          k + 2 * row.r + Bit(a \in row.x /\ a \in row.z) + Bit(b \in row.x /\ b \in row.z))

\* Off the two wires both rows have the same, and p and q share nothing.
LEMMA TwoWireConjugates ==
    ASSUME StabilizerAssumption, NEW gate \in Gates2, NEW a \in Wires, NEW b \in Wires, a # b,
           NEW row \in Rows, NEW turned \in Rows, NEW p \in Operators, NEW q \in Operators,
           Product([j \in Wires |-> XImage(gate, a, b, j)], row.x) = p,
           Product([j \in Wires |-> ZImage(gate, a, b, j)], row.z) = q,
           IsSum(turned, p, q), OutsideSame(turned, row, a, b),
           q.x = {}, q.k = 0, PairSame(turned, row, a, b, p.k)
    PROVE  Operator(turned) = Conjugate(gate, a, b, Operator(row))
<1>1. /\ row.x \in SUBSET Wires /\ row.z \in SUBSET Wires /\ row.r \in {0, 1}
      /\ turned.x \in SUBSET Wires /\ turned.z \in SUBSET Wires /\ turned.r \in {0, 1}
      /\ p.k \in 0..3
  BY DEF Rows, Operators
<1>2. Shared(p.z, q.x) = 0
  <2>1. p.z \cap q.x = {}
    OBVIOUS
  <2> QED BY <2>1, NoWires DEF Shared
<1>3. CountedOffTwo(row.x, row.z, a, b) /\ CountedOffTwo(turned.x, turned.z, a, b)
  BY <1>1, SharedOffTwo
<1>4. (turned.x \cap turned.z) \ {a, b} = (row.x \cap row.z) \ {a, b}
  BY DEF OutsideSame
<1> DEFINE n == Cardinality((row.x \cap row.z) \ {a, b})
           c == Bit(a \in row.x /\ a \in row.z)
           d == Bit(b \in row.x /\ b \in row.z)
           e == Bit(a \in turned.x /\ a \in turned.z)
           f == Bit(b \in turned.x /\ b \in turned.z)
           r == row.r
           s == turned.r
           k == p.k
<1>5. n \in Nat /\ Shared(row.x, row.z) = n + c + d /\ Shared(turned.x, turned.z) = n + e + f
  BY <1>3, <1>4 DEF CountedOffTwo
<1>6. /\ c \in Int /\ d \in Int /\ e \in Int /\ f \in Int
      /\ r \in Int /\ s \in Int /\ k \in Int
  BY <1>1 DEF Bit
<1>7. ((2 * s + e + f) - (k + 2 * r + c + d)) % 4 = 0
  BY DEF PairSame, Same4
<1> HIDE DEF n, c, d, e, f, r, s, k
<1>8. (2 * s + (n + e + f)) - (k + 0 + 2 * 0 + 2 * r + (n + c + d))
        = (2 * s + e + f) - (k + 2 * r + c + d)
  BY <1>5, <1>6
<1>9. Same4(2 * s + (n + e + f), k + 0 + 2 * 0 + 2 * r + (n + c + d))
  BY <1>7, <1>8 DEF Same4
<1>10. Same4(2 * turned.r + Shared(turned.x, turned.z),
             p.k + q.k + 2 * Shared(p.z, q.x) + 2 * row.r + Shared(row.x, row.z))
  BY <1>2, <1>5, <1>9 DEF r, s, k
<1> QED BY <1>10, ConjugateIs

\* A sum with nothing is the set itself.
LEMMA SumsOfPlain ==
    ASSUME NEW S \in SUBSET Wires, NEW T \in SUBSET Wires
    PROVE  SymDiff(S, {}) = S /\ SymDiff({}, T) = T
  BY DEF SymDiff

\* _cnot conjugates by CX, signs included.
LEMMA ControlledXConjugates ==
    ASSUME StabilizerAssumption, NEW a \in Wires, NEW b \in Wires, a # b, NEW row \in Rows
    PROVE  Operator(OnTwo("CX", row, a, b)) = Conjugate("CX", a, b, Operator(row))
<1> DEFINE turned == OnTwo("CX", row, a, b)
           f == [j \in Wires |-> XImage("CX", a, b, j)]
           g == [j \in Wires |-> ZImage("CX", a, b, j)]
           F == [j \in Wires |-> IF j = a THEN {a, b} ELSE {j}]
           G == [j \in Wires |-> IF j = b THEN {b, a} ELSE {j}]
           K == [S \in SUBSET Wires |-> Copied(S, a, b)]
           L == [S \in SUBSET Wires |-> Copied(S, b, a)]
           s == Copied(row.x, a, b)
           t == Copied(row.z, b, a)
           p == Pauli(0, s, {})
           q == Pauli(0, {}, t)
<1>1. turned = ControlledX(row, a, b)
  BY TwoWireGatesAre
<1> HIDE DEF turned
<1>2. IsControlled(turned, row, a, b) /\ ControlledThere(turned, row, a, b)
  BY <1>1, ControlledXRow, ControlledBits
<1>3. row.x \in SUBSET Wires /\ row.z \in SUBSET Wires
  BY DEF Rows
<1>4. ASSUME NEW j \in Wires
      PROVE  f[j] = Pauli(0, F[j], {}) /\ g[j] = Pauli(0, {}, G[j])
  <2>1. XImage("CX", a, b, j) = XOn(IF j = a THEN {a, b} ELSE {j})
    BY DEF XImage
  <2>2. ZImage("CX", a, b, j) = ZOn(IF j = b THEN {b, a} ELSE {j})
    <3>1. {a, b} = {b, a}
      OBVIOUS
    <3> QED BY <3>1 DEF ZImage
  <2> QED BY <2>1, <2>2 DEF XOn, ZOn, Pauli
<1>5. AddsUp(K, F) /\ AddsUp(L, G)
  BY CopiesAddUp
<1>6. s = K[row.x] /\ t = L[row.z]
  BY <1>3
<1> HIDE DEF f, g, F, G, K, L
<1>7. f \in [Wires -> Operators] /\ g \in [Wires -> Operators]
  <2>1. ASSUME NEW j \in Wires
        PROVE  f[j] \in Operators /\ g[j] \in Operators
    <3>1. F[j] \in SUBSET Wires /\ G[j] \in SUBSET Wires /\ {} \in SUBSET Wires /\ 0 \in 0..3
      BY <1>5 DEF AddsUp
    <3> QED BY <1>4, <3>1, PauliIs
  <2> QED BY <2>1 DEF f, g
<1>8. AllX(f, F) /\ AllZ(g, G)
  BY <1>4 DEF AllX, AllZ
<1>9. Product(f, row.x) = p /\ Product(g, row.z) = q
  BY <1>3, <1>5, <1>6, <1>7, <1>8, ProductOfX, ProductOfZ
<1>10. s \in SUBSET Wires /\ t \in SUBSET Wires
  BY <1>3 DEF Copied, SymDiff
<1>11. turned.x = s /\ turned.z = t
  BY <1>2 DEF IsControlled, Copied
<1>12. /\ p \in Operators /\ p.k = 0 /\ p.x = s /\ p.z = {}
       /\ q \in Operators /\ q.k = 0 /\ q.x = {} /\ q.z = t
  <2> HIDE DEF s, t
  <2>1. {} \in SUBSET Wires /\ 0 \in 0..3
    OBVIOUS
  <2> QED BY <1>10, <2>1, PauliIs
<1> HIDE DEF p, q, s, t
<1>13. IsSum(turned, p, q)
  BY <1>10, <1>11, <1>12, SumsOfPlain DEF IsSum
<1>14. PairSame(turned, row, a, b, p.k)
  <2> DEFINE xa == a \in row.x
             xb == b \in row.x
             za == a \in row.z
             zb == b \in row.z
             r == row.r
             u == turned.r
             d == Bit(a \in turned.x /\ a \in turned.z)
             e == Bit(b \in turned.x /\ b \in turned.z)
  <2>1. xa \in BOOLEAN /\ xb \in BOOLEAN /\ za \in BOOLEAN /\ zb \in BOOLEAN /\ r \in {0, 1}
    BY DEF Rows
  <2>2. /\ u = (r + Bit(xa /\ zb /\ (xb <=> za))) % 2
        /\ d = Bit(xa /\ Xor(za, zb)) /\ e = Bit(Xor(xb, xa) /\ zb)
    BY <1>2 DEF ControlledThere, Bit
  <2> HIDE DEF xa, xb, za, zb, r, u, d, e
  <2>3. Same4(2 * u + d + e, 0 + 2 * r + Bit(xa /\ za) + Bit(xb /\ zb))
    BY <2>1, <2>2 DEF Same4, Bit, Xor
  <2> QED BY <1>12, <2>3 DEF PairSame, xa, xb, za, zb, r, u, d, e
<1>15. turned \in Rows /\ OutsideSame(turned, row, a, b) /\ "CX" \in Gates2
  BY <1>2 DEF ControlledThere, Gates2
<1> QED BY <1>9, <1>12, <1>13, <1>14, <1>15, TwoWireConjugates DEF f, g, turned

\* Three CX conjugate by SWAP.
LEMMA SwapConjugates ==
    ASSUME StabilizerAssumption, NEW a \in Wires, NEW b \in Wires, a # b, NEW row \in Rows
    PROVE  Operator(OnTwo("SWAP", row, a, b)) = Conjugate("SWAP", a, b, Operator(row))
<1> DEFINE turned == OnTwo("SWAP", row, a, b)
           f == [j \in Wires |-> XImage("SWAP", a, b, j)]
           g == [j \in Wires |-> ZImage("SWAP", a, b, j)]
           F == [j \in Wires |-> IF j = a THEN {b} ELSE IF j = b THEN {a} ELSE {j}]
           K == [S \in SUBSET Wires |-> Exchanged(S, a, b)]
           s == Exchanged(row.x, a, b)
           t == Exchanged(row.z, a, b)
           p == Pauli(0, s, {})
           q == Pauli(0, {}, t)
<1>1. turned = Swap(row, a, b)
  BY TwoWireGatesAre
<1> HIDE DEF turned
<1>2. SwappedThere(turned, row, a, b)
  BY <1>1, SwapBits
<1>3. row.x \in SUBSET Wires /\ row.z \in SUBSET Wires
  BY DEF Rows
<1>4. ASSUME NEW j \in Wires
      PROVE  f[j] = Pauli(0, F[j], {}) /\ g[j] = Pauli(0, {}, F[j])
  <2>1. XImage("SWAP", a, b, j) = XOn(IF j = a THEN {b} ELSE IF j = b THEN {a} ELSE {j})
    BY DEF XImage
  <2>2. ZImage("SWAP", a, b, j) = ZOn(IF j = a THEN {b} ELSE IF j = b THEN {a} ELSE {j})
    BY DEF ZImage
  <2> QED BY <2>1, <2>2 DEF XOn, ZOn, Pauli
<1>5. AddsUp(K, F)
  BY ExchangesAddUp
<1>6. s = K[row.x] /\ t = K[row.z]
  BY <1>3
<1> HIDE DEF f, g, F, K
<1>7. f \in [Wires -> Operators] /\ g \in [Wires -> Operators]
  <2>1. ASSUME NEW j \in Wires
        PROVE  f[j] \in Operators /\ g[j] \in Operators
    <3>1. F[j] \in SUBSET Wires /\ {} \in SUBSET Wires /\ 0 \in 0..3
      BY <1>5 DEF AddsUp
    <3> QED BY <1>4, <3>1, PauliIs
  <2> QED BY <2>1 DEF f, g
<1>8. AllX(f, F) /\ AllZ(g, F)
  BY <1>4 DEF AllX, AllZ
<1>9. Product(f, row.x) = p /\ Product(g, row.z) = q
  BY <1>3, <1>5, <1>6, <1>7, <1>8, ProductOfX, ProductOfZ
<1>10. s \in SUBSET Wires /\ t \in SUBSET Wires
  BY DEF Exchanged
<1>11. turned.x = s /\ turned.z = t
  <2>1. turned.x \in SUBSET Wires /\ turned.z \in SUBSET Wires
    BY <1>2 DEF SwappedThere, Rows
  <2>2. ASSUME NEW j \in Wires
        PROVE  (j \in turned.x <=> j \in s) /\ (j \in turned.z <=> j \in t)
    BY <1>2, <2>2 DEF SwappedThere, OutsideSame, Exchanged
  <2> QED BY <1>10, <2>1, <2>2
<1>12. /\ p \in Operators /\ p.k = 0 /\ p.x = s /\ p.z = {}
       /\ q \in Operators /\ q.k = 0 /\ q.x = {} /\ q.z = t
  <2> HIDE DEF s, t
  <2>1. {} \in SUBSET Wires /\ 0 \in 0..3
    OBVIOUS
  <2> QED BY <1>10, <2>1, PauliIs
<1> HIDE DEF p, q, s, t
<1>13. IsSum(turned, p, q)
  BY <1>10, <1>11, <1>12, SumsOfPlain DEF IsSum
<1>14. PairSame(turned, row, a, b, p.k)
  <2> DEFINE r == row.r
             u == turned.r
             c == Bit(a \in row.x /\ a \in row.z)
             i == Bit(b \in row.x /\ b \in row.z)
             d == Bit(a \in turned.x /\ a \in turned.z)
             e == Bit(b \in turned.x /\ b \in turned.z)
  <2>1. r \in {0, 1} /\ c \in Int /\ i \in Int /\ u = r /\ d = i /\ e = c
    BY <1>2 DEF SwappedThere, Bit, Rows
  <2> HIDE DEF r, u, c, i, d, e
  <2>2. (2 * u + d + e) - (0 + 2 * r + c + i) = 0
    BY <2>1
  <2>3. Same4(2 * u + d + e, 0 + 2 * r + c + i)
    BY <2>2 DEF Same4
  <2> QED BY <1>12, <2>3 DEF PairSame, r, u, c, i, d, e
<1>15. turned \in Rows /\ OutsideSame(turned, row, a, b) /\ "SWAP" \in Gates2
  BY <1>2 DEF SwappedThere, Gates2
<1> QED BY <1>9, <1>12, <1>13, <1>14, <1>15, TwoWireConjugates DEF f, g, turned

\* The images of X under CZ as a phase and two sets.
LEMMA CrossedImages ==
    ASSUME StabilizerAssumption, NEW a \in Wires, NEW b \in Wires, a # b
    PROVE  /\ Multiply(XOn({a}), ZOn({b})) = Pauli(0, {a}, {b})
           /\ Multiply(ZOn({a}), XOn({b})) = Pauli(0, {b}, {a})
<1>1. SymDiff({a}, {}) = {a} /\ SymDiff({}, {b}) = {b} /\ SymDiff({}, {a}) = {a} /\ SymDiff({b}, {}) = {b}
      /\ SymDiff({a}, {}) = {a} /\ {} \cap {} = {} /\ {a} \cap {b} = {}
  BY DEF SymDiff
<1>2. (0 + 0 + 2 * Cardinality({})) % 4 = 0
  BY NoWires
<1>3. Multiply(XOn({a}), ZOn({b})) = Pauli((0 + 0 + 2 * Cardinality({} \cap {})) % 4, SymDiff({a}, {}), SymDiff({}, {b}))
  BY DEF Multiply, XOn, ZOn, Pauli
<1>4. Multiply(ZOn({a}), XOn({b})) = Pauli((0 + 0 + 2 * Cardinality({a} \cap {b})) % 4, SymDiff({}, {b}), SymDiff({a}, {}))
  BY DEF Multiply, XOn, ZOn, Pauli
<1> QED BY <1>1, <1>2, <1>3, <1>4

\* CX between two H conjugates by CZ, signs included.
LEMMA ControlledZConjugates ==
    ASSUME StabilizerAssumption, NEW a \in Wires, NEW b \in Wires, a # b, NEW row \in Rows
    PROVE  Operator(OnTwo("CZ", row, a, b)) = Conjugate("CZ", a, b, Operator(row))
<1> DEFINE turned == OnTwo("CZ", row, a, b)
           f == [j \in Wires |-> XImage("CZ", a, b, j)]
           g == [j \in Wires |-> ZImage("CZ", a, b, j)]
           G == [j \in Wires |-> {j}]
           L == [S \in SUBSET Wires |-> S]
           k == BothWires(row.x, a, b)
           s == row.x
           c == Across(row.x, a, b)
           t == row.z
           p == Pauli(k, s, c)
           q == Pauli(0, {}, t)
<1>1. turned = ControlledZ(row, a, b)
  BY TwoWireGatesAre
<1> HIDE DEF turned
<1>2. CrossedThere(turned, row, a, b)
  BY <1>1, CrossedBits
<1>3. s \in SUBSET Wires /\ t \in SUBSET Wires /\ c \in SUBSET Wires /\ k \in 0..3
  BY DEF Rows, BothWires, Across
<1>4. ASSUME NEW j \in Wires \ {a, b}
      PROVE  f[j] = Pauli(0, {j}, {})
  BY DEF XImage, XOn, Pauli
<1>5. f[a] = Pauli(0, {a}, {b}) /\ f[b] = Pauli(0, {b}, {a})
  <2>1. XImage("CZ", a, b, a) = Multiply(XOn({a}), ZOn({b}))
    BY DEF XImage
  <2>2. XImage("CZ", a, b, b) = Multiply(ZOn({a}), XOn({b}))
    BY DEF XImage
  <2> QED BY <2>1, <2>2, CrossedImages
<1>6. ASSUME NEW j \in Wires
      PROVE  g[j] = Pauli(0, {}, G[j])
  BY DEF ZImage, ZOn, Pauli
<1>7. AddsUp(L, G) /\ t = L[row.z]
  BY <1>3, SetsAddUp
<1> HIDE DEF f, g, G, L
<1>8. f \in [Wires -> Operators] /\ g \in [Wires -> Operators]
  <2>1. ASSUME NEW j \in Wires
        PROVE  f[j] \in Operators /\ g[j] \in Operators
    <3>1. {j} \in SUBSET Wires /\ {a} \in SUBSET Wires /\ {b} \in SUBSET Wires
          /\ G[j] \in SUBSET Wires /\ {} \in SUBSET Wires /\ 0 \in 0..3
      BY <1>7 DEF AddsUp
    <3>2. g[j] \in Operators
      BY <1>6, <3>1, PauliIs
    <3>3. f[j] \in Operators
      <4>1. CASE j \in {a, b}
        BY <1>5, <3>1, <4>1, PauliIs
      <4>2. CASE j \notin {a, b}
        <5>1. f[j] = Pauli(0, {j}, {})
          BY <1>4, <4>2
        <5> QED BY <3>1, <5>1, PauliIs
      <4> QED BY <4>1, <4>2
    <3> QED BY <3>2, <3>3
  <2> QED BY <2>1 DEF f, g
<1>9. CrossesX(f, a, b) /\ AllZ(g, G)
  BY <1>4, <1>5, <1>6, <1>8 DEF CrossesX, AllZ
<1>10. Product(f, row.x) = p
  BY <1>3, <1>9, CrossedX
<1>11. Product(g, row.z) = q
  BY <1>3, <1>7, <1>8, <1>9, ProductOfZ
<1>12. /\ p \in Operators /\ p.k = k /\ p.x = s /\ p.z = c
       /\ q \in Operators /\ q.k = 0 /\ q.x = {} /\ q.z = t
  <2> HIDE DEF k, s, c, t
  <2>1. {} \in SUBSET Wires /\ 0 \in 0..3
    OBVIOUS
  <2> QED BY <1>3, <2>1, PauliIs
<1> HIDE DEF p, q
<1>13. IsSum(turned, p, q)
  <2>1. turned.x \in SUBSET Wires /\ turned.z \in SUBSET Wires
    BY <1>2 DEF CrossedThere, Rows
  <2>2. turned.x = row.x
    <3>1. ASSUME NEW j \in Wires
          PROVE  j \in turned.x <=> j \in row.x
      BY <1>2, <3>1 DEF CrossedThere, OutsideSame
    <3> QED BY <1>3, <2>1, <3>1
  <2>3. turned.z = SymDiff(c, t)
    <3>1. ASSUME NEW j \in Wires
          PROVE  j \in turned.z <=> Xor(j \in c, j \in t)
      <4>1. CASE j = a
        <5>1. j \in c <=> b \in row.x
          BY <4>1 DEF Across
        <5> QED BY <1>2, <4>1, <5>1 DEF CrossedThere, Xor
      <4>2. CASE j = b
        <5>1. j \in c <=> a \in row.x
          BY <4>2 DEF Across
        <5> QED BY <1>2, <4>2, <5>1 DEF CrossedThere, Xor
      <4>3. CASE j # a /\ j # b
        <5>1. j \notin c
          BY <4>3 DEF Across
        <5> QED BY <1>2, <4>3, <5>1 DEF CrossedThere, OutsideSame, Xor
      <4> QED BY <4>1, <4>2, <4>3
    <3> HIDE DEF c, t
    <3> QED BY <1>3, <2>1, <3>1 DEF SymDiff, Xor
  <2> QED BY <1>3, <1>12, <2>2, <2>3, SumsOfPlain DEF IsSum
<1>14. PairSame(turned, row, a, b, p.k)
  <2> DEFINE xa == a \in row.x
             xb == b \in row.x
             za == a \in row.z
             zb == b \in row.z
             r == row.r
             u == turned.r
             d == Bit(a \in turned.x /\ a \in turned.z)
             e == Bit(b \in turned.x /\ b \in turned.z)
  <2>1. xa \in BOOLEAN /\ xb \in BOOLEAN /\ za \in BOOLEAN /\ zb \in BOOLEAN /\ r \in {0, 1}
    BY DEF Rows
  <2>2. /\ u = (r + Bit(xa /\ xb /\ Xor(za, zb))) % 2
        /\ d = Bit(xa /\ Xor(za, xb)) /\ e = Bit(xb /\ Xor(zb, xa))
        /\ k = IF xa /\ xb THEN 2 ELSE 0
    BY <1>2 DEF CrossedThere, Bit, BothWires
  <2> HIDE DEF xa, xb, za, zb, r, u, d, e, k
  <2>3. Same4(2 * u + d + e, k + 2 * r + Bit(xa /\ za) + Bit(xb /\ zb))
    BY <2>1, <2>2 DEF Same4, Bit, Xor
  <2> QED BY <1>12, <2>3 DEF PairSame, xa, xb, za, zb, r, u, d, e
<1>15. turned \in Rows /\ OutsideSame(turned, row, a, b) /\ "CZ" \in Gates2
  BY <1>2 DEF CrossedThere, Gates2
<1> QED BY <1>10, <1>11, <1>12, <1>13, <1>14, <1>15, TwoWireConjugates DEF f, g, turned
-----------------------------------------------------------------------------
\* GatesConjugate holds of every tableau, row by row.
LEMMA GatesDoConjugate ==
    ASSUME StabilizerAssumption
    PROVE  GatesConjugate
<1>1. ASSUME NEW row \in Rows, NEW a \in Wires, NEW gate \in Gates1
      PROVE  Operator(OnOne(gate, row, a)) = Conjugate(gate, a, a, Operator(row))
  <2>1. \/ gate = "H" \/ gate = "S" \/ gate = "SDG"
        \/ gate = "X" \/ gate = "Y" \/ gate = "Z"
    BY DEF Gates1
  <2>2. CASE gate = "H"
    BY <2>2, HadamardConjugates
  <2>3. CASE gate = "S"
    BY <2>3, PhaseConjugates
  <2>4. CASE gate = "SDG"
    BY <2>4, PhaseInverseConjugates
  <2>5. CASE gate = "X"
    BY <2>5, XConjugates
  <2>6. CASE gate = "Y"
    BY <2>6, YConjugates
  <2>7. CASE gate = "Z"
    BY <2>7, ZConjugates
  <2> QED BY <2>1, <2>2, <2>3, <2>4, <2>5, <2>6, <2>7
<1>2. ASSUME NEW row \in Rows, NEW a \in Wires, NEW b \in Wires, a # b, NEW gate \in Gates2
      PROVE  Operator(OnTwo(gate, row, a, b)) = Conjugate(gate, a, b, Operator(row))
  <2>1. gate = "CX" \/ gate = "CZ" \/ gate = "SWAP"
    BY DEF Gates2
  <2>2. CASE gate = "CX"
    BY <1>2, <2>2, ControlledXConjugates
  <2>3. CASE gate = "CZ"
    BY <1>2, <2>3, ControlledZConjugates
  <2>4. CASE gate = "SWAP"
    BY <1>2, <2>4, SwapConjugates
  <2> QED BY <2>1, <2>2, <2>3, <2>4
<1> QED BY <1>1, <1>2 DEF GatesConjugate, Rows

\* Of the rows that the random branch multiplies only the partner of the
\* pivot is refused.
LEMMA WellFormedRefuses ==
    ASSUME StabilizerAssumption, WellFormed(tableau), NEW a \in Wires, Pivots(a) # {}
    PROVE  Refused(a) = Multiplied(a) \cap {Pivot(a) - Qubits}
<1> DEFINE p == Pivot(a)
<1>1. p \in TableauRows /\ p \in Stabilizers
  BY PivotIs
<1> HIDE DEF p
<1>2. ASSUME NEW i \in TableauRows
      PROVE  Raises(tableau[i], tableau[p]) <=> Partners(i, p)
  <2>1. tableau[i] \in Rows /\ tableau[p] \in Rows
    BY <1>1 DEF WellFormed, Tableaus
  <2>2. Anti(tableau[i], tableau[p]) <=> Partners(i, p)
    BY <1>1 DEF WellFormed, Paired
  <2> QED BY <2>1, <2>2, RaisesWhereAnti
<1>3. ASSUME NEW i \in TableauRows
      PROVE  Partners(i, p) <=> i = p - Qubits
  BY <1>1, RowNumbers DEF Partners
<1>4. Multiplied(a) \subseteq TableauRows
  BY DEF Multiplied
<1>5. Refused(a) = {i \in Multiplied(a) : Raises(tableau[i], tableau[p])}
  BY DEF Refused, p
<1>6. \A i \in Multiplied(a) : Raises(tableau[i], tableau[p]) <=> i = p - Qubits
  BY <1>2, <1>3, <1>4
<1>7. Refused(a) = Multiplied(a) \cap {p - Qubits}
  BY <1>5, <1>6
<1> QED BY <1>7 DEF p

\* Nothing is refused in the deterministic branch: the scratch row holds
\* stabilizers already passed, which commute with the next.
LEMMA WellFormedScratch ==
    ASSUME StabilizerAssumption, WellFormed(tableau)
    PROVE  ScratchNeverRaises
<1> SUFFICES ASSUME NEW a \in Wires, NEW i \in Wires
             PROVE  ~ Raises(Scratch(a)[i - 1], tableau[Qubits + i])
  BY DEF ScratchNeverRaises
<1> DEFINE s == Scratch(a)
           u == s[i - 1]
           v == tableau[Qubits + i]
<1>1. tableau \in Tableaus /\ i - 1 \in 0..Qubits
      /\ Qubits + i \in TableauRows /\ Qubits + i \notin Wires
  BY WireNumbers, RowNumbers DEF WellFormed
<1>2. Scratched(s, tableau, a) /\ s \in [0..Qubits -> Rows]
  BY <1>1, ScratchIs
<1> HIDE DEF s
<1>3. u \in Rows /\ v \in Rows
  BY <1>1, <1>2 DEF Tableaus
<1>4. ~ Anti(v, u)
  BY <1>1, <1>2, ScratchAnti
<1> HIDE DEF u, v
<1>5. IsVector(u) /\ IsVector(v)
  BY <1>3, RowIsVector
<1>6. ~ Anti(u, v)
  BY <1>4, <1>5, AntiEitherWay
<1>7. ~ Raises(u, v)
  BY <1>3, <1>6, RaisesWhereAnti
<1> QED BY <1>7 DEF u, v, s

(* What StabilizerEngine computes is what the quantum operations do, with   *)
(* its signs, for every number of wires, of any circuit that run_stabilizer *)
(* applies: gates conjugate, rows stay paired, an outcome is called         *)
(* deterministic exactly when it is, and is then right, the random branch   *)
(* projects, and _rowsum raises in one case only: when the destabilizer     *)
(* paired with the pivot has X on the measured wire; it never raises in     *)
(* the deterministic branch.                                                *)
THEOREM SimulatorStaysExact == StabilizerSpec => []TableauIsExact
<1>1. WellFormed(tableau) => OnlyThePartnerIsRefused
  BY StabilizerAssumption, WellFormedRefuses DEF OnlyThePartnerIsRefused
<1>2. StaysWellFormed => TableauIsExact
  BY <1>1, StabilizerAssumption, GatesDoConjugate, WellFormedPairs, WellFormedDetermines,
     WellFormedProjects, WellFormedScratch
     DEF StaysWellFormed, TableauIsExact
<1> QED BY <1>2, TableauStaysWellFormed, PTL
=============================================================================
