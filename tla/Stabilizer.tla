----------------------------- MODULE Stabilizer -----------------------------
(***************************************************************************)
(* StabilizerEngine of core/reference/pacore/simulator.py: the tableau of  *)
(* Aaronson and Gottesman, of which rows 1..Qubits are destabilizers and   *)
(* the rest stabilizers. The bits of a row are the sets of wires where     *)
(* they are 1, and r is its sign. What the rows mean is in the second      *)
(* half, where Pauli operators are multiplied with their phases.           *)
(*                                                                         *)
(* run_stabilizer applies the operations of a circuit one by one and gives *)
(* the engine up when one raises. Dense vectors, hashes and the log are    *)
(* left out.                                                               *)
(***************************************************************************)
EXTENDS Integers, FiniteSets, FiniteSetsExt, Lists

CONSTANT Qubits  \* how many wires the engine has

ASSUME StabilizerAssumption == Qubits \in Nat \ {0}

VARIABLES
    tableau,  \* x, z and r, without the scratch row
    raised    \* _rowsum has raised SimulationError

stabilizerVars == <<tableau, raised>>

Wires == 1..Qubits
Stabilizers == (Qubits + 1)..(2 * Qubits)
TableauRows == 1..(2 * Qubits)

Bit(P) == IF P THEN 1 ELSE 0
Negate(row, P) == [row EXCEPT !.r = (@ + Bit(P)) % 2]
-----------------------------------------------------------------------------
Hadamard(row, a) ==
    Negate([row EXCEPT !.x = (@ \ {a}) \cup (row.z \cap {a}),
                       !.z = (@ \ {a}) \cup (row.x \cap {a})],
           a \in row.x \cap row.z)

Phase(row, a) ==
    Negate([row EXCEPT !.z = SymDiff(@, row.x \cap {a})], a \in row.x \cap row.z)

XGate(row, a) == Negate(row, a \in row.z)
ZGate(row, a) == Negate(row, a \in row.x)
YGate(row, a) == Negate(row, a \in SymDiff(row.x, row.z))
PhaseInverse(row, a) == ZGate(Phase(row, a), a)

ControlledX(row, a, b) ==
    Negate([row EXCEPT !.x = IF a \in row.x THEN SymDiff(@, {b}) ELSE @,
                       !.z = IF b \in row.z THEN SymDiff(@, {a}) ELSE @],
           a \in row.x /\ b \in row.z /\ (b \in row.x <=> a \in row.z))

ControlledZ(row, a, b) ==
    Hadamard(ControlledX(Hadamard(row, b), a, b), b)

Swap(row, a, b) ==
    ControlledX(ControlledX(ControlledX(row, a, b), b, a), a, b)

Gates1 == {"H", "S", "SDG", "X", "Y", "Z"}
Gates2 == {"CX", "CZ", "SWAP"}

OnOne(gate, row, a) ==
    CASE gate = "H" -> Hadamard(row, a)
      [] gate = "S" -> Phase(row, a)
      [] gate = "SDG" -> PhaseInverse(row, a)
      [] gate = "X" -> XGate(row, a)
      [] gate = "Y" -> YGate(row, a)
      [] gate = "Z" -> ZGate(row, a)

OnTwo(gate, row, a, b) ==
    CASE gate = "CX" -> ControlledX(row, a, b)
      [] gate = "CZ" -> ControlledZ(row, a, b)
      [] gate = "SWAP" -> Swap(row, a, b)
-----------------------------------------------------------------------------
(* _g: the power of i that the product of two one-wire factors brings.      *)
Exponent(x1, z1, x2, z2) ==
    IF x1 = 0 /\ z1 = 0 THEN 0
    ELSE IF x1 = 1 /\ z1 = 1 THEN z2 - x2
    ELSE IF x1 = 1 THEN z2 * (2 * x2 - 1)
    ELSE x2 * (1 - 2 * z2)

(* _rowsum(h, i): the sign of the product is known when acc is even.        *)
Accumulated(h, i) ==
    (2 * h.r + 2 * i.r
     + SumTo([j \in Wires |-> Exponent(Bit(j \in i.x), Bit(j \in i.z),
                                       Bit(j \in h.x), Bit(j \in h.z))],
             Qubits)) % 4

RowSum(h, i) ==
    [x |-> SymDiff(h.x, i.x), z |-> SymDiff(h.z, i.z),
     r |-> Bit(Accumulated(h, i) = 2)]

Raises(h, i) == Accumulated(h, i) \in {1, 3}

\* the first stabilizer that does not commute with Z on wire a
Pivots(a) == {i \in Stabilizers : a \in tableau[i].x}
Pivot(a) == Min(Pivots(a))

\* the rows that the random branch multiplies by the pivot, and those for
\* which that raises
Multiplied(a) == {i \in TableauRows \ {Pivot(a)} : a \in tableau[i].x}
Refused(a) == {i \in Multiplied(a) : Raises(tableau[i], tableau[Pivot(a)])}

\* slip: only the stabilizers are multiplied, not the destabilizers
FaultCollapse(a, outcome) ==
    LET p == Pivot(a)
    IN  [i \in TableauRows |->
            IF i = p THEN [x |-> {}, z |-> {a}, r |-> outcome]
            ELSE IF i = p - Qubits THEN tableau[p]
            ELSE IF i \in Multiplied(a) \cap Stabilizers
                 THEN RowSum(tableau[i], tableau[p])
            ELSE tableau[i]]

(* The tableau after the random branch.                                     *)
Collapse(a, outcome) ==
    LET p == Pivot(a)
    IN  [i \in TableauRows |->
            IF i = p THEN [x |-> {}, z |-> {a}, r |-> outcome]
            ELSE IF i = p - Qubits THEN tableau[p]
            ELSE IF i \in Multiplied(a) THEN RowSum(tableau[i], tableau[p])
            ELSE tableau[i]]

(* The scratch row of the deterministic branch, after the destabilizers     *)
(* 1..i, and the sign that it collects. ScratchNeverRaises says of the      *)
(* calls of _rowsum that make it what is left out here.                     *)
Scratch(a) ==
    LET scratch[i \in 0..Qubits] ==
            IF i = 0 THEN [x |-> {}, z |-> {}, r |-> 0]
            ELSE IF a \in tableau[i].x
                 THEN RowSum(scratch[i - 1], tableau[Qubits + i])
            ELSE scratch[i - 1]
    IN  scratch

Determined(a) == Scratch(a)[Qubits].r
-----------------------------------------------------------------------------
StabilizerInit ==
    /\ tableau = [i \in TableauRows |->
                    IF i \in Stabilizers
                    THEN [x |-> {}, z |-> {i - Qubits}, r |-> 0]
                    ELSE [x |-> {i}, z |-> {}, r |-> 0]]
    /\ raised = FALSE

\* apply_1q; the identity changes nothing
Gate1(gate, a) ==
    /\ ~ raised
    /\ tableau' = [i \in TableauRows |-> OnOne(gate, tableau[i], a)]
    /\ UNCHANGED raised

\* apply_2q; equal wires are refused
Gate2(gate, a, b) ==
    /\ ~ raised /\ a # b
    /\ tableau' = [i \in TableauRows |-> OnTwo(gate, tableau[i], a, b)]
    /\ UNCHANGED raised

Random(a) == ~ raised /\ Pivots(a) # {}
Deterministic(a) == ~ raised /\ Pivots(a) = {}

\* the rows before the one that raises have been multiplied
MeasureRaises(a) ==
    /\ Random(a) /\ Refused(a) # {}
    /\ raised' = TRUE
    /\ tableau' = [i \in TableauRows |->
                      IF i \in Multiplied(a) /\ i < Min(Refused(a))
                      THEN RowSum(tableau[i], tableau[Pivot(a)])
                      ELSE tableau[i]]

MeasureRandom(a, outcome) ==
    /\ Random(a) /\ Refused(a) = {}
    /\ tableau' = Collapse(a, outcome)
    /\ UNCHANGED raised

\* measure; peek_z and expectation_z read Determined(a) the same way
Measure(a) ==
    \/ MeasureRaises(a)
    \/ \E outcome \in {0, 1} : MeasureRandom(a, outcome)
    \/ Deterministic(a) /\ UNCHANGED stabilizerVars

\* reset turns the wire around when it was measured as 1
ResetTo(outcome, a, rows) ==
    IF outcome = 0 THEN rows
    ELSE [i \in TableauRows |-> XGate(rows[i], a)]

Reset(a) ==
    \/ MeasureRaises(a)
    \/ /\ Random(a) /\ Refused(a) = {}
       /\ \E outcome \in {0, 1} :
             tableau' = ResetTo(outcome, a, Collapse(a, outcome))
       /\ UNCHANGED raised
    \/ /\ Deterministic(a)
       /\ tableau' = ResetTo(Determined(a), a, tableau)
       /\ UNCHANGED raised

StabilizerNext ==
    \E a \in Wires :
        \/ \E gate \in Gates1 : Gate1(gate, a)
        \/ \E gate \in Gates2, b \in Wires : Gate2(gate, a, b)
        \/ Measure(a)
        \/ Reset(a)

StabilizerSpec == StabilizerInit /\ [][StabilizerNext]_stabilizerVars
-----------------------------------------------------------------------------
(* What the rows stand for: the operator i^k X^x Z^z, where X comes before  *)
(* Z on every wire. A factor Y is i X Z.                                    *)
Operator(row) ==
    [k |-> (2 * row.r + Cardinality(row.x \cap row.z)) % 4,
     x |-> row.x, z |-> row.z]

Multiply(p, q) ==
    [k |-> (p.k + q.k + 2 * Cardinality(p.z \cap q.x)) % 4,
     x |-> SymDiff(p.x, q.x), z |-> SymDiff(p.z, q.z)]

One == [k |-> 0, x |-> {}, z |-> {}]
Scaled(p, k) == [p EXCEPT !.k = (@ + k) % 4]
XOn(S) == [k |-> 0, x |-> S, z |-> {}]
ZOn(S) == [k |-> 0, x |-> {}, z |-> S]
YOn(a) == [k |-> 1, x |-> {a}, z |-> {a}]

Commute(p, q) ==
    (Cardinality(p.x \cap q.z) + Cardinality(p.z \cap q.x)) % 2 = 0

\* the product of f[j] for the wires j of S, in their order
Product(f, S) ==
    LET product[j \in 0..Qubits] ==
            IF j = 0 THEN One
            ELSE IF j \in S THEN Multiply(product[j - 1], f[j])
            ELSE product[j - 1]
    IN  product[Qubits]

(* The stabilizer group of a tableau.                                       *)
Group(rows) ==
    {Product([j \in Wires |-> Operator(rows[Qubits + j])], S) : S \in SUBSET Wires}

(* What a gate makes of X and Z on wire j, when it is applied to wires a, b *)
XImage(gate, a, b, j) ==
    CASE gate = "H" /\ j = a -> ZOn({a})
      [] gate = "S" /\ j = a -> YOn(a)
      [] gate = "SDG" /\ j = a -> Scaled(YOn(a), 2)
      [] gate \in {"Y", "Z"} /\ j = a -> Scaled(XOn({a}), 2)
      [] gate = "CX" /\ j = a -> XOn({a, b})
      [] gate = "CZ" /\ j = a -> Multiply(XOn({a}), ZOn({b}))
      [] gate = "CZ" /\ j = b -> Multiply(ZOn({a}), XOn({b}))
      [] gate = "SWAP" /\ j = a -> XOn({b})
      [] gate = "SWAP" /\ j = b -> XOn({a})
      [] OTHER -> XOn({j})

ZImage(gate, a, b, j) ==
    CASE gate = "H" /\ j = a -> XOn({a})
      [] gate \in {"X", "Y"} /\ j = a -> Scaled(ZOn({a}), 2)
      [] gate = "CX" /\ j = b -> ZOn({a, b})
      [] gate = "SWAP" /\ j = a -> ZOn({b})
      [] gate = "SWAP" /\ j = b -> ZOn({a})
      [] OTHER -> ZOn({j})

(* Conjugation of an operator by a gate.                                    *)
Conjugate(gate, a, b, p) ==
    Scaled(Multiply(Product([j \in Wires |-> XImage(gate, a, b, j)], p.x),
                    Product([j \in Wires |-> ZImage(gate, a, b, j)], p.z)), p.k)
-----------------------------------------------------------------------------
(* A row of the tableau anticommutes with its partner and commutes with all *)
(* others, whatever gates, measurements and resets made of it.              *)
RowsPair ==
    \A i, j \in TableauRows :
        Commute(Operator(tableau[i]), Operator(tableau[j]))
            <=> (i - j) \notin {Qubits, -Qubits}

(* The engine calls an outcome deterministic exactly when the stabilizers   *)
(* determine it, and then it is the right one.                              *)
OutcomesAreDetermined ==
    LET group == Group(tableau)
    IN  \A a \in Wires :
            LET zero == ZOn({a}) \in group
                one == Scaled(ZOn({a}), 2) \in group
            IN  IF Pivots(a) # {} THEN ~ zero /\ ~ one
                ELSE IF Determined(a) = 0 THEN zero ELSE one

(* A gate conjugates whatever operator a row can hold, with its sign.       *)
GatesConjugate ==
    \A row \in [x : SUBSET Wires, z : SUBSET Wires, r : {0, 1}], a, b \in Wires :
        /\ \A gate \in Gates1 :
              Operator(OnOne(gate, row, a)) = Conjugate(gate, a, a, Operator(row))
        /\ a # b => \A gate \in Gates2 :
              Operator(OnTwo(gate, row, a, b)) = Conjugate(gate, a, b, Operator(row))

(* A measurement at random keeps of the state what commutes with Z on its   *)
(* wire, and adds Z with the sign of the outcome; a reset adds Z.           *)
MeasurementsProject ==
    \A a \in Wires, outcome \in {0, 1} :
        Random(a) /\ Refused(a) = {} =>
            LET before == Group(tableau)
                after == Group(Collapse(a, outcome))
            IN  /\ Scaled(ZOn({a}), 2 * outcome) \in after
                /\ \A g \in before : Commute(g, ZOn({a})) => g \in after
                /\ ZOn({a}) \in Group(ResetTo(outcome, a, Collapse(a, outcome)))

(* _rowsum raises in one case only: when the destabilizer paired with the   *)
(* pivot has X on the measured wire as well.                                *)
OnlyThePartnerIsRefused ==
    \A a \in Wires : Pivots(a) # {} =>
        Refused(a) = Multiplied(a) \cap {Pivot(a) - Qubits}

(* In the deterministic branch it never raises.                             *)
ScratchNeverRaises ==
    \A a \in Wires : Pivots(a) = {} =>
        \A i \in Wires : a \in tableau[i].x =>
            ~ Raises(Scratch(a)[i - 1], tableau[Qubits + i])

(* What StabilizerEngine computes is what the quantum operations do, unless *)
(* it refuses a measurement as above.                                       *)
TableauIsExact ==
    /\ GatesConjugate
    /\ ~ raised => /\ RowsPair /\ OutcomesAreDetermined /\ MeasurementsProject
                   /\ OnlyThePartnerIsRefused /\ ScratchNeverRaises

(* PA_LCTL_MEASUREMENT_SEMANTICS.md: "`_rowsum` raises `SimulationError` if *)
(* the accumulated phase is odd, which is impossible for a well-formed      *)
(* tableau".                                                                *)
NeverRaises == ~ raised
=============================================================================
