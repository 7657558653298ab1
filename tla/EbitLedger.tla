----------------------------- MODULE EbitLedger -----------------------------
(***************************************************************************)
(* The entanglement inventory of core/reference/pacore/protocols.py and    *)
(* the three protocols that spend it: teleport, remote_cnot and            *)
(* entanglement_swap.  One process calls the ledger; what makes it hard is *)
(* the order and the epochs of the calls, and the composite protocol that  *)
(* performs several ledger calls and may raise between two of them.        *)
(*                                                                         *)
(* A call that raises and changes nothing is no step.  A call that raises  *)
(* after it changed something is an action of its own.  Amplitudes are     *)
(* abstracted away: the simulated circuits are exact, so their acceptance  *)
(* test always passes.  The provenance list is reduced to the one epoch a  *)
(* property needs, that of the consumption.                                *)
(***************************************************************************)
EXTENDS Integers, FiniteSets

CONSTANTS Nodes,        \* names of the network nodes
          Clients,      \* protocol names a caller may reserve an ebit for
          NullCell,     \* the owner of an ebit nobody has reserved
          MaxEbits,     \* bound: how many ebits are ever requested
          MaxEpoch,     \* bound: the largest epoch or expiry a caller passes
          MaxFidelity   \* fidelities are the grades 0..MaxFidelity

Protocols == {"TELEPORT", "REMOTE_CNOT", "ENTANGLEMENT_SWAP"}

ASSUME EbitAssumption ==
    /\ MaxEbits \in Nat /\ MaxEpoch \in Nat /\ MaxFidelity \in Nat
    /\ NullCell \notin Clients \cup Protocols

VARIABLES counter,   \* EbitLedger._counter
          ebit,      \* EbitLedger.records
          uses,      \* how many returned protocol reports spent each ebit
          swaps      \* the reports entanglement_swap returned

vars == <<counter, ebit, uses, swaps>>

Ids == 1..MaxEbits
Epochs == 0..MaxEpoch
Fidelities == 0..MaxFidelity
Owners == Clients \cup Protocols \cup {NullCell}

States == {"REQUESTED", "GENERATING", "HERALDED", "RESERVED",
           "CONSUMED", "EXPIRED", "FAILED", "RELEASED"}

\* EBIT_TRANSITIONS; an id that was never requested has no successor here
Admitted(s) ==
    CASE s = "REQUESTED"  -> {"GENERATING", "FAILED", "EXPIRED"}
      [] s = "GENERATING" -> {"HERALDED", "FAILED", "EXPIRED"}
      [] s = "HERALDED"   -> {"RESERVED", "CONSUMED", "RELEASED", "EXPIRED"}
      [] s = "RESERVED"   -> {"CONSUMED", "RELEASED", "EXPIRED"}
      [] OTHER            -> {}

Terminal == {s \in States : Admitted(s) = {}}
Usable == {"HERALDED", "RESERVED"}

\* never-requested ids are outside the records dictionary
Absent == [ends |-> {}, expiry |-> 0, fidelity |-> 0, owner |-> NullCell,
           state |-> "ABSENT", consumedAt |-> 0]

EbitRecord ==
    [ends : SUBSET Nodes, expiry : Epochs, fidelity : Fidelities,
     owner : Owners, state : States \cup {"ABSENT"}, consumedAt : Epochs]

Init ==
    /\ counter = 0
    /\ ebit = [i \in Ids |-> Absent]
    /\ uses = [i \in Ids |-> 0]
    /\ swaps = {}
-----------------------------------------------------------------------------
Known(i) == i <= counter
CanMove(i, s) == Known(i) /\ s \in Admitted(ebit[i].state)
Live(i, epoch) == epoch <= ebit[i].expiry

Moved(r, s) == [r EXCEPT !.state = s]
Spent(r, epoch, owner) ==
    [r EXCEPT !.state = "CONSUMED", !.owner = owner, !.consumedAt = epoch]

Requested(a, b, expiry, owner, fidelity) ==
    [ends |-> {a, b}, expiry |-> expiry, fidelity |-> fidelity,
     owner |-> owner, state |-> "REQUESTED", consumedAt |-> 0]

\* Operators named Fault... are never used by the specification: each is the
\* definition that follows it with one plausible slip, and PROJECT.json pairs it
\* with the property that catches the slip.

Request(a, b, epoch, expiry, fidelity) ==
    /\ counter < MaxEbits
    /\ a # b
    /\ expiry >= epoch
    /\ counter' = counter + 1
    /\ ebit' = [ebit EXCEPT ![counter + 1] =
                   Requested(a, b, expiry, NullCell, fidelity)]
    /\ UNCHANGED <<uses, swaps>>

Generate(i) ==
    /\ CanMove(i, "GENERATING")
    /\ ebit' = [ebit EXCEPT ![i] = Moved(@, "GENERATING")]
    /\ UNCHANGED <<counter, uses, swaps>>

\* fidelity is optional; a heralded value is stored before the transition is
\* checked, so a refused herald still overwrites the record's fidelity
Herald(i) ==
    /\ CanMove(i, "HERALDED")
    /\ ebit' = [ebit EXCEPT ![i] = Moved(@, "HERALDED")]
    /\ UNCHANGED <<counter, uses, swaps>>

HeraldWithFidelity(i, fidelity) ==
    /\ Known(i)
    /\ ebit' = [ebit EXCEPT
                  ![i].fidelity = fidelity,
                  ![i].state = IF CanMove(i, "HERALDED") THEN "HERALDED" ELSE @]
    /\ UNCHANGED <<counter, uses, swaps>>

Reserve(i, owner, epoch) ==
    /\ Known(i)
    /\ ebit[i].state = "HERALDED"
    /\ Live(i, epoch)
    /\ ebit' = [ebit EXCEPT ![i] = [Moved(@, "RESERVED") EXCEPT !.owner = owner]]
    /\ UNCHANGED <<counter, uses, swaps>>

\* consume() refuses anything but a usable ebit that is live at the epoch
Consumable(i, epoch) ==
    /\ Known(i)
    /\ ebit[i].state \in Usable
    /\ Live(i, epoch)

Consume(i, epoch, owner) ==
    /\ Consumable(i, epoch)
    /\ ebit' = [ebit EXCEPT ![i] = Spent(@, epoch, owner)]
    /\ UNCHANGED <<counter, uses, swaps>>

Release(i) ==
    /\ CanMove(i, "RELEASED")
    /\ ebit' = [ebit EXCEPT ![i] = Moved(@, "RELEASED")]
    /\ UNCHANGED <<counter, uses, swaps>>

Fail(i) ==
    /\ CanMove(i, "FAILED")
    /\ ebit' = [ebit EXCEPT ![i] = Moved(@, "FAILED")]
    /\ UNCHANGED <<counter, uses, swaps>>

ExpireOne(i) ==
    /\ CanMove(i, "EXPIRED")
    /\ ebit' = [ebit EXCEPT ![i] = Moved(@, "EXPIRED")]
    /\ UNCHANGED <<counter, uses, swaps>>

Due(i, epoch) ==
    /\ Known(i)
    /\ ebit[i].state \notin Terminal
    /\ ~Live(i, epoch)

\* expire() without an id: every non-terminal ebit past its expiry
ExpireDue(epoch) ==
    /\ \E i \in Ids : Due(i, epoch)
    /\ ebit' = [i \in Ids |-> IF Due(i, epoch) THEN Moved(ebit[i], "EXPIRED")
                                              ELSE ebit[i]]
    /\ UNCHANGED <<counter, uses, swaps>>

-----------------------------------------------------------------------------
SwapReport(inputs, output, fidelity) ==
    [inputs |-> inputs, output |-> output, fidelity |-> fidelity]

\* slip: the report is returned before the ebit is consumed
FaultSpendOne(protocol, i, epoch) ==
    /\ Consumable(i, epoch)
    /\ uses' = [uses EXCEPT ![i] = @ + 1]
    /\ UNCHANGED <<counter, ebit, swaps>>

\* teleport and remote_cnot differ in the circuit, not in what they do to the
\* ledger.  Their node arguments must be the ebit's endpoints, so they are not
\* parameters here: a call with any other nodes raises before it does anything
SpendOne(protocol, i, epoch) ==
    /\ Consumable(i, epoch)
    /\ ebit' = [ebit EXCEPT ![i] = Spent(@, epoch, protocol)]
    /\ uses' = [uses EXCEPT ![i] = @ + 1]
    /\ UNCHANGED <<counter, swaps>>

Teleport(i, epoch) == SpendOne("TELEPORT", i, epoch)
RemoteCnot(i, epoch) == SpendOne("REMOTE_CNOT", i, epoch)

Weaker(i, j) == IF ebit[i].fidelity <= ebit[j].fidelity THEN ebit[i].fidelity
                                                        ELSE ebit[j].fidelity

MiddleNode(i, j) == ebit[i].ends \cap ebit[j].ends
OuterNodes(i, j) == (ebit[i].ends \cup ebit[j].ends) \ MiddleNode(i, j)

\* slip: the endpoints of the two ebits are not compared
FaultSwapReady(ab, bc) ==
    /\ ab # bc
    /\ Known(ab) /\ ebit[ab].state \in Usable
    /\ Known(bc) /\ ebit[bc].state \in Usable

\* both inputs usable, A-B and B-C meeting at one node B with A # C, so they
\* are two ebits; entanglement_swap does not look at their expiry before it
\* starts to consume
SwapReady(ab, bc) ==
    /\ ab # bc
    /\ Known(ab) /\ ebit[ab].state \in Usable
    /\ Known(bc) /\ ebit[bc].state \in Usable
    /\ Cardinality(MiddleNode(ab, bc)) = 1

SpentBoth(ab, bc, epoch) ==
    [ebit EXCEPT ![ab] = Spent(@, epoch, "ENTANGLEMENT_SWAP"),
                 ![bc] = Spent(@, epoch, "ENTANGLEMENT_SWAP")]

\* the A-C pair is requested, generated and heralded in one call; expiry is
\* the caller's, or the sooner of the two inputs', which is one of the values
\* the caller could have passed
Swap(ab, bc, epoch, expiry) ==
    /\ SwapReady(ab, bc)
    /\ Live(ab, epoch) /\ Live(bc, epoch)
    /\ expiry >= epoch
    /\ counter < MaxEbits
    /\ counter' = counter + 1
    /\ ebit' = [SpentBoth(ab, bc, epoch) EXCEPT ![counter + 1] =
                  [ends |-> OuterNodes(ab, bc), expiry |-> expiry,
                   fidelity |-> Weaker(ab, bc), owner |-> "ENTANGLEMENT_SWAP",
                   state |-> "HERALDED", consumedAt |-> 0]]
    /\ uses' = [uses EXCEPT ![ab] = @ + 1, ![bc] = @ + 1]
    /\ swaps' = swaps \cup {SwapReport({ab, bc}, counter + 1, Weaker(ab, bc))}

\* the second input expired: the first is already consumed when consume raises
SwapSecondExpired(ab, bc, epoch) ==
    /\ SwapReady(ab, bc)
    /\ Live(ab, epoch) /\ ~Live(bc, epoch)
    /\ ebit' = [ebit EXCEPT ![ab] = Spent(@, epoch, "ENTANGLEMENT_SWAP")]
    /\ UNCHANGED <<counter, uses, swaps>>

\* the caller's expiry precedes the epoch: request raises, both inputs are gone
SwapExpiryRefused(ab, bc, epoch, expiry) ==
    /\ SwapReady(ab, bc)
    /\ Live(ab, epoch) /\ Live(bc, epoch)
    /\ expiry < epoch
    /\ ebit' = SpentBoth(ab, bc, epoch)
    /\ UNCHANGED <<counter, uses, swaps>>
-----------------------------------------------------------------------------
LifecycleStep ==
    \/ \E a, b \in Nodes, epoch, expiry \in Epochs, f \in Fidelities :
          Request(a, b, epoch, expiry, f)
    \/ \E i \in Ids : Generate(i)
    \/ \E i \in Ids : Herald(i)
    \/ \E i \in Ids, f \in Fidelities : HeraldWithFidelity(i, f)
    \/ \E i \in Ids, o \in Clients, epoch \in Epochs : Reserve(i, o, epoch)
    \/ \E i \in Ids, o \in Clients, epoch \in Epochs : Consume(i, epoch, o)
    \/ \E i \in Ids, epoch \in Epochs : Consume(i, epoch, ebit[i].owner)
    \/ \E i \in Ids : Release(i)
    \/ \E i \in Ids : Fail(i)
    \/ \E i \in Ids : ExpireOne(i)
    \/ \E epoch \in Epochs : ExpireDue(epoch)

ProtocolStep ==
    \/ \E i \in Ids, epoch \in Epochs : Teleport(i, epoch)
    \/ \E i \in Ids, epoch \in Epochs : RemoteCnot(i, epoch)
    \/ \E i, j \in Ids, epoch, expiry \in Epochs : Swap(i, j, epoch, expiry)
    \/ \E i, j \in Ids, epoch \in Epochs : SwapSecondExpired(i, j, epoch)
    \/ \E i, j \in Ids, epoch, expiry \in Epochs :
          SwapExpiryRefused(i, j, epoch, expiry)

Next == LifecycleStep \/ ProtocolStep

Spec == Init /\ [][Next]_vars
-----------------------------------------------------------------------------
TypeOK ==
    /\ counter \in 0..MaxEbits
    /\ ebit \in [Ids -> EbitRecord]
    /\ uses \in [Ids -> Nat]
    /\ swaps \subseteq [inputs : SUBSET Ids, output : Ids, fidelity : Fidelities]
    /\ \A i \in Ids : ebit[i].state = "ABSENT" <=> ~Known(i)

\* An ebit pays for at most one teleport, remote CNOT or swap, whatever the
\* callers interleave, and only an ebit the ledger holds as CONSUMED paid for
\* one: entanglement is not a copyable resource (EbitLedger.consume).
NoDoubleUse ==
    \A i \in Ids : uses[i] <= 1 /\ (uses[i] = 1 => ebit[i].state = "CONSUMED")

\* r's pair was obtained from ebits i and j, which met at one middle node
BackedBy(r, i, j) ==
    /\ r.inputs = {i, j} /\ i # j
    /\ i < r.output /\ j < r.output
    /\ uses[i] = 1 /\ ebit[i].owner = "ENTANGLEMENT_SWAP"
    /\ uses[j] = 1 /\ ebit[j].owner = "ENTANGLEMENT_SWAP"
    /\ Cardinality(MiddleNode(i, j)) = 1
    /\ ebit[r.output].ends = OuterNodes(i, j)

\* Every pair entanglement_swap heralds is backed by two distinct older ebits
\* that it consumed, that met at one middle node, and that back no other pair.
SwapConserves ==
    /\ \A r \in swaps : \E i, j \in Ids : BackedBy(r, i, j)
    /\ \A r, t \in swaps : r # t => r.inputs \cap t.inputs = {}

\* No ebit is consumed at an epoch past its expiry, by a direct consume or by
\* a protocol, whatever epochs the callers pass and in whatever order.
NoLateConsumption ==
    \A i \in Ids : ebit[i].state = "CONSUMED" => ebit[i].consumedAt <= ebit[i].expiry

\* CONSUMED, EXPIRED, FAILED and RELEASED are final: no call, refused or not,
\* brings an ebit back or hands it to another owner.
TerminalFinal ==
    [][\A i \in Ids : ebit[i].state \in Terminal =>
          ebit'[i].state = ebit[i].state /\ ebit'[i].owner = ebit[i].owner]_vars
=============================================================================
