--------------------------- MODULE ProtocolProofs ---------------------------
(***************************************************************************)
(* Theorems about the two stores of protocols.py, for every value of the   *)
(* constants.                                                              *)
(*                                                                         *)
(* EbitLedger: the invariant is the type invariant together with           *)
(* NoDoubleUse and NoLateConsumption; it is inductive, because every call  *)
(* that counts a use also makes the ebit CONSUMED, and nothing leaves      *)
(* CONSUMED.                                                               *)
(*                                                                         *)
(* ClassicalFeedback: the strengthening is Settled, what the state of a    *)
(* message says about its times and the fabric's clock.  With it, the      *)
(* causal order of messages is inductive even though a retry copies its    *)
(* dependencies unchecked: delivery times never change and the clock never *)
(* goes back, so what was checked at the first send still holds.           *)
(***************************************************************************)
EXTENDS EbitLedger, ClassicalFeedback, TLAPS

LInv == TypeOK /\ NoDoubleUse /\ NoLateConsumption

\* The constructor's empty ledger satisfies the invariant.
LEMMA InitLInv == Init => LInv
  BY EbitAssumption
  DEF Init, LInv, TypeOK, NoDoubleUse, NoLateConsumption, Absent, EbitRecord,
      Ids, Epochs, Fidelities, Owners, States, Known

\* A call that rewrites one requested record, and neither enters nor leaves
\* CONSUMED, keeps the invariant.
LEMMA RewritePreserves ==
  ASSUME LInv, NEW i \in Ids, Known(i), NEW r \in EbitRecord,
         r.state # "ABSENT",
         r.state = "CONSUMED" <=> ebit[i].state = "CONSUMED",
         r.expiry = ebit[i].expiry, r.consumedAt = ebit[i].consumedAt,
         ebit' = [ebit EXCEPT ![i] = r],
         UNCHANGED <<counter, uses, swaps>>
  PROVE  LInv'
<1>1. TypeOK'
  BY DEF LInv, TypeOK, Known
<1>2. NoDoubleUse'
  BY DEF LInv, TypeOK, NoDoubleUse
<1>3. NoLateConsumption'
  BY DEF LInv, TypeOK, NoLateConsumption
<1> QED BY <1>1, <1>2, <1>3 DEF LInv

\* A call that spends one usable ebit, live at the epoch, keeps the invariant,
\* whether or not a protocol report counts the use.
LEMMA SpendPreserves ==
  ASSUME LInv, NEW i \in Ids, NEW epoch \in Epochs, NEW owner \in Owners,
         Consumable(i, epoch),
         ebit' = [ebit EXCEPT ![i] = Spent(@, epoch, owner)],
         uses' = uses \/ uses' = [uses EXCEPT ![i] = @ + 1],
         UNCHANGED <<counter, swaps>>
  PROVE  LInv'
<1> DEFINE r == Spent(ebit[i], epoch, owner)
<1>1. r \in EbitRecord /\ r.state = "CONSUMED"
      /\ r.consumedAt = epoch /\ r.expiry = ebit[i].expiry
  BY DEF LInv, TypeOK, EbitRecord, Spent, States
<1>2. ebit' = [ebit EXCEPT ![i] = r]
  OBVIOUS
<1>3. ebit[i].state # "CONSUMED" /\ epoch <= ebit[i].expiry /\ Known(i)
  BY DEF Consumable, Usable, Live
<1> HIDE DEF r
<1>4. uses[i] = 0
  BY <1>3 DEF LInv, TypeOK, NoDoubleUse
<1>5. TypeOK'
  BY <1>1, <1>2, <1>3, <1>4 DEF LInv, TypeOK, Known
<1>6. NoDoubleUse'
  BY <1>1, <1>2, <1>4 DEF LInv, TypeOK, NoDoubleUse
<1>7. NoLateConsumption'
  BY <1>1, <1>2, <1>3 DEF LInv, TypeOK, NoLateConsumption
<1> QED BY <1>5, <1>6, <1>7 DEF LInv

\* Every lifecycle call of the ledger keeps the invariant.
LEMMA LifecyclePreserves ==
  ASSUME LInv, LifecycleStep
  PROVE  LInv'
<1> USE EbitAssumption
<1>0. \A i \in Ids : Known(i) => ebit[i].state # "ABSENT"
  BY DEF LInv, TypeOK
<1>1. ASSUME NEW a \in Nodes, NEW b \in Nodes, NEW epoch \in Epochs,
             NEW expiry \in Epochs, NEW f \in Fidelities,
             Request(a, b, epoch, expiry, f)
      PROVE  LInv'
  <2> DEFINE r == Requested(a, b, expiry, NullCell, f)
  <2>1. r \in EbitRecord /\ r.state = "REQUESTED"
    BY DEF Requested, EbitRecord, Owners, States, Epochs
  <2>2. counter + 1 \in Ids /\ counter' = counter + 1
        /\ ebit' = [ebit EXCEPT ![counter + 1] = r]
        /\ uses' = uses /\ swaps' = swaps
    BY <1>1 DEF Request, LInv, TypeOK, Ids
  <2> HIDE DEF r
  <2>3. uses[counter + 1] = 0
    BY <2>2 DEF LInv, TypeOK, NoDoubleUse, Known, Ids
  <2>4. TypeOK'
    BY <2>1, <2>2 DEF LInv, TypeOK, Known, Ids
  <2>5. NoDoubleUse'
    BY <2>1, <2>2, <2>3 DEF LInv, TypeOK, NoDoubleUse
  <2>6. NoLateConsumption'
    BY <2>1, <2>2 DEF LInv, TypeOK, NoLateConsumption
  <2> QED BY <2>4, <2>5, <2>6 DEF LInv
<1>2. ASSUME NEW i \in Ids, NEW s \in States \ {"CONSUMED"}, CanMove(i, s),
             ebit' = [ebit EXCEPT ![i] = Moved(@, s)],
             UNCHANGED <<counter, uses, swaps>>
      PROVE  LInv'
  <2> DEFINE r == Moved(ebit[i], s)
  <2>1. r \in EbitRecord /\ r.state = s
        /\ r.expiry = ebit[i].expiry /\ r.consumedAt = ebit[i].consumedAt
    BY DEF LInv, TypeOK, EbitRecord, Moved
  <2>2. ebit' = [ebit EXCEPT ![i] = r] /\ Known(i) /\ ebit[i].state # "CONSUMED"
    BY <1>2 DEF CanMove, Admitted
  <2> HIDE DEF r
  <2> QED BY <1>2, <2>1, <2>2, RewritePreserves DEF States
<1>3. ASSUME NEW i \in Ids, NEW f \in Fidelities, HeraldWithFidelity(i, f)
      PROVE  LInv'
  <2> DEFINE s == IF CanMove(i, "HERALDED") THEN "HERALDED" ELSE ebit[i].state
             r == [ebit[i] EXCEPT !.fidelity = f, !.state = s]
  <2>1. s \in States \cup {"ABSENT"} /\ (s = "CONSUMED" <=> ebit[i].state = "CONSUMED")
        /\ (ebit[i].state # "ABSENT" => s # "ABSENT")
    BY DEF CanMove, Admitted, LInv, TypeOK, EbitRecord, States
  <2>2. ebit' = [ebit EXCEPT ![i] = r]
    BY <1>3 DEF HeraldWithFidelity, LInv, TypeOK, EbitRecord
  <2> HIDE DEF s
  <2>3. r \in EbitRecord /\ r.state = s
        /\ r.expiry = ebit[i].expiry /\ r.consumedAt = ebit[i].consumedAt
    BY <2>1 DEF LInv, TypeOK, EbitRecord
  <2> HIDE DEF r
  <2>4. Known(i) /\ ebit[i].state # "ABSENT" /\ UNCHANGED <<counter, uses, swaps>>
    BY <1>3, <1>0 DEF HeraldWithFidelity
  <2> QED BY <2>1, <2>2, <2>3, <2>4, RewritePreserves
<1>4. ASSUME NEW i \in Ids, NEW o \in Clients, NEW epoch \in Epochs,
             Reserve(i, o, epoch)
      PROVE  LInv'
  <2> DEFINE r == [Moved(ebit[i], "RESERVED") EXCEPT !.owner = o]
  <2>1. r \in EbitRecord /\ r.state = "RESERVED"
        /\ r.expiry = ebit[i].expiry /\ r.consumedAt = ebit[i].consumedAt
    BY DEF LInv, TypeOK, EbitRecord, Moved, States, Owners
  <2>2. ebit' = [ebit EXCEPT ![i] = r] /\ Known(i) /\ ebit[i].state = "HERALDED"
        /\ UNCHANGED <<counter, uses, swaps>>
    BY <1>4 DEF Reserve
  <2> HIDE DEF r
  <2> QED BY <2>1, <2>2, RewritePreserves
<1>5. ASSUME NEW i \in Ids, NEW o \in Owners, NEW epoch \in Epochs,
             Consume(i, epoch, o)
      PROVE  LInv'
  BY <1>5, SpendPreserves DEF Consume
<1>6. ASSUME NEW epoch \in Epochs, ExpireDue(epoch)
      PROVE  LInv'
  <2>1. ebit' = [i \in Ids |-> IF Due(i, epoch) THEN Moved(ebit[i], "EXPIRED")
                                               ELSE ebit[i]]
        /\ UNCHANGED <<counter, uses, swaps>>
    BY <1>6 DEF ExpireDue
  <2>2. \A i \in Ids : Due(i, epoch) => Known(i) /\ ebit[i].state # "CONSUMED"
    BY DEF Due, Terminal, Admitted, States
  <2>3. \A i \in Ids : /\ Moved(ebit[i], "EXPIRED") \in EbitRecord
                       /\ Moved(ebit[i], "EXPIRED").state = "EXPIRED"
    BY DEF LInv, TypeOK, EbitRecord, Moved, States
  <2>4. \A i \in Ids :
           /\ ebit'[i] \in EbitRecord
           /\ ebit'[i].state = "ABSENT" <=> ebit[i].state = "ABSENT"
           /\ ebit[i].state = "CONSUMED" => ebit'[i] = ebit[i]
           /\ ebit'[i].state = "CONSUMED" => ebit'[i] = ebit[i]
    BY <2>1, <2>2, <2>3, <1>0 DEF LInv, TypeOK
  <2>5. TypeOK'
    BY <2>1, <2>4 DEF LInv, TypeOK, Known
  <2>6. NoDoubleUse'
    BY <2>1, <2>4 DEF LInv, TypeOK, NoDoubleUse
  <2>7. NoLateConsumption'
    BY <2>1, <2>4 DEF LInv, TypeOK, NoLateConsumption
  <2> QED BY <2>5, <2>6, <2>7 DEF LInv
<1>7. \A i \in Ids : ebit[i].owner \in Owners
  BY DEF LInv, TypeOK, EbitRecord
<1>8. Clients \subseteq Owners
  BY DEF Owners
<1>9. {"GENERATING", "HERALDED", "RELEASED", "FAILED", "EXPIRED"}
        \subseteq States \ {"CONSUMED"}
  BY DEF States
<1>10. ASSUME NEW i \in Ids,
              Generate(i) \/ Herald(i) \/ Release(i) \/ Fail(i) \/ ExpireOne(i)
       PROVE  LInv'
  BY <1>2, <1>9, <1>10 DEF Generate, Herald, Release, Fail, ExpireOne
<1> QED
  BY <1>1, <1>3, <1>4, <1>5, <1>6, <1>7, <1>8, <1>10 DEF LifecycleStep

\* Both inputs of a swap become CONSUMED, in time, and nothing else changes.
LEMMA SpentBothFacts ==
  ASSUME LInv, NEW i \in Ids, NEW j \in Ids, NEW epoch \in Epochs,
         SwapReady(i, j), Live(i, epoch), Live(j, epoch)
  PROVE  /\ uses[i] = 0 /\ uses[j] = 0
         /\ SpentBoth(i, j, epoch) \in [Ids -> EbitRecord]
         /\ \A k \in {i, j} :
              /\ SpentBoth(i, j, epoch)[k].state = "CONSUMED"
              /\ SpentBoth(i, j, epoch)[k].owner = "ENTANGLEMENT_SWAP"
              /\ SpentBoth(i, j, epoch)[k].ends = ebit[k].ends
              /\ SpentBoth(i, j, epoch)[k].consumedAt
                   <= SpentBoth(i, j, epoch)[k].expiry
         /\ \A k \in Ids \ {i, j} : SpentBoth(i, j, epoch)[k] = ebit[k]
<1>1. \A k \in Ids :
         LET r == Spent(ebit[k], epoch, "ENTANGLEMENT_SWAP")
         IN  /\ r \in EbitRecord
             /\ r.state = "CONSUMED" /\ r.owner = "ENTANGLEMENT_SWAP"
             /\ r.ends = ebit[k].ends
             /\ r.consumedAt = epoch /\ r.expiry = ebit[k].expiry
  BY DEF LInv, TypeOK, EbitRecord, Spent, States, Owners, Protocols
<1>2. uses[i] = 0 /\ uses[j] = 0
  BY DEF SwapReady, Usable, LInv, TypeOK, NoDoubleUse
<1>3. i # j
  BY DEF SwapReady
<1> QED
  BY <1>1, <1>2, <1>3 DEF SpentBoth, LInv, TypeOK, Live

\* Every outcome of the three protocols keeps the invariant.
LEMMA ProtocolPreserves ==
  ASSUME LInv, ProtocolStep
  PROVE  LInv'
<1> USE EbitAssumption
<1>0. Protocols \subseteq Owners
  BY DEF Owners
<1>1. ASSUME NEW i \in Ids, NEW epoch \in Epochs, NEW p \in Protocols,
             SpendOne(p, i, epoch)
      PROVE  LInv'
  BY <1>1, <1>0, SpendPreserves DEF SpendOne
<1>2. ASSUME NEW i \in Ids, NEW j \in Ids, NEW epoch \in Epochs,
             NEW expiry \in Epochs, Swap(i, j, epoch, expiry)
      PROVE  LInv'
  <2> DEFINE S == SpentBoth(i, j, epoch)
             n == counter + 1
             r == [ends |-> OuterNodes(i, j), expiry |-> expiry,
                   fidelity |-> Weaker(i, j), owner |-> "ENTANGLEMENT_SWAP",
                   state |-> "HERALDED", consumedAt |-> 0]
  <2>1. /\ SwapReady(i, j) /\ Live(i, epoch) /\ Live(j, epoch)
        /\ n \in Ids /\ counter' = n /\ n # i /\ n # j
        /\ ebit' = [S EXCEPT ![n] = r]
        /\ uses' = [uses EXCEPT ![i] = @ + 1, ![j] = @ + 1]
        /\ swaps' = swaps \cup {SwapReport({i, j}, n, Weaker(i, j))}
    BY <1>2 DEF Swap, SwapReady, Known, LInv, TypeOK, Ids
  <2>2. Weaker(i, j) \in Fidelities
    BY DEF Weaker, LInv, TypeOK, EbitRecord
  <2>3. OuterNodes(i, j) \in SUBSET Nodes
    BY DEF OuterNodes, LInv, TypeOK, EbitRecord
  <2>4. r \in EbitRecord /\ r.state = "HERALDED"
    BY <2>2, <2>3, <1>0 DEF EbitRecord, States, Epochs, Protocols
  <2>5. /\ uses[i] = 0 /\ uses[j] = 0
        /\ S \in [Ids -> EbitRecord]
        /\ \A k \in {i, j} : /\ S[k].state = "CONSUMED"
                             /\ S[k].consumedAt <= S[k].expiry
        /\ \A k \in Ids \ {i, j} : S[k] = ebit[k]
    BY <2>1, SpentBothFacts
  <2>6. ~Known(n) /\ counter \in Int
    BY DEF LInv, TypeOK, Known
  <2>11. uses[n] = 0
    BY <2>1, <2>6 DEF LInv, TypeOK, NoDoubleUse
  <2>7. SwapReport({i, j}, n, Weaker(i, j))
           \in [inputs : SUBSET Ids, output : Ids, fidelity : Fidelities]
    BY <2>1, <2>2 DEF SwapReport
  <2> HIDE DEF S, r
  <2>8. TypeOK'
    <3>1. uses' \in [Ids -> Nat]
      BY <2>1, <2>5 DEF LInv, TypeOK
    <3>2. ebit' \in [Ids -> EbitRecord]
      BY <2>1, <2>4, <2>5
    <3>3. counter' \in 0..MaxEbits
      BY <2>1, <2>6 DEF Ids
    <3>4. \A k \in Ids : ebit'[k].state = "ABSENT" <=> ~Known(k)'
      <4>1. Known(i) /\ Known(j)
        BY <2>1 DEF SwapReady
      <4>2. ASSUME NEW k \in Ids PROVE Known(k)' <=> Known(k) \/ k = n
        BY <2>1, <2>6 DEF Known, Ids
      <4> QED BY <2>1, <2>4, <2>5, <2>6, <4>1, <4>2 DEF LInv, TypeOK
    <3>5. swaps' \subseteq [inputs : SUBSET Ids, output : Ids, fidelity : Fidelities]
      BY <2>1, <2>7 DEF LInv, TypeOK
    <3> QED BY <3>1, <3>2, <3>3, <3>4, <3>5 DEF TypeOK
  <2>9. NoDoubleUse'
    BY <2>1, <2>4, <2>5, <2>11 DEF LInv, TypeOK, NoDoubleUse, SwapReady
  <2>10. NoLateConsumption'
    BY <2>1, <2>4, <2>5 DEF LInv, TypeOK, NoLateConsumption
  <2> QED BY <2>8, <2>9, <2>10 DEF LInv
<1>3. ASSUME NEW i \in Ids, NEW j \in Ids, NEW epoch \in Epochs,
             SwapSecondExpired(i, j, epoch)
      PROVE  LInv'
  <2>1. Consumable(i, epoch)
    BY <1>3 DEF SwapSecondExpired, SwapReady, Consumable
  <2> QED BY <1>0, <1>3, <2>1, SpendPreserves DEF SwapSecondExpired, Protocols
<1>4. ASSUME NEW i \in Ids, NEW j \in Ids, NEW epoch \in Epochs,
             NEW expiry \in Epochs, SwapExpiryRefused(i, j, epoch, expiry)
      PROVE  LInv'
  <2> DEFINE S == SpentBoth(i, j, epoch)
  <2>1. /\ SwapReady(i, j) /\ Live(i, epoch) /\ Live(j, epoch)
        /\ ebit' = S /\ UNCHANGED <<counter, uses, swaps>>
    BY <1>4 DEF SwapExpiryRefused
  <2>2. /\ uses[i] = 0 /\ uses[j] = 0
        /\ S \in [Ids -> EbitRecord]
        /\ \A k \in {i, j} : /\ S[k].state = "CONSUMED"
                             /\ S[k].consumedAt <= S[k].expiry
        /\ \A k \in Ids \ {i, j} : S[k] = ebit[k]
    BY <2>1, SpentBothFacts
  <2> HIDE DEF S
  <2>3. TypeOK'
    BY <2>1, <2>2 DEF LInv, TypeOK, Known, SwapReady
  <2>4. NoDoubleUse'
    BY <2>1, <2>2 DEF LInv, TypeOK, NoDoubleUse
  <2>5. NoLateConsumption'
    BY <2>1, <2>2 DEF LInv, TypeOK, NoLateConsumption
  <2> QED BY <2>3, <2>4, <2>5 DEF LInv
<1> QED
  BY <1>1, <1>2, <1>3, <1>4 DEF ProtocolStep, Teleport, RemoteCnot, Protocols

\* The invariant is inductive.
LEMMA NextLInv == LInv /\ [Next]_vars => LInv'
<1>1. CASE UNCHANGED vars
  BY <1>1 DEF vars, LInv, TypeOK, NoDoubleUse, NoLateConsumption, Known
<1>2. CASE Next
  BY <1>2, LifecyclePreserves, ProtocolPreserves DEF Next
<1> QED BY <1>1, <1>2

\* Type correctness of the ledger for every instance.
THEOREM TypeCorrect == Spec => []TypeOK
<1>1. LInv => TypeOK
  BY DEF LInv
<1> QED BY <1>1, InitLInv, NextLInv, PTL DEF Spec

\* For every number of ebits, nodes, clients and epochs, and every order of
\* calls, no ebit pays for two protocol runs (EbitLedger.consume refuses the
\* second, and every protocol goes through it).
THEOREM SingleUse == Spec => []NoDoubleUse
<1>1. LInv => NoDoubleUse
  BY DEF LInv
<1> QED BY <1>1, InitLInv, NextLInv, PTL DEF Spec

\* For every instance, no ebit is consumed at an epoch past its expiry.
THEOREM InTime == Spec => []NoLateConsumption
<1>1. LInv => NoLateConsumption
  BY DEF LInv
<1> QED BY <1>1, InitLInv, NextLInv, PTL DEF Spec

\* One step never changes a terminal ebit's state or owner.
LEMMA TerminalStep ==
  ASSUME LInv, Next, NEW i \in Ids, ebit[i].state \in Terminal
  PROVE  ebit'[i].state = ebit[i].state /\ ebit'[i].owner = ebit[i].owner
<1> USE EbitAssumption
<1>1. /\ ebit[i].state \notin Usable
      /\ Known(i)
      /\ \A s : ~CanMove(i, s)
  BY DEF Terminal, Admitted, Usable, CanMove, LInv, TypeOK, States
<1>2. ebit \in [Ids -> EbitRecord] /\ counter \in Int /\ counter + 1 # i
  BY <1>1 DEF LInv, TypeOK, Known
<1>4. CASE LifecycleStep
  <2>1. ASSUME NEW a \in Nodes, NEW b \in Nodes, NEW epoch \in Epochs,
               NEW expiry \in Epochs, NEW f \in Fidelities,
               Request(a, b, epoch, expiry, f)
        PROVE  ebit'[i] = ebit[i]
    BY <2>1, <1>2 DEF Request
  <2>2. ASSUME NEW k \in Ids,
               \/ Generate(k) \/ Herald(k) \/ Release(k) \/ Fail(k) \/ ExpireOne(k)
               \/ \E o \in Clients, epoch \in Epochs : Reserve(k, o, epoch)
               \/ \E o \in Owners, epoch \in Epochs : Consume(k, epoch, o)
        PROVE  ebit'[i] = ebit[i]
    BY <2>2, <1>1, <1>2
    DEF Generate, Herald, Release, Fail, ExpireOne, Reserve, Consume, Consumable, Usable
  <2>3. ASSUME NEW k \in Ids, NEW f \in Fidelities, HeraldWithFidelity(k, f)
        PROVE  ebit'[i].state = ebit[i].state /\ ebit'[i].owner = ebit[i].owner
    <3>1. CASE k # i
      BY <3>1, <2>3, <1>2 DEF HeraldWithFidelity
    <3>2. CASE k = i
      BY <3>2, <2>3, <1>1, <1>2 DEF HeraldWithFidelity, EbitRecord
    <3> QED BY <3>1, <3>2
  <2>4. ASSUME NEW epoch \in Epochs, ExpireDue(epoch)
        PROVE  ebit'[i] = ebit[i]
    BY <2>4, <1>2 DEF ExpireDue, Due
  <2>5. \A k \in Ids : ebit[k].owner \in Owners
    BY <1>2 DEF EbitRecord
  <2>6. Clients \subseteq Owners
    BY DEF Owners
  <2> QED BY <1>4, <2>1, <2>2, <2>3, <2>4, <2>5, <2>6 DEF LifecycleStep
<1>5. CASE ProtocolStep
  <2>1. ASSUME NEW k \in Ids, NEW p, NEW epoch \in Epochs, SpendOne(p, k, epoch)
        PROVE  ebit'[i] = ebit[i]
    BY <2>1, <1>1, <1>2 DEF SpendOne, Consumable
  <2>2. ASSUME NEW k \in Ids, NEW l \in Ids, NEW epoch \in Epochs,
               \/ SwapSecondExpired(k, l, epoch)
               \/ \E expiry \in Epochs : SwapExpiryRefused(k, l, epoch, expiry)
               \/ \E expiry \in Epochs : Swap(k, l, epoch, expiry)
        PROVE  ebit'[i] = ebit[i]
    <3>1. SwapReady(k, l)
      BY <2>2 DEF SwapSecondExpired, SwapExpiryRefused, Swap
    <3>2. k # i /\ l # i
      BY <3>1, <1>1 DEF SwapReady
    <3> QED BY <2>2, <3>2, <1>2 DEF SwapSecondExpired, SwapExpiryRefused, Swap, SpentBoth
  <2> QED BY <1>5, <2>1, <2>2 DEF ProtocolStep, Teleport, RemoteCnot
<1> QED BY <1>4, <1>5 DEF Next

\* For every instance and every order of calls, the four end states are final:
\* no later call brings an ebit back or changes who it was spent by.
THEOREM EndsAreFinal == Spec => TerminalFinal
<1>1. LInv /\ [Next]_vars =>
        [\A i \in Ids : ebit[i].state \in Terminal =>
            ebit'[i].state = ebit[i].state /\ ebit'[i].owner = ebit[i].owner]_vars
  BY TerminalStep
<1> QED BY <1>1, InitLInv, NextLInv, PTL DEF Spec, TerminalFinal

\* A step never changes the endpoints of a requested ebit, forgets an ebit, or
\* takes back a counted use.
LEMMA MonotoneStep ==
  ASSUME LInv, Next, NEW i \in Ids, Known(i)
  PROVE  ebit'[i].ends = ebit[i].ends /\ Known(i)' /\ uses'[i] >= uses[i]
<1> USE EbitAssumption
<1>1. /\ ebit \in [Ids -> EbitRecord] /\ uses \in [Ids -> Nat]
      /\ i \in Int /\ counter \in Int /\ i <= counter
  BY DEF LInv, TypeOK, Known, Ids
<1>2. \A k \in Ids : \A s, o, e :
         /\ Moved(ebit[k], s).ends = ebit[k].ends
         /\ [Moved(ebit[k], s) EXCEPT !.owner = o].ends = ebit[k].ends
         /\ Spent(ebit[k], e, o).ends = ebit[k].ends
  BY <1>1 DEF Moved, Spent, EbitRecord
<1>3. CASE LifecycleStep
  <2>1. ASSUME NEW a \in Nodes, NEW b \in Nodes, NEW epoch \in Epochs,
               NEW expiry \in Epochs, NEW f \in Fidelities,
               Request(a, b, epoch, expiry, f)
        PROVE  ebit'[i] = ebit[i] /\ uses' = uses /\ Known(i)'
    BY <2>1, <1>1 DEF Request, Known
  <2>2. ASSUME NEW k \in Ids, NEW s, ebit' = [ebit EXCEPT ![k] = Moved(@, s)],
               UNCHANGED <<counter, uses, swaps>>
        PROVE  ebit'[i].ends = ebit[i].ends /\ uses' = uses /\ Known(i)'
    BY <2>2, <1>1, <1>2 DEF Known
  <2>8. ASSUME NEW k \in Ids, NEW o, NEW epoch,
               Reserve(k, o, epoch) \/ Consume(k, epoch, o)
        PROVE  ebit'[i].ends = ebit[i].ends /\ uses' = uses /\ Known(i)'
    <3>1. CASE Reserve(k, o, epoch)
      BY <3>1, <1>1, <1>2 DEF Reserve, Known
    <3>2. CASE Consume(k, epoch, o)
      BY <3>2, <1>1, <1>2 DEF Consume, Known
    <3> QED BY <2>8, <3>1, <3>2
  <2>3. ASSUME NEW k \in Ids, NEW f \in Fidelities, HeraldWithFidelity(k, f)
        PROVE  ebit'[i].ends = ebit[i].ends /\ uses' = uses /\ Known(i)'
    BY <2>3, <1>1 DEF HeraldWithFidelity, EbitRecord, Known
  <2>4. ASSUME NEW epoch \in Epochs, ExpireDue(epoch)
        PROVE  ebit'[i].ends = ebit[i].ends /\ uses' = uses /\ Known(i)'
    BY <2>4, <1>1, <1>2 DEF ExpireDue, Known
  <2>5. \A k \in Ids : ebit[k].owner \in Owners
    BY <1>1 DEF EbitRecord
  <2>6. Clients \subseteq Owners
    BY DEF Owners
  <2>7. ebit'[i].ends = ebit[i].ends /\ uses' = uses /\ Known(i)'
    BY <1>3, <2>1, <2>2, <2>8, <2>3, <2>4, <2>5, <2>6
    DEF LifecycleStep, Generate, Herald, Release, Fail, ExpireOne
  <2> QED BY <2>7, <1>1
<1>4. CASE ProtocolStep
  <2>1. ASSUME NEW k \in Ids, NEW p, NEW epoch \in Epochs, SpendOne(p, k, epoch)
        PROVE  ebit'[i].ends = ebit[i].ends /\ Known(i)' /\ uses'[i] >= uses[i]
    BY <2>1, <1>1, <1>2 DEF SpendOne, Known
  <2>2. ASSUME NEW k \in Ids, NEW l \in Ids, NEW epoch \in Epochs,
               \/ SwapSecondExpired(k, l, epoch)
               \/ \E expiry \in Epochs : SwapExpiryRefused(k, l, epoch, expiry)
        PROVE  ebit'[i].ends = ebit[i].ends /\ Known(i)' /\ uses' = uses
    <3>1. CASE SwapSecondExpired(k, l, epoch)
      BY <3>1, <1>1, <1>2 DEF SwapSecondExpired, Known
    <3>2. ASSUME NEW expiry \in Epochs, SwapExpiryRefused(k, l, epoch, expiry)
          PROVE  ebit'[i].ends = ebit[i].ends /\ Known(i)' /\ uses' = uses
      <4>1. SpentBoth(k, l, epoch)[i].ends = ebit[i].ends
        BY <1>1, <1>2, <3>2 DEF SpentBoth, SwapExpiryRefused, SwapReady
      <4> QED BY <3>2, <4>1, <1>1 DEF SwapExpiryRefused, Known
    <3> QED BY <2>2, <3>1, <3>2
  <2>3. ASSUME NEW k \in Ids, NEW l \in Ids, NEW epoch \in Epochs,
               NEW expiry \in Epochs, Swap(k, l, epoch, expiry)
        PROVE  ebit'[i].ends = ebit[i].ends /\ Known(i)' /\ uses'[i] >= uses[i]
    <3>1. SpentBoth(k, l, epoch)[i].ends = ebit[i].ends
      BY <1>1, <1>2, <2>3 DEF SpentBoth, Swap, SwapReady
    <3>2. ebit'[i] = SpentBoth(k, l, epoch)[i]
      BY <2>3, <1>1 DEF Swap, SpentBoth
    <3> QED BY <2>3, <3>1, <3>2, <1>1 DEF Swap, Known
  <2>4. uses' = uses => uses'[i] >= uses[i]
    BY <1>1
  <2> QED BY <1>4, <2>1, <2>2, <2>3, <2>4 DEF ProtocolStep, Teleport, RemoteCnot
<1> QED BY <1>3, <1>4 DEF Next

\* The inductive invariant for swaps: a swapped pair is also a requested one.
SInv == LInv /\ SwapConserves /\ \A r \in swaps : Known(r.output)

\* Backing survives every step: used ebits keep owner and endpoints.
LEMMA BackingStable ==
  ASSUME LInv, LInv', Next, NEW r \in swaps, Known(r.output),
         NEW i \in Ids, NEW j \in Ids, BackedBy(r, i, j)
  PROVE  BackedBy(r, i, j)' /\ Known(r.output)'
<1>1. r.output \in Ids
  BY DEF LInv, TypeOK
<1>2. ASSUME NEW k \in {i, j}
      PROVE  /\ uses'[k] = 1 /\ ebit'[k].ends = ebit[k].ends
             /\ ebit'[k].owner = ebit[k].owner
  <2>1. k \in Ids /\ uses[k] = 1 /\ ebit[k].state = "CONSUMED"
    BY DEF BackedBy, LInv, NoDoubleUse
  <2>2. Known(k) /\ ebit[k].state \in Terminal
    BY <2>1 DEF LInv, TypeOK, Terminal, Admitted, States
  <2>3. uses'[k] >= 1 /\ uses'[k] <= 1 /\ uses'[k] \in Nat
    BY <2>1, <2>2, MonotoneStep DEF LInv, NoDoubleUse, TypeOK
  <2> QED BY <2>1, <2>2, <2>3, MonotoneStep, TerminalStep
<1>3. ebit'[r.output].ends = ebit[r.output].ends /\ Known(r.output)'
  BY <1>1, MonotoneStep
<1> QED BY <1>2, <1>3 DEF BackedBy, MiddleNode, OuterNodes

\* A new report of entanglement_swap is backed by ebits no earlier report used.
LEMMA SwapBacks ==
  ASSUME SInv, NEW i \in Ids, NEW j \in Ids, NEW epoch \in Epochs,
         NEW expiry \in Epochs, Swap(i, j, epoch, expiry),
         NEW r, r = SwapReport({i, j}, counter + 1, Weaker(i, j))
  PROVE  /\ swaps' = swaps \cup {r} /\ r.inputs = {i, j}
         /\ BackedBy(r, i, j)' /\ Known(r.output)'
         /\ \A t \in swaps : t.inputs \cap {i, j} = {}
<1> USE EbitAssumption
<1> DEFINE S == SpentBoth(i, j, epoch)
<1>1. /\ SwapReady(i, j) /\ Live(i, epoch) /\ Live(j, epoch) /\ i # j
      /\ counter + 1 \in Ids /\ counter' = counter + 1
      /\ i < counter + 1 /\ j < counter + 1
      /\ swaps' = swaps \cup {r}
      /\ uses' = [uses EXCEPT ![i] = @ + 1, ![j] = @ + 1]
  BY DEF Swap, SwapReady, Known, SInv, LInv, TypeOK, Ids
<1>2. /\ uses[i] = 0 /\ uses[j] = 0 /\ S \in [Ids -> EbitRecord]
      /\ \A k \in {i, j} : S[k].owner = "ENTANGLEMENT_SWAP" /\ S[k].ends = ebit[k].ends
  BY <1>1, SpentBothFacts DEF SInv
<1>3. /\ ebit'[i] = S[i] /\ ebit'[j] = S[j]
      /\ ebit'[counter + 1].ends = OuterNodes(i, j)
  <2>1. counter + 1 # i /\ counter + 1 # j
    BY <1>1 DEF Ids
  <2> DEFINE q == [ends |-> OuterNodes(i, j), expiry |-> expiry,
                   fidelity |-> Weaker(i, j), owner |-> "ENTANGLEMENT_SWAP",
                   state |-> "HERALDED", consumedAt |-> 0]
  <2>2. ebit' = [S EXCEPT ![counter + 1] = q] /\ q.ends = OuterNodes(i, j)
    BY DEF Swap
  <2> HIDE DEF q, S
  <2> QED BY <1>1, <1>2, <2>1, <2>2
<1>4. uses'[i] = 1 /\ uses'[j] = 1
  BY <1>1, <1>2 DEF SInv, LInv, TypeOK
<1>5. MiddleNode(i, j)' = MiddleNode(i, j) /\ OuterNodes(i, j)' = OuterNodes(i, j)
  BY <1>2, <1>3 DEF MiddleNode, OuterNodes
<1>6. \A t \in swaps : t.inputs \cap {i, j} = {}
  BY <1>2 DEF SInv, SwapConserves, BackedBy
<1>7. r.inputs = {i, j} /\ r.output = counter + 1
  BY DEF SwapReport
<1>8. BackedBy(r, i, j)'
  <2>1. Cardinality(MiddleNode(i, j)) = 1
    BY <1>1 DEF SwapReady
  <2>2. ebit'[i].owner = "ENTANGLEMENT_SWAP" /\ ebit'[j].owner = "ENTANGLEMENT_SWAP"
    BY <1>2, <1>3
  <2> HIDE DEF S
  <2> QED BY <1>1, <2>1, <2>2, <1>3, <1>4, <1>5, <1>7 DEF BackedBy
<1>9. Known(r.output)'
  BY <1>1, <1>7 DEF Known, Ids
<1> QED BY <1>1, <1>6, <1>7, <1>8, <1>9

\* Every step keeps the invariant of the swaps.
LEMMA NextSInv == SInv /\ [Next]_vars => SInv'
<1> SUFFICES ASSUME SInv, [Next]_vars PROVE SInv'
  OBVIOUS
<1>1. LInv'
  BY NextLInv DEF SInv
<1>2. CASE UNCHANGED vars
  BY <1>1, <1>2 DEF vars, SInv, SwapConserves, BackedBy, MiddleNode, OuterNodes, Known
<1>3. CASE Next
  <2>1. \A r \in swaps : (\E i, j \in Ids : BackedBy(r, i, j)') /\ Known(r.output)'
    BY <1>1, <1>3, BackingStable DEF SInv, SwapConserves
  <2>2. CASE swaps' = swaps
    BY <1>1, <2>1, <2>2 DEF SInv, SwapConserves
  <2>3. ASSUME NEW i \in Ids, NEW j \in Ids, NEW epoch \in Epochs,
               NEW expiry \in Epochs, Swap(i, j, epoch, expiry)
        PROVE  SInv'
    <3>0. PICK r : r = SwapReport({i, j}, counter + 1, Weaker(i, j))
      OBVIOUS
    <3>1. /\ swaps' = swaps \cup {r} /\ r.inputs = {i, j}
          /\ BackedBy(r, i, j)' /\ Known(r.output)'
          /\ \A t \in swaps : t.inputs \cap {i, j} = {}
      BY <2>3, <3>0, SwapBacks
    <3>2. \A t \in swaps' : (\E k, l \in Ids : BackedBy(t, k, l)') /\ Known(t.output)'
      BY <2>1, <3>1
    <3>3. \A t, u \in swaps' : t # u => t.inputs \cap u.inputs = {}
      BY <3>1 DEF SInv, SwapConserves
    <3> QED BY <1>1, <3>2, <3>3 DEF SInv, SwapConserves
  <2>4. swaps' = swaps \/ \E i, j \in Ids, epoch, expiry \in Epochs :
                             Swap(i, j, epoch, expiry)
    BY <1>3
    DEF Next, LifecycleStep, ProtocolStep, Request, Generate, Herald,
        HeraldWithFidelity, Reserve, Consume, Release, Fail, ExpireOne, ExpireDue,
        Teleport, RemoteCnot, SpendOne, SwapSecondExpired, SwapExpiryRefused
  <2> QED BY <2>2, <2>3, <2>4
<1> QED BY <1>2, <1>3

\* For every instance: a pair heralded by entanglement_swap is always backed by
\* two consumed ebits of its own, even though a swap may fail half way.
THEOREM SwapsAreBacked == Spec => []SwapConserves
<1>1. Init => SInv
  BY InitLInv DEF SInv, SwapConserves, Init
<1>2. SInv => SwapConserves
  BY DEF SInv
<1> QED BY <1>1, <1>2, NextSInv, PTL DEF Spec
-----------------------------------------------------------------------------
\* A delivered message arrived in time and in the past of the clock; a message
\* given up has outlived its timeout; a message in flight has no delivery time.
Settled ==
    \A i \in Messages :
        /\ message[i].state \in MessageStates
        /\ message[i].state \in {"SENT", "TIMED_OUT"} =>
               message[i].deliverTime = Never
        /\ message[i].state = "DELIVERED" => message[i].deliverTime # Never
        /\ message[i].state = "TIMED_OUT" =>
               message[i].sendTime + Timeout <= clock
        /\ message[i].deliverTime # Never =>
               /\ message[i].deliverTime <= clock
               /\ ArrivalTime(message[i]) <= message[i].deliverTime
               /\ message[i].latency <= Timeout

\* No correction has waited for a message that does not exist yet.
GatesAreKnown == \A i \in MessageIds : ~ IsSent(i) => gate[i] = Never

Ordered == CausalTimes /\ RetriesFollowTimeouts
FInv == FeedbackTypeOK /\ Settled /\ GatesAreKnown /\ Ordered /\ CorrectionsFollowBits

\* The fabric starts with no message.
LEMMA InitFInv == FeedbackInit => FInv
  BY FeedbackAssumption
  DEF FeedbackInit, FInv, FeedbackTypeOK, Settled, GatesAreKnown, Ordered, CausalTimes,
      RetriesFollowTimeouts, CorrectionsFollowBits, Messages, Unsent,
      MessageRecord, MessageStates, MessageIds, Never, NoMessage

\* Settling one message - delivering it, giving it up or dropping it - keeps
\* the invariant, whatever the clock advances to.
LEMMA SettlePreserves ==
  ASSUME FInv, NEW i \in Messages, NEW r \in MessageRecord,
         r.state \in {"DELIVERED", "TIMED_OUT", "DROPPED"},
         r.sendTime = message[i].sendTime, r.latency = message[i].latency,
         r.attempts = message[i].attempts, r.retryOf = message[i].retryOf,
         r.dependsOn = message[i].dependsOn,
         \/ r.deliverTime = message[i].deliverTime /\ r.state # "DELIVERED"
         \/ /\ message[i].state = "SENT"
            /\ r.deliverTime = clock' /\ ArrivalTime(r) <= clock'
            /\ r.latency <= Timeout /\ r.state = "DELIVERED",
         r.state = "TIMED_OUT" =>
             message[i].state = "SENT" /\ r.sendTime + Timeout <= clock',
         clock' \in Nat, clock <= clock',
         message' = [message EXCEPT ![i] = r],
         UNCHANGED <<sent, declared, gate>>
  PROVE  FInv'
<1> USE FeedbackAssumption DEF FInv, Messages
<1>0. i \in MessageIds /\ \A j \in Messages : j \in MessageIds /\ message[j] \in MessageRecord
  BY DEF FeedbackTypeOK, MessageIds
<1>1. FeedbackTypeOK'
  BY <1>0 DEF FeedbackTypeOK
<1>2. \A j \in MessageIds : message'[j] = IF j = i THEN r ELSE message[j]
  BY <1>0 DEF FeedbackTypeOK
<1>3. Settled'
  BY <1>0, <1>1, <1>2
  DEF Settled, MessageStates, MessageRecord, FeedbackTypeOK, ArrivalTime, Never
<1>4. \A j \in Messages :
        /\ message'[j].sendTime = message[j].sendTime
        /\ message'[j].latency = message[j].latency
        /\ message'[j].attempts = message[j].attempts
        /\ message'[j].retryOf = message[j].retryOf
        /\ message'[j].dependsOn = message[j].dependsOn
        /\ message[j].deliverTime # Never =>
               message'[j].deliverTime = message[j].deliverTime
        /\ message[j].state \in {"TIMED_OUT", "DROPPED"} =>
               /\ message'[j].state \in {"TIMED_OUT", "DROPPED"}
               /\ message'[j].deliverTime = message[j].deliverTime
  BY <1>0, <1>2 DEF Settled, MessageStates
<1>5. CausalTimes'
  <2> SUFFICES ASSUME NEW j \in Messages, NEW d \in message[j].dependsOn
               PROVE  /\ d < j
                      /\ message'[d].deliverTime # Never
                      /\ message'[d].deliverTime <= message[j].sendTime
    BY <1>4 DEF CausalTimes
  <2>1. d < j /\ message[d].deliverTime # Never
        /\ message[d].deliverTime <= message[j].sendTime
    BY DEF Ordered, CausalTimes
  <2>2. d \in Messages
    BY <1>0, <2>1 DEF FeedbackTypeOK, MessageRecord, MessageIds
  <2> QED BY <1>4, <2>1, <2>2
<1>6. RetriesFollowTimeouts'
  <2> SUFFICES ASSUME NEW j \in Messages, message[j].retryOf # NoMessage,
                      NEW o, o = message[j].retryOf
               PROVE  /\ o < j
                      /\ message'[o].state \in {"TIMED_OUT", "DROPPED"}
                      /\ message'[o].deliverTime = Never
                      /\ message'[o].sendTime + Timeout <= message[j].sendTime
                      /\ message[j].attempts = message'[o].attempts + 1
                      /\ message[j].attempts <= MaxRetries + 1
    BY <1>4 DEF Ordered, RetriesFollowTimeouts
  <2>1. /\ o < j
        /\ message[o].state \in {"TIMED_OUT", "DROPPED"}
        /\ message[o].deliverTime = Never
        /\ message[o].sendTime + Timeout <= message[j].sendTime
        /\ message[j].attempts = message[o].attempts + 1
        /\ message[j].attempts <= MaxRetries + 1
    BY DEF Ordered, RetriesFollowTimeouts
  <2>2. o \in Messages
    BY <1>0, <2>1 DEF FeedbackTypeOK, MessageRecord, MessageIds, NoMessage
  <2> QED BY <1>4, <2>1, <2>2
<1>7. CorrectionsFollowBits'
  <2> SUFFICES ASSUME NEW j \in Messages, gate[j] # Never
               PROVE  /\ gate[j] >= ArrivalTime(message'[j])
                      /\ message'[j].latency <= Timeout
                      /\ \A d \in message'[j].dependsOn :
                            gate[j] >= ArrivalTime(message'[d])
    BY DEF CorrectionsFollowBits
  <2>1. /\ gate[j] >= ArrivalTime(message[j])
        /\ message[j].latency <= Timeout
        /\ \A d \in message[j].dependsOn : gate[j] >= ArrivalTime(message[d])
    BY DEF CorrectionsFollowBits
  <2>2. \A d \in message[j].dependsOn : d \in Messages
    BY <1>0 DEF FeedbackTypeOK, MessageRecord, MessageIds, Ordered, CausalTimes
  <2> QED BY <1>4, <2>1, <2>2 DEF ArrivalTime
<1>8. GatesAreKnown'
  BY DEF GatesAreKnown, IsSent
<1> QED BY <1>1, <1>3, <1>5, <1>6, <1>7, <1>8 DEF Ordered

\* A new message keeps the invariant when its dependencies were delivered by
\* the time it is sent, and what it retries was given up by then.
LEMMA AddPreserves ==
  ASSUME FInv, NEW m \in MessageRecord, m.state = "SENT",
         m.deliverTime = Never, Add(m),
         \A d \in m.dependsOn :
             /\ d \in Messages /\ message[d].deliverTime # Never
             /\ message[d].deliverTime <= m.sendTime,
         IF m.retryOf = NoMessage
         THEN m.attempts = 1
         ELSE /\ m.retryOf \in Messages
              /\ message[m.retryOf].state = "TIMED_OUT"
              /\ message[m.retryOf].sendTime + Timeout <= m.sendTime
              /\ m.attempts = message[m.retryOf].attempts + 1
              /\ m.attempts <= MaxRetries + 1,
         UNCHANGED <<clock, declared, gate>>
  PROVE  FInv'
<1> USE FeedbackAssumption DEF FInv, Messages
<1>0. /\ sent \in Nat /\ sent + 1 \in MessageIds /\ sent' = sent + 1
      /\ \A j \in Messages : j \in MessageIds /\ j # sent + 1 /\ message[j] \in MessageRecord
  BY DEF FeedbackTypeOK, MessageIds, Add
<1>1. FeedbackTypeOK'
  BY <1>0 DEF FeedbackTypeOK, Add, MessageIds
<1>2. /\ \A j \in Messages : message'[j] = message[j]
      /\ message'[sent + 1] = m
      /\ Messages' = Messages \cup {sent + 1}
  BY <1>0 DEF FeedbackTypeOK, Add, MessageIds
<1>3. Settled'
  BY <1>0, <1>2 DEF Settled, MessageStates
<1>4. CausalTimes'
  <2>1. ASSUME NEW j \in Messages
        PROVE  \A d \in message'[j].dependsOn :
                 /\ d < j
                 /\ message'[d].deliverTime # Never
                 /\ message'[d].deliverTime <= message'[j].sendTime
    <3>1. \A d \in message[j].dependsOn :
                 /\ d < j
                 /\ message[d].deliverTime # Never
                 /\ message[d].deliverTime <= message[j].sendTime
      BY DEF Ordered, CausalTimes
    <3>2. \A d \in message[j].dependsOn : d \in Messages
      BY <1>0, <3>1 DEF FeedbackTypeOK, MessageRecord, MessageIds
    <3> QED BY <1>2, <3>1, <3>2
  <2>2. \A d \in m.dependsOn :
                 /\ d < sent + 1
                 /\ message'[d].deliverTime # Never
                 /\ message'[d].deliverTime <= m.sendTime
    BY <1>0, <1>2
  <2> QED BY <1>2, <2>1, <2>2 DEF CausalTimes
<1>5. RetriesFollowTimeouts'
  <2> DEFINE Follows(j, o) ==
               /\ o < j
               /\ message'[o].state \in {"TIMED_OUT", "DROPPED"}
               /\ message'[o].deliverTime = Never
               /\ message'[o].sendTime + Timeout <= message'[j].sendTime
               /\ message'[j].attempts = message'[o].attempts + 1
               /\ message'[j].attempts <= MaxRetries + 1
  <2>1. ASSUME NEW j \in Messages
        PROVE  IF message'[j].retryOf = NoMessage
               THEN message'[j].attempts = 1
               ELSE Follows(j, message'[j].retryOf)
    <3>1. CASE message[j].retryOf = NoMessage
      BY <1>2, <3>1 DEF Ordered, RetriesFollowTimeouts
    <3>2. CASE message[j].retryOf # NoMessage
      <4>1. PICK o : o = message[j].retryOf
        OBVIOUS
      <4>2. /\ o < j
            /\ message[o].state \in {"TIMED_OUT", "DROPPED"}
            /\ message[o].deliverTime = Never
            /\ message[o].sendTime + Timeout <= message[j].sendTime
            /\ message[j].attempts = message[o].attempts + 1
            /\ message[j].attempts <= MaxRetries + 1
        BY <3>2, <4>1 DEF Ordered, RetriesFollowTimeouts
      <4>3. o \in Messages
        BY <1>0, <3>2, <4>1, <4>2 DEF FeedbackTypeOK, MessageRecord, MessageIds, NoMessage
      <4> QED BY <1>2, <3>2, <4>1, <4>2, <4>3
    <3> QED BY <3>1, <3>2
  <2>2. IF m.retryOf = NoMessage
        THEN m.attempts = 1
        ELSE Follows(sent + 1, m.retryOf)
    BY <1>0, <1>2 DEF Settled
  <2>3. \A j \in Messages' : IF message'[j].retryOf = NoMessage
                             THEN message'[j].attempts = 1
                             ELSE Follows(j, message'[j].retryOf)
    BY <1>2, <2>1, <2>2
  <2> QED BY <2>3 DEF RetriesFollowTimeouts
<1>6. CorrectionsFollowBits'
  <2>1. ASSUME NEW j \in Messages, gate[j] # Never
        PROVE  /\ gate[j] >= ArrivalTime(message'[j])
               /\ message'[j].latency <= Timeout
               /\ \A d \in message'[j].dependsOn :
                     gate[j] >= ArrivalTime(message'[d])
    <3>1. \A d \in message[j].dependsOn : d \in Messages
      BY <1>0 DEF FeedbackTypeOK, MessageRecord, MessageIds, Ordered, CausalTimes
    <3> QED BY <1>2, <2>1, <3>1 DEF CorrectionsFollowBits
  <2>2. gate[sent + 1] = Never
    BY <1>0 DEF GatesAreKnown, IsSent
  <2> QED BY <1>2, <2>1, <2>2 DEF CorrectionsFollowBits
<1>7. GatesAreKnown'
  BY <1>0 DEF GatesAreKnown, IsSent, MessageIds
<1> QED BY <1>1, <1>3, <1>4, <1>5, <1>6, <1>7 DEF Ordered

\* Every call of the fabric keeps the invariant.
LEMMA NextFInv == FInv /\ [FeedbackNext]_feedbackVars => FInv'
<1> SUFFICES ASSUME FInv, [FeedbackNext]_feedbackVars PROVE FInv'
  OBVIOUS
<1> USE FeedbackAssumption
<1>0. /\ clock \in Nat /\ sent \in Nat
      /\ \A i \in MessageIds : IsSent(i) => i \in Messages /\ message[i] \in MessageRecord
      /\ \A i \in Messages : i \in MessageIds
  BY DEF FInv, FeedbackTypeOK, IsSent, Messages, MessageIds
<1>1. ASSUME NEW deps \in SUBSET MessageIds, NEW latency \in Latencies,
             NEW time \in 0..MaxSendTime, Send(deps, latency, time)
      PROVE  FInv'
  <2>1. PICK m : m = Fresh(time, latency, 1, deps, NoMessage)
    OBVIOUS
  <2>2. /\ m \in MessageRecord /\ m.state = "SENT" /\ m.deliverTime = Never
        /\ m.dependsOn = deps /\ m.sendTime = time /\ m.retryOf = NoMessage
        /\ m.attempts = 1
    BY <2>1 DEF Fresh, MessageRecord, MessageStates, Never, NoMessage
  <2>3. \A d \in deps : /\ d \in Messages /\ message[d].deliverTime # Never
                        /\ message[d].deliverTime <= time
    BY <1>0, <1>1 DEF Send, Delivered, FInv, Settled, MessageRecord, Never
  <2>4. Add(m) /\ UNCHANGED <<clock, declared, gate>>
    BY <1>1, <2>1 DEF Send
  <2> QED BY <2>2, <2>3, <2>4, AddPreserves
<1>2. ASSUME NEW i \in MessageIds, NEW latency \in Latencies, Retry(i, latency)
      PROVE  FInv'
  <2>1. PICK m : m = Fresh(clock, latency, message[i].attempts + 1,
                           message[i].dependsOn, i)
    OBVIOUS
  <2>2. i \in Messages /\ message[i] \in MessageRecord /\ i # NoMessage
    BY <1>0, <1>2 DEF Retry, MessageIds, NoMessage
  <2>3. /\ m \in MessageRecord /\ m.state = "SENT" /\ m.deliverTime = Never
        /\ m.dependsOn = message[i].dependsOn /\ m.sendTime = clock
        /\ m.retryOf = i /\ m.attempts = message[i].attempts + 1
        /\ m.attempts <= MaxRetries + 1
    <3>0. message[i].attempts <= MaxRetries
      BY <1>2 DEF Retry
    <3>1. /\ message[i].attempts + 1 \in 0..(MaxRetries + 1)
          /\ message[i].dependsOn \in SUBSET MessageIds /\ latency \in Int
      BY <2>2, <3>0 DEF MessageRecord
    <3>2. m = [state |-> "SENT", sendTime |-> clock, latency |-> latency,
               attempts |-> message[i].attempts + 1,
               dependsOn |-> message[i].dependsOn, retryOf |-> i,
               deliverTime |-> Never]
      BY <2>1 DEF Fresh
    <3>3. message[i].attempts \in Nat /\ message[i].attempts <= MaxRetries
      BY <2>2, <3>0 DEF MessageRecord
    <3>4. Never \in Int /\ "SENT" \in MessageStates
      BY DEF Never, MessageStates
    <3>5. m \in MessageRecord
      BY <1>0, <3>1, <3>2, <3>4 DEF MessageRecord
    <3> QED BY <3>2, <3>3, <3>5
  <2>4. \A d \in message[i].dependsOn :
           /\ d \in Messages /\ message[d].deliverTime # Never
           /\ message[d].deliverTime <= clock
    BY <1>0, <2>2
    DEF FInv, Settled, Ordered, CausalTimes, MessageRecord, Messages, MessageIds
  <2>5. message[i].state = "TIMED_OUT" /\ message[i].sendTime + Timeout <= clock
    BY <1>2, <2>2 DEF Retry, FInv, Settled
  <2>6. Add(m) /\ UNCHANGED <<clock, declared, gate>>
    BY <1>2, <2>1 DEF Retry
  <2> QED BY <2>2, <2>3, <2>4, <2>5, <2>6, AddPreserves
<1>3. ASSUME NEW i \in MessageIds, Deliver(i) PROVE FInv'
  <2>1. PICK r : r = [message[i] EXCEPT !.state = "DELIVERED",
                                        !.deliverTime = clock']
    OBVIOUS
  <2>2. i \in Messages /\ message[i] \in MessageRecord
    BY <1>0, <1>3 DEF Deliver
  <2>3. /\ clock' \in Nat /\ clock <= clock'
        /\ ArrivalTime(message[i]) <= clock'
    BY <1>0, <1>3, <2>2 DEF Deliver, Later, ArrivalTime, MessageRecord
  <2>4. /\ r \in MessageRecord /\ r.state = "DELIVERED"
        /\ r.deliverTime = clock' /\ r.sendTime = message[i].sendTime
        /\ r.latency = message[i].latency /\ r.attempts = message[i].attempts
        /\ r.retryOf = message[i].retryOf
        /\ r.dependsOn = message[i].dependsOn
    BY <2>1, <2>2, <2>3 DEF MessageRecord, MessageStates
  <2>5. message' = [message EXCEPT ![i] = r]
        /\ UNCHANGED <<sent, declared, gate>>
    BY <1>3, <2>1 DEF Deliver
  <2>6. ArrivalTime(r) <= clock' /\ r.latency <= Timeout
        /\ message[i].state = "SENT"
    BY <1>3, <2>3, <2>4 DEF Deliver, ArrivalTime
  <2> QED BY <2>2, <2>3, <2>4, <2>5, <2>6, SettlePreserves
<1>4. ASSUME NEW i \in MessageIds, TimeOut(i) PROVE FInv'
  <2>1. PICK r : r = [message[i] EXCEPT !.state = "TIMED_OUT"]
    OBVIOUS
  <2>2. i \in Messages /\ message[i] \in MessageRecord
    BY <1>0, <1>4 DEF TimeOut
  <2>3. /\ clock' \in Nat /\ clock <= clock'
        /\ message[i].sendTime + Timeout <= clock'
    BY <1>0, <1>4, <2>2 DEF TimeOut, Later, MessageRecord
  <2>4. /\ r \in MessageRecord /\ r.state = "TIMED_OUT"
        /\ r.deliverTime = message[i].deliverTime
        /\ r.sendTime = message[i].sendTime
        /\ r.latency = message[i].latency /\ r.attempts = message[i].attempts
        /\ r.retryOf = message[i].retryOf
        /\ r.dependsOn = message[i].dependsOn
    BY <2>1, <2>2 DEF MessageRecord, MessageStates
  <2>5. message' = [message EXCEPT ![i] = r]
        /\ UNCHANGED <<sent, declared, gate>> /\ message[i].state = "SENT"
    BY <1>4, <2>1 DEF TimeOut
  <2> QED BY <2>2, <2>3, <2>4, <2>5, SettlePreserves
<1>5. ASSUME NEW i \in MessageIds, Exhaust(i) \/ Drop(i) PROVE FInv'
  <2>1. PICK r : r = [message[i] EXCEPT !.state = "DROPPED"]
    OBVIOUS
  <2>2. i \in Messages /\ message[i] \in MessageRecord
    BY <1>0, <1>5 DEF Exhaust, Drop
  <2>3. /\ r \in MessageRecord /\ r.state = "DROPPED"
        /\ r.deliverTime = message[i].deliverTime
        /\ r.sendTime = message[i].sendTime
        /\ r.latency = message[i].latency /\ r.attempts = message[i].attempts
        /\ r.retryOf = message[i].retryOf
        /\ r.dependsOn = message[i].dependsOn
    BY <2>1, <2>2 DEF MessageRecord, MessageStates
  <2>4. message' = [message EXCEPT ![i] = r]
        /\ UNCHANGED <<clock, sent, declared, gate>>
    BY <1>5, <2>1 DEF Exhaust, Drop
  <2>5. clock' \in Nat /\ clock <= clock'
    BY <1>0, <2>4
  <2> QED BY <2>2, <2>3, <2>4, <2>5, SettlePreserves
<1>6. ASSUME NEW i \in MessageIds, AssertReady(i) PROVE FInv'
  <2>1. UNCHANGED <<clock, sent, message, declared>>
        /\ gate' = [gate EXCEPT ![i] = clock] /\ i \in Messages
        /\ message[i].state = "DELIVERED" /\ message[i].deliverTime # Never
    BY <1>0, <1>6 DEF AssertReady, Delivered, FInv, Settled
  <2>2. FeedbackTypeOK'
    BY <1>0, <2>1 DEF FInv, FeedbackTypeOK
  <2>3. Settled' /\ Ordered'
    BY <2>1 DEF FInv, Settled, Ordered, CausalTimes, RetriesFollowTimeouts,
                Messages, ArrivalTime
  <2>4. GatesAreKnown'
    BY <1>0, <2>1 DEF FInv, FeedbackTypeOK, GatesAreKnown, IsSent, Messages, MessageIds
  <2>5. /\ clock >= ArrivalTime(message[i]) /\ message[i].latency <= Timeout
        /\ \A d \in message[i].dependsOn : clock >= ArrivalTime(message[d])
    <3>1. \A j \in Messages : message[j].deliverTime # Never =>
             clock >= ArrivalTime(message[j]) /\ message[j].latency <= Timeout
      BY <1>0 DEF FInv, FeedbackTypeOK, Settled, ArrivalTime, MessageRecord, Never
    <3>2. \A d \in message[i].dependsOn :
             d \in Messages /\ message[d].deliverTime # Never
      BY <1>0, <2>1
      DEF FInv, FeedbackTypeOK, Ordered, CausalTimes, MessageRecord, Messages, MessageIds
    <3> QED BY <2>1, <3>1, <3>2
  <2>6. CorrectionsFollowBits'
    BY <1>0, <2>1, <2>5
    DEF FInv, FeedbackTypeOK, CorrectionsFollowBits, Messages, ArrivalTime
  <2> QED BY <2>2, <2>3, <2>4, <2>6 DEF FInv
<1>7. ASSUME NEW i \in MessageIds, NEW j \in MessageIds, AddHappensBefore(i, j) PROVE FInv'
  BY <1>7 DEF AddHappensBefore, FInv, FeedbackTypeOK, Settled, GatesAreKnown, Ordered,
              CausalTimes, RetriesFollowTimeouts, CorrectionsFollowBits,
              Messages, IsSent, ArrivalTime
<1>8. CASE UNCHANGED feedbackVars
  BY <1>8 DEF feedbackVars, FInv, FeedbackTypeOK, Settled, GatesAreKnown, Ordered,
              CausalTimes, RetriesFollowTimeouts, CorrectionsFollowBits,
              Messages, IsSent, ArrivalTime
<1> QED BY <1>1, <1>2, <1>3, <1>4, <1>5, <1>6, <1>7, <1>8 DEF FeedbackNext

\* The fabric's state is well typed, whatever is called in whatever order.
THEOREM FeedbackTypes == FeedbackSpec => []FeedbackTypeOK
<1>1. FInv => FeedbackTypeOK
  BY DEF FInv
<1> QED BY <1>1, InitFInv, NextFInv, PTL DEF FeedbackSpec

\* A dependent message never precedes the delivery of what it depends on, and
\* a correction never runs ahead of the bit that selects it.
THEOREM MessagesAreCausal == FeedbackSpec => []FeedbackIsCausal
<1>1. FInv => FeedbackIsCausal
  BY DEF FInv, Ordered, FeedbackIsCausal
<1> QED BY <1>1, InitFInv, NextFInv, PTL DEF FeedbackSpec

\* A retry stands only behind a message whose timeout has passed, and the
\* attempts of a chain of retries stay within max_retries.
THEOREM RetriesAreLate == FeedbackSpec => []RetriesFollowTimeouts
<1>1. FInv => RetriesFollowTimeouts
  BY DEF FInv, Ordered
<1> QED BY <1>1, InitFInv, NextFInv, PTL DEF FeedbackSpec

\* The clock only advances, and only a message in flight gets a delivery time.
LEMMA HistoryStep ==
  ASSUME FInv, [FeedbackNext]_feedbackVars
  PROVE  /\ clock' >= clock
         /\ \A i \in Messages :
              /\ message[i].deliverTime # Never =>
                     message'[i].deliverTime = message[i].deliverTime
              /\ message[i].state \in {"TIMED_OUT", "DROPPED"} =>
                     message'[i].state \in {message[i].state, "DROPPED"}
<1> USE FeedbackAssumption DEF FInv
<1>0. /\ clock \in Nat /\ sent \in Nat
      /\ \A i \in Messages : i \in MessageIds /\ message[i] \in MessageRecord
      /\ \A i \in MessageIds : message[i] \in MessageRecord
      /\ \A i \in Messages : message[i].state \in {"SENT", "TIMED_OUT"} =>
                                 message[i].deliverTime = Never
  BY DEF FeedbackTypeOK, Messages, MessageIds, Settled
<1>1. ASSUME NEW m, Add(m), UNCHANGED clock
      PROVE  clock' >= clock /\ \A i \in Messages : message'[i] = message[i]
  BY <1>0, <1>1 DEF Add, FeedbackTypeOK, Messages, MessageIds
<1>2. ASSUME NEW deps \in SUBSET MessageIds, NEW latency \in Latencies,
             NEW time \in 0..MaxSendTime, Send(deps, latency, time)
      PROVE  clock' >= clock /\ \A i \in Messages : message'[i] = message[i]
  BY <1>1, <1>2 DEF Send
<1>3. ASSUME NEW i \in MessageIds, NEW latency \in Latencies, Retry(i, latency)
      PROVE  clock' >= clock /\ \A j \in Messages : message'[j] = message[j]
  BY <1>1, <1>3 DEF Retry
<1>4. ASSUME NEW i \in MessageIds, Deliver(i) \/ TimeOut(i)
      PROVE  /\ clock' >= clock /\ i \in Messages /\ message[i].state = "SENT"
             /\ \A j \in Messages : j # i => message'[j] = message[j]
  <2>1. clock' >= clock
    BY <1>0, <1>4
    DEF Deliver, TimeOut, Later, ArrivalTime, MessageRecord
  <2>2. i \in Messages /\ message[i].state = "SENT"
    BY <1>4 DEF Deliver, TimeOut, IsSent, Messages, MessageIds
  <2>3. \A j \in Messages : j # i => message'[j] = message[j]
    BY <1>0, <1>4 DEF Deliver, TimeOut, FeedbackTypeOK
  <2> QED BY <2>1, <2>2, <2>3
<1>5. ASSUME NEW i \in MessageIds, Exhaust(i) \/ Drop(i)
      PROVE  /\ clock' >= clock
             /\ message'[i].state = "DROPPED"
             /\ message'[i].deliverTime = message[i].deliverTime
             /\ \A j \in Messages : j # i => message'[j] = message[j]
  <2>1. UNCHANGED clock
    BY <1>5 DEF Exhaust, Drop
  <2>2. PICK r : r = [message[i] EXCEPT !.state = "DROPPED"]
    OBVIOUS
  <2>3. r.state = "DROPPED" /\ r.deliverTime = message[i].deliverTime
    BY <1>0, <2>2 DEF MessageRecord
  <2>4. message' = [message EXCEPT ![i] = r]
    BY <1>5, <2>2 DEF Exhaust, Drop
  <2> QED BY <1>0, <2>1, <2>3, <2>4 DEF FeedbackTypeOK
<1>6. ASSUME NEW i \in MessageIds, AssertReady(i)
      PROVE  clock' = clock /\ message' = message
  BY <1>6 DEF AssertReady
<1>7. ASSUME NEW i \in MessageIds, NEW j \in MessageIds, AddHappensBefore(i, j)
      PROVE  clock' = clock /\ message' = message
  BY <1>7 DEF AddHappensBefore
<1>8. CASE UNCHANGED feedbackVars
  BY <1>0, <1>8 DEF feedbackVars
<1>9. CASE \E i \in MessageIds : Deliver(i) \/ TimeOut(i)
  BY <1>0, <1>4, <1>9
<1>10. CASE \E i \in MessageIds : Exhaust(i) \/ Drop(i)
  BY <1>0, <1>5, <1>10
<1> QED BY <1>0, <1>2, <1>3, <1>6, <1>7, <1>8, <1>9, <1>10 DEF FeedbackNext

\* What the fabric recorded is never rewritten.
THEOREM HistoryStays == FeedbackSpec => HistoryIsKept
<1>1. FInv /\ [FeedbackNext]_feedbackVars =>
        [/\ clock' >= clock
         /\ \A i \in Messages :
              /\ message[i].deliverTime # Never =>
                     message'[i].deliverTime = message[i].deliverTime
              /\ message[i].state \in {"TIMED_OUT", "DROPPED"} =>
                     message'[i].state \in {message[i].state, "DROPPED"}]_feedbackVars
  BY HistoryStep
<1> QED BY <1>1, InitFInv, NextFInv, PTL DEF FeedbackSpec, HistoryIsKept
=============================================================================
