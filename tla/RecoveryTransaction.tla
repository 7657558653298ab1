------------------------ MODULE RecoveryTransaction ------------------------
(***************************************************************************)
(* The RecoveryTransaction of resilience.py: classical entries are         *)
(* journalled with a prior value and restored by rollback(); quantum       *)
(* entries are only registered, and an unknown one makes rollback() fail   *)
(* closed. The caller holds the true prior values and declares them, some  *)
(* in begin(snapshot), some later, some never. A quantum payload is refused *)
(* before anything changes, so the values here are classical.              *)
(***************************************************************************)
CONSTANTS
    Keys,
    Values,      \* classical values, the ones a key really had included
    QuantumKeys,
    None         \* what dict.get answers for a key it does not hold

ASSUME TransactionAssumption == None \notin Values

VARIABLES
    tstate,    \* OPEN, COMMITTED, ROLLED_BACK or REFUSED
    journal,   \* key -> prior value, for the keys touched
    live,      \* key -> value, for the keys touched
    quantum,   \* quantum key -> classically_known, for the registered ones
    prior,     \* the caller's: what each key held before the transaction
    blind,     \* history: keys written before their prior value was declared
    updates    \* history: the last value written to each key written

transactionVars == <<tstate, journal, live, quantum, prior, blind, updates>>

Touched == DOMAIN journal

TransactionTypeOK ==
    /\ tstate \in {"OPEN", "COMMITTED", "ROLLED_BACK", "REFUSED"}
    /\ Touched \subseteq Keys /\ DOMAIN live = Touched
    /\ journal \in [Touched -> Values \cup {None}]
    /\ live \in [Touched -> Values \cup {None}]
    /\ DOMAIN quantum \subseteq QuantumKeys
    /\ quantum \in [DOMAIN quantum -> BOOLEAN]
    /\ prior \in [Keys -> Values]
    /\ blind \subseteq Touched
    /\ DOMAIN updates \subseteq Touched

\* f where it is defined, and g elsewhere
Over(f, g) ==
    [k \in DOMAIN f \cup DOMAIN g |-> IF k \in DOMAIN f THEN f[k] ELSE g[k]]

Put(f, k, v) == Over([j \in {k} |-> v], f)

\* fault: a later prior value replaces the first
FaultSetDefault(f, k, v) == Put(f, k, v)

SetDefault(f, k, v) == Over(f, [j \in {k} |-> v])

\* one key after the other, each as record_classical() does
Begin(snapshot) ==
    /\ tstate = "OPEN"
    /\ journal' = Over(journal, [k \in snapshot |-> prior[k]])
    /\ live' = Over([k \in snapshot |-> prior[k]], live)
    /\ UNCHANGED <<tstate, quantum, prior, blind>>
    /\ updates' = [k \in DOMAIN updates \ snapshot |-> updates[k]]

RecordClassical(k) ==
    /\ tstate = "OPEN"
    /\ journal' = SetDefault(journal, k, prior[k])
    /\ live' = Put(live, k, prior[k])
    /\ updates' = [j \in DOMAIN updates \ {k} |-> updates[j]]
    /\ UNCHANGED <<tstate, quantum, prior, blind>>

Write(k, v) ==
    /\ tstate = "OPEN"
    /\ journal' = SetDefault(journal, k, IF k \in DOMAIN live THEN live[k] ELSE None)
    /\ live' = Put(live, k, v)
    /\ updates' = Put(updates, k, v)
    /\ blind' = blind \cup ({k} \ DOMAIN journal)
    /\ UNCHANGED <<tstate, quantum, prior>>

\* does not ask whether the transaction is open; the last registration counts
RegisterQuantum(q, known) ==
    /\ quantum' = Put(quantum, q, known)
    /\ UNCHANGED <<tstate, journal, live, prior, blind, updates>>

Commit ==
    /\ tstate = "OPEN"
    /\ tstate' = "COMMITTED"
    /\ UNCHANGED <<journal, live, quantum, prior, blind, updates>>

UnknownQuantum == {q \in DOMAIN quantum : ~ quantum[q]}

Rollback ==
    /\ tstate = "OPEN"
    /\ IF UnknownQuantum # {}
       THEN tstate' = "REFUSED" /\ UNCHANGED live
       ELSE tstate' = "ROLLED_BACK" /\ live' = Over(journal, live)
    /\ UNCHANGED <<journal, quantum, prior, blind, updates>>

TransactionInit ==
    /\ tstate = "OPEN"
    /\ journal = <<>> /\ live = <<>> /\ quantum = <<>> /\ updates = <<>>
    /\ prior \in [Keys -> Values]
    /\ blind = {}

TransactionNext ==
    \/ \E snapshot \in SUBSET Keys : Begin(snapshot)
    \/ \E k \in Keys : RecordClassical(k)
    \/ \E k \in Keys, v \in Values : Write(k, v)
    \/ \E q \in QuantumKeys, known \in BOOLEAN : RegisterQuantum(q, known)
    \/ Commit
    \/ Rollback

TransactionSpec ==
    TransactionInit /\ [][TransactionNext]_transactionVars
-----------------------------------------------------------------------------
(* rollback() gives every key back what it held before the transaction,     *)
(* however often it was written and declared in between, as long as its     *)
(* prior value was declared before the first write; a commit, or a refused  *)
(* rollback, keeps for every key the last value written.                    *)
TransactionOutcome ==
    /\ tstate = "ROLLED_BACK" => \A k \in Touched \ blind : live[k] = prior[k]
    /\ tstate \in {"COMMITTED", "REFUSED"} =>
          \A k \in DOMAIN updates : live[k] = updates[k]
=============================================================================
