--------------------------- MODULE ElectronStore ---------------------------
(***************************************************************************)
(* ElectronStore of PHOTON/control_plane/vec1/core.py with the ledger of   *)
(* vec1/ledger.py: what every vecctl command leaves on disk.  A command    *)
(* holds the exclusive file lock and makes several durable writes, one     *)
(* after the other: atomic replacements of a state file, appends to the    *)
(* electron's hash-chained ledger, the anchor of the ledger in the state,  *)
(* snapshot and receipt files.  Between any two the process may die or a   *)
(* write may raise.                                                        *)
(*                                                                         *)
(* A command's action checks what the code checks, makes the first write   *)
(* and leaves the rest pending; under the lock nobody else writes, so what *)
(* it will write is known when it starts.  Hashes are injective: an event  *)
(* chain is identified by its length, a snapshot by its content, a receipt *)
(* by the command that wrote it.  Edits of the files by other programs,    *)
(* which the hashes exist to detect, are not modelled.                     *)
(***************************************************************************)
EXTENDS Naturals, Sequences, FiniteSets

CONSTANTS ElectronIds,   \* ids the store may allocate, its max_electrons quota
          MaxReceipts,   \* max_execution_receipts
          MaxSealed,     \* bound: how many snapshot files are written
          MaxCommands,   \* bound: how many commands are started
          MaxErrors,     \* bound: how many writes raise
          MaxCrashes     \* bound: how many commands die

ASSUME StoreAssumption == MaxCommands \in Nat

VARIABLES state,        \* electrons/<id>/state.json
          events,       \* electrons/<id>/ledger.jsonl
          torn,         \* whether that ledger ends in half a record
          sealed,       \* snapshots/<hash>.json
          receipts,     \* evidence/executions/<id>-<tick>.json
          pending,      \* the writes the command holding the lock still has to make
          onError,      \* the writes it makes instead if one of them raises
          interrupted,  \* electrons a failed command was writing to, until one seals an anchor
          commands, errors, crashes

files == <<state, events, torn, sealed, receipts>>
counters == <<errors, crashes>>
storeVars == <<files, pending, onError, interrupted, commands, counters>>

Ticks == 0..MaxCommands
SnapshotIds == 1..MaxSealed
NoSnapshot == 0
NoReceipt == 0
Statuses == {"READY", "RUNNING", "VERIFIED", "FROZEN", "SUSPENDED",
             "FAULTED", "RETIRED"}
Faults == {"EXECUTION_REJECTED",  \* or REPLAY_REJECTED: the verdict, not a write that raised
           "EXECUTION_ERROR"}

ReceiptPaths == [of : ElectronIds, tick : Ticks]

StateRecord ==
    [status : Statuses \cup {"ABSENT"}, suspended : BOOLEAN, retired : BOOLEAN,
     tick : Ticks, base : SnapshotIds \cup {NoSnapshot},
     receipt : SUBSET ReceiptPaths, anchor : Nat, lineage : SUBSET ElectronIds]

Absent == [status |-> "ABSENT", suspended |-> FALSE, retired |-> FALSE,
           tick |-> 0, base |-> NoSnapshot, receipt |-> {}, anchor |-> 0,
           lineage |-> {}]

StoreInit ==
    /\ state = [e \in ElectronIds |-> Absent]
    /\ events = [e \in ElectronIds |-> <<>>]
    /\ torn = [e \in ElectronIds |-> FALSE]
    /\ sealed = <<>>
    /\ receipts = [p \in ReceiptPaths |-> NoReceipt]
    /\ pending = <<>> /\ onError = <<>>
    /\ interrupted = {}
    /\ commands = 0 /\ errors = 0 /\ crashes = 0
-----------------------------------------------------------------------------
(* The durable writes of a command.                                        *)

Set(e, change) == [write |-> "state", on |-> e, what |-> change]
Event(e, kind, ref) ==
    [write |-> "append", on |-> e, what |-> [kind |-> kind, ref |-> ref]]
Anchor(e) == [write |-> "anchor", on |-> e]
Logged(e, kind, ref) == <<Event(e, kind, ref), Anchor(e)>>
Sealed(e, n, content) == [write |-> "snapshot", on |-> e, id |-> n, what |-> content]
Receipt(p, content) == [write |-> "receipt", on |-> p.of, at |-> p, what |-> content]

Changed(s, change) ==
    [f \in DOMAIN s |-> IF f \in DOMAIN change THEN change[f] ELSE s[f]]

FaultWrites(e, kind) ==
    <<Set(e, [status |-> "FAULTED"]), Event(e, kind, NoSnapshot), Anchor(e)>>

Exists(e) == state[e].status # "ABSENT"
Retired(e) == state[e].retired
Suspended(e) == state[e].suspended
Operable(e) ==
    /\ Exists(e) /\ ~ Retired(e) /\ ~ Suspended(e)
    /\ state[e].status # "FAULTED"

ReceiptFiles(e) == {p \in ReceiptPaths : p.of = e /\ receipts[p] # NoReceipt}

\* a command takes the lock, changes the state of e and goes on with the rest
Start(e, change, rest, handler) ==
    /\ pending = <<>>
    /\ commands < MaxCommands
    /\ commands' = commands + 1
    /\ state' = [state EXCEPT ![e] = Changed(@, change)]
    /\ pending' = rest
    /\ onError' = handler
    /\ UNCHANGED <<events, torn, sealed, receipts, interrupted, counters>>
-----------------------------------------------------------------------------
(* The commands.                                                           *)

CreateElectron(e) ==
    /\ ~ Exists(e)
    /\ Start(e, [status |-> "READY", lineage |-> {e}],
             Logged(e, "GENESIS", NoSnapshot), <<>>)

FrozenCopy(e) == [owner |-> e, state |-> [state[e] EXCEPT !.status = "FROZEN"]]

\* content addressed: a copy already on disk is not written again
IsSnapshotId(n, content) ==
    IF \E m \in DOMAIN sealed : sealed[m] = content
    THEN n \in DOMAIN sealed /\ sealed[n] = content
    ELSE n = Len(sealed) + 1 /\ n <= MaxSealed

\* the status a snapshot gives back
Thaw(status) == IF status \in {"RUNNING", "FROZEN"} THEN "READY" ELSE status

Thawed(e, n) == Set(e, [base |-> n, status |-> Thaw(state[e].status)])

FaultSnapshotWrites(e, n) ==  \* slip: the state refers to the snapshot first
    <<Sealed(e, n, FrozenCopy(e)),
      Thawed(e, n), Event(e, "SNAPSHOT", n), Anchor(e)>>

\* _snapshot_locked after its first write, which froze the electron
SnapshotWrites(e, n) ==
    <<Sealed(e, n, FrozenCopy(e)), Event(e, "SNAPSHOT", n), Anchor(e),
      Thawed(e, n)>>

\* freezing a suspended or retired electron fails the validation of save
Snapshot(e) ==
    /\ Exists(e) /\ ~ Retired(e) /\ ~ Suspended(e)
    /\ \E n \in SnapshotIds :
         /\ IsSnapshotId(n, FrozenCopy(e))
         /\ Start(e, [status |-> "FROZEN"], SnapshotWrites(e, n), <<>>)

\* the child inherits the sealed state, the anchor and the last receipt included
ForkWrites(e, child, n) ==
    <<Sealed(e, n, FrozenCopy(e)), Event(e, "SNAPSHOT", n), Anchor(e),
      Thawed(e, n),
      Set(child, [state[e] EXCEPT !.status = "READY", !.base = n,
                                  !.lineage = @ \cup {child}]),
      Event(child, "CLONE_GENESIS", n), Anchor(child),
      Event(e, "FORK", n), Anchor(e)>>

Fork(e, child) ==
    /\ Operable(e)
    /\ ~ Exists(child)
    /\ \E n \in SnapshotIds :
         /\ IsSnapshotId(n, FrozenCopy(e))
         /\ Start(e, [status |-> "FROZEN"], ForkWrites(e, child, n), <<>>)

HasEvent(e, kind, ref) ==
    \E i \in DOMAIN events[e] :
        events[e][i].kind = kind /\ events[e][i].ref = ref

\* a torn ledger does not verify, so it authorizes nothing
Authorized(n) ==
    LET source == sealed[n].owner
    IN  ~ torn[source] /\ HasEvent(source, "SNAPSHOT", n)

\* identity and lifecycle controls stay; all the rest is rolled back
RolledBack(e, n) ==
    [sealed[n].state EXCEPT
        !.lineage = state[e].lineage,
        !.base = n,
        !.suspended = state[e].suspended,
        !.status = IF state[e].suspended THEN "SUSPENDED" ELSE "READY"]

RestoreElectron(e, n) ==
    /\ Exists(e) /\ ~ Retired(e)
    /\ n \in DOMAIN sealed
    /\ sealed[n].owner \in state[e].lineage
    /\ Authorized(n)
    /\ Start(e, RolledBack(e, n), Logged(e, "RESTORE", n), <<>>)

Suspend(e) ==
    /\ Exists(e) /\ ~ Retired(e) /\ ~ Suspended(e)
    /\ Start(e, [suspended |-> TRUE, status |-> "SUSPENDED"],
             Logged(e, "SUSPEND", NoSnapshot), <<>>)

Resume(e) ==
    /\ Exists(e) /\ ~ Retired(e) /\ Suspended(e)
    /\ Start(e, [suspended |-> FALSE, status |-> "READY"],
             Logged(e, "RESUME", NoSnapshot), <<>>)

Retire(e) ==
    /\ Exists(e) /\ ~ Retired(e)
    /\ Start(e, [retired |-> TRUE, status |-> "RETIRED"],
             Logged(e, "RETIRE", NoSnapshot), <<>>)

\* an accepted execution: receipt, state, event
VerifiedWrites(e, path, content) ==
    <<Receipt(path, content),
      Set(e, [status |-> "VERIFIED", receipt |-> {path}]),
      Event(e, "EXECUTION_VERIFIED", [path |-> path, content |-> content]),
      Anchor(e)>>

FaultExecute(e, rest) ==  \* slip: the exception handler is gone
    /\ Operable(e)
    /\ Cardinality(ReceiptFiles(e)) < MaxReceipts
    /\ Start(e, [tick |-> state[e].tick + 1, status |-> "RUNNING"], rest, <<>>)

\* record_execution: the tick advances, then the verdict of the fabric decides;
\* any other exception on the way faults the electron
Execute(e, rest) ==
    /\ Operable(e)
    /\ Cardinality(ReceiptFiles(e)) < MaxReceipts
    /\ Start(e, [tick |-> state[e].tick + 1, status |-> "RUNNING"], rest,
             FaultWrites(e, "EXECUTION_ERROR"))

AcceptExecution(e) ==
    Execute(e, VerifiedWrites(e, [of |-> e, tick |-> state[e].tick + 1],
                              commands + 1))

RejectExecution(e) ==
    Execute(e, FaultWrites(e, "EXECUTION_REJECTED"))
-----------------------------------------------------------------------------
(* The progress of a command and the ways it fails.                        *)

Touched == {pending[i].on : i \in DOMAIN pending}

\* the first pending write is on disk; with the last write the lock is released
Done ==
    /\ pending' = Tail(pending)
    /\ onError' = IF Tail(pending) = <<>> THEN <<>> ELSE onError
    /\ UNCHANGED <<commands, counters>>

NextIs(kind) == pending # <<>> /\ Head(pending).write = kind

ReplaceState ==
    /\ NextIs("state")
    /\ LET w == Head(pending)
       IN  state' = [state EXCEPT ![w.on] = Changed(@, w.what)]
    /\ Done
    /\ UNCHANGED <<events, torn, sealed, receipts, interrupted>>

\* append_event extends a ledger that verifies and refuses one that does not
AppendToLedger ==
    /\ NextIs("append")
    /\ LET w == Head(pending)
       IN  /\ ~ torn[w.on]
           /\ events' = [events EXCEPT ![w.on] = Append(@, w.what)]
    /\ Done
    /\ UNCHANGED <<state, torn, sealed, receipts, interrupted>>

FaultWriteAnchor ==  \* slip: one more event than the state last knew of
    /\ NextIs("anchor")
    /\ LET w == Head(pending)
       IN  /\ state' = [state EXCEPT ![w.on].anchor = @ + 1]
           /\ interrupted' = interrupted \ {w.on}
    /\ Done
    /\ UNCHANGED <<events, torn, sealed, receipts>>

\* the event count and head of the ledger, sealed into the state
WriteAnchor ==
    /\ NextIs("anchor")
    /\ LET w == Head(pending)
       IN  /\ state' = [state EXCEPT ![w.on].anchor = Len(events[w.on])]
           /\ interrupted' = interrupted \ {w.on}
    /\ Done
    /\ UNCHANGED <<events, torn, sealed, receipts>>

SealSnapshot ==
    /\ NextIs("snapshot")
    /\ LET w == Head(pending)
       IN  sealed' = IF w.id \in DOMAIN sealed THEN sealed
                        ELSE Append(sealed, w.what)
    /\ Done
    /\ UNCHANGED <<state, events, torn, receipts, interrupted>>

WriteReceipt ==
    /\ NextIs("receipt")
    /\ LET w == Head(pending)
       IN  receipts' = [receipts EXCEPT ![w.at] = w.what]
    /\ Done
    /\ UNCHANGED <<state, events, torn, sealed, interrupted>>

\* an exception abandons the writes that are left for those of the handler
Raise ==
    /\ pending' = onError
    /\ onError' = <<>>
    /\ interrupted' = interrupted \cup Touched
    /\ UNCHANGED commands

\* the ledger ends in a torn record: append_event raises IntegrityError
Refuse ==
    /\ NextIs("append")
    /\ torn[Head(pending).on]
    /\ Raise
    /\ UNCHANGED <<files, counters>>

\* a write raises without effect
WriteFails ==
    /\ pending # <<>>
    /\ errors < MaxErrors
    /\ errors' = errors + 1
    /\ Raise
    /\ UNCHANGED <<files, crashes>>

Die ==
    /\ crashes < MaxCrashes
    /\ crashes' = crashes + 1
    /\ pending' = <<>> /\ onError' = <<>>
    /\ interrupted' = interrupted \cup Touched
    /\ UNCHANGED <<commands, errors>>

CommandDies ==
    /\ pending # <<>>
    /\ Die
    /\ UNCHANGED files

\* the append stops in the middle of the line: half a record reached the disk
TearLine ==
    /\ NextIs("append")
    /\ ~ torn[Head(pending).on]
    /\ torn' = [torn EXCEPT ![Head(pending).on] = TRUE]
    /\ UNCHANGED <<state, events, sealed, receipts>>

\* because the process died
TearAppend == TearLine /\ Die

\* because write or flush raised
AppendFails ==
    /\ TearLine
    /\ errors < MaxErrors
    /\ errors' = errors + 1
    /\ Raise
    /\ UNCHANGED crashes

Command(e) ==
    \/ CreateElectron(e)
    \/ Snapshot(e)
    \/ \E child \in ElectronIds : Fork(e, child)
    \/ \E n \in SnapshotIds : RestoreElectron(e, n)
    \/ Suspend(e)
    \/ Resume(e)
    \/ Retire(e)
    \/ AcceptExecution(e)
    \/ RejectExecution(e)

MakeWrite ==
    \/ ReplaceState
    \/ AppendToLedger
    \/ WriteAnchor
    \/ SealSnapshot
    \/ WriteReceipt
    \/ Refuse

StoreNext ==
    \/ \E e \in ElectronIds : Command(e)
    \/ MakeWrite
    \/ WriteFails
    \/ AppendFails
    \/ CommandDies
    \/ TearAppend

StoreSpec == StoreInit /\ [][StoreNext]_storeVars
-----------------------------------------------------------------------------
StoreTypeOK ==
    /\ state \in [ElectronIds -> StateRecord]
    /\ \A e \in ElectronIds : \A i \in DOMAIN events[e] :
          events[e][i].kind \in Faults \cup
            {"GENESIS", "CLONE_GENESIS", "SNAPSHOT", "FORK", "RESTORE",
             "SUSPEND", "RESUME", "RETIRE", "EXECUTION_VERIFIED"}
    /\ torn \in [ElectronIds -> BOOLEAN]
    /\ Len(sealed) <= MaxSealed
    /\ \A n \in DOMAIN sealed :
          sealed[n].owner \in ElectronIds /\ sealed[n].state \in StateRecord
    /\ receipts \in [ReceiptPaths -> 0..MaxCommands]
    /\ interrupted \subseteq ElectronIds

Quiet == pending = <<>>

(* What audit recomputes from the files of one electron.                   *)

LedgerSemantics(e) ==
    ~ torn[e] /\ events[e] # <<>> /\ events[e][1].kind \in {"GENESIS", "CLONE_GENESIS"}

LedgerAnchor(e) == state[e].anchor = Len(events[e])

BaseSnapshot(e) ==
    LET n == state[e].base
    IN  n # NoSnapshot =>
            /\ n \in DOMAIN sealed
            /\ sealed[n].owner \in state[e].lineage
            /\ Authorized(n)

VerifiedAt(e) == {i \in DOMAIN events[e] : events[e][i].kind = "EXECUTION_VERIFIED"}

\* the receipt file is the one the execution was recorded with
ReceiptMatches(e, i) == receipts[events[e][i].ref.path] = events[e][i].ref.content

ReceiptFilesMatch(e) == \A i \in VerifiedAt(e) : ReceiptMatches(e, i)

\* the last receipt, with the content it has, is in the ledger of its electron
LastReceipt(e) ==
    \A p \in state[e].receipt :
        /\ p.of \in state[e].lineage
        /\ HasEvent(p.of, "EXECUTION_VERIFIED", [path |-> p, content |-> receipts[p]])

\* a later execution of the same tick was accepted: its receipt has that name
RunAgain(e, i) ==
    \E j \in VerifiedAt(e) : j > i /\ events[e][j].ref.path = events[e][i].ref.path

(* What vecctl audit recomputes is right whenever no command is running and *)
(* none has failed: the ledger begins with the electron's birth, its length *)
(* is the anchored one, the base snapshot is authorized, and the last       *)
(* receipt, be it inherited from an ancestor or rolled back by a restore,   *)
(* is one a ledger names.  Of the receipt files it refuses at most those    *)
(* overwritten when a tick was run again after a restore (ReceiptsMatch     *)
(* below): the last run of every tick finds its own, so the audit of an     *)
(* electron that ran no tick twice is clean.                                *)
AuditClean ==
    Quiet /\ errors = 0 /\ crashes = 0 =>
        \A e \in ElectronIds : Exists(e) =>
            /\ LedgerSemantics(e)
            /\ LedgerAnchor(e)
            /\ BaseSnapshot(e)
            /\ \A i \in VerifiedAt(e) : ReceiptMatches(e, i) \/ RunAgain(e, i)
            /\ LastReceipt(e)

(* A state never names a base snapshot that audit would refuse: the file is *)
(* there, it is of this electron or an ancestor, and the owner's ledger has *)
(* the SNAPSHOT event that authorizes it.  This holds at every moment, in   *)
(* the middle of a command and after one died.                              *)
BasesAreSealed ==
    \A e \in ElectronIds :
        LET n == state[e].base
        IN  n # NoSnapshot =>
                /\ n \in DOMAIN sealed
                /\ sealed[n].owner \in state[e].lineage
                /\ HasEvent(sealed[n].owner, "SNAPSHOT", n)

(* Nothing is VERIFIED before its evidence: the receipt a state or an       *)
(* EXECUTION_VERIFIED event names is on disk, and a VERIFIED electron's own *)
(* receipt is the one of its current tick, at every moment.                 *)
VerifiedHasEvidence ==
    \A e \in ElectronIds :
        /\ \A p \in state[e].receipt : receipts[p] # NoReceipt
        /\ state[e].status = "VERIFIED" =>
               state[e].receipt = {[of |-> e, tick |-> state[e].tick]}
        /\ \A i \in DOMAIN events[e] :
               events[e][i].kind = "EXECUTION_VERIFIED" =>
                   receipts[events[e][i].ref.path] # NoReceipt

(* What a state or an event relies on is there, whenever somebody looks.    *)
EvidenceIsThere == BasesAreSealed /\ VerifiedHasEvidence

(* After undisturbed commands audit refuses nothing but receipts of ticks   *)
(* run again, and every snapshot and receipt that a state or an event       *)
(* relies on is there at every moment.                                      *)
AuditIsBacked == AuditClean /\ EvidenceIsThere

(* Whatever a failed command left behind, the next command that seals an    *)
(* anchor of the electron brings state and ledger back together, and no     *)
(* later write of that command parts them again.                            *)
AnchorsHeal ==
    Quiet => \A e \in ElectronIds :
        Exists(e) /\ e \notin interrupted => LedgerAnchor(e)

(* core.py: "never leave an electron stranded in RUNNING".  One write that  *)
(* raises, at whatever point of an execution, leaves it FAULTED.            *)
NeverStranded ==
    Quiet /\ crashes = 0 /\ errors <= 1 =>
        \A e \in ElectronIds : state[e].status # "RUNNING"

(* core.py: "lifecycle controls are never rolled back by a restore".  A     *)
(* retired electron changes no more but for its anchor, and a suspended one *)
(* stays suspended until a step that changes nothing else resumes it.       *)
LifecycleIsKept ==
    [][\A e \in ElectronIds :
         /\ Retired(e) =>
               state'[e] = [state[e] EXCEPT !.anchor = state'[e].anchor]
         /\ Suspended(e) /\ ~ state'[e].suspended =>
               state'[e] = [state[e] EXCEPT !.suspended = FALSE, !.status = "READY"]
      ]_storeVars

FaultedSinceRestore(e) ==
    \E i \in DOMAIN events[e] :
        /\ events[e][i].kind \in Faults
        /\ \A j \in DOMAIN events[e] : j > i => events[e][j].kind # "RESTORE"

(* ARCHITECTURE.md: a failed execution "marks the instance `FAULTED` with a *)
(* ledger event; recovery is `restore` from a sealed snapshot of the same   *)
(* lineage".                                                                *)
RecoveryIsRestore ==
    Quiet => \A e \in ElectronIds : Operable(e) => ~ FaultedSinceRestore(e)

(* CHANGELOG.md: "Receipt auditing checks file SHA-256, electron/tick       *)
(* identity, and event-log hash against the corresponding                   *)
(* `EXECUTION_VERIFIED` event" - so with no failure and no tampering every  *)
(* such event must still find the receipt it was recorded with.             *)
ReceiptsMatch == Quiet => \A e \in ElectronIds : ReceiptFilesMatch(e)
=============================================================================
