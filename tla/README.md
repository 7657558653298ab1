# A verification project for DF-Fabric

TLA+ models of the stateful parts of DF-Fabric, the runs that model-check them
with TLC, and theorems about them that TLAPS checks. Every definition is
translated from the source; PROJECT.json ("map") names the lines.

## 1. The system

DF-Fabric is a Python program in four layers that share little code.

**core/reference/pacore** is a reference implementation of an execution fabric
for programs that mix classical work and (simulated) quantum resources.

| component | state it keeps | operations | what is hard |
|---|---|---|---|
| EbitLedger (`protocols.py`) | a record per entangled pair with a lifecycle of eight states | request, generate, herald, reserve, consume, release, fail, expire; teleport, remote_cnot, entanglement_swap | epochs are chosen by the caller, in any order; a swap makes several ledger calls and may raise between two |
| ClassicalFeedbackFabric (`protocols.py`) | messages with send and arrival times, a scalar clock, a log | send, receive, retry, drop, apply_correction | late and retried messages, corrections that depend on measured bits |
| Channel, select (`fabric.py`) | a queue, two flags and a condition per channel | send, receive, their try_ forms, peek, close, cancel, select | threads: lost wakeups, timeouts, probe-then-act |
| TaskRuntime (`fabric.py`) | task states, owners of quantum payloads | spawn, run, await, barrier, cancel, transfer, release | functions of tasks call the runtime from inside a run |
| AsyncEngine, AsyncFuture (`fabric.py`) | futures, a happens-before relation, the pending list, a completion queue | submit, drain, cancel, add_happens_before | thunks and callbacks re-enter the engine and raise |
| DataflowRuntime (`fabric.py`) | nodes over channels, counts of firings | evaluate, step, run | other threads use the channels between a decision and its firing |
| BSPEngine (`fabric.py`) | inboxes | superstep | it raises half way and is called again |
| TimerWheel (`fabric.py`) | slots | schedule, advance | callbacks schedule, advance and raise |
| WorkStealing, ElasticWorkerGroup (`fabric.py`) | a deque per worker; members | push, pop_local, attempt_steal, steal_specific; grow, shrink | workers come and go while the deques stay |
| DeadlockDetector, Collectives (`fabric.py`) | a wait-for graph; none | add and clear edges, detect; eight operations by five schedules | edges come one by one; ranks modulo n |
| LoadBalancer, StragglerEngine, GrainSizeEngine, EventLog (`fabric.py`) | assignments, worker states, log | advice and records | - |
| CRDTs, AntiEntropy (`crdt.py`) | replicas with version vectors | update, merge, exchange, converge | merges in any order and twice; clocks of callers |
| RecoveryPlanner, SupervisionTree, CheckpointStore, RecoveryTransaction (`resilience.py`) | restart budgets, checkpoints, journals | classify, handle, save, load, write, rollback | budgets outlive failures; payloads kept by reference; values declared late |
| verify (`lang.py`) | while it goes through the rows of a program: an ownership record per key, the values measured | one per kind of row | states move between keys, slice by slice, and must never be duplicated |
| SES, TemporalScheduler (`ses.py`, `planner.py`) | the graph under construction; the schedule | one turn per row, analysis, scheduling in eleven modes | dependencies through rows in between; priorities against time |
| StabilizerEngine (`simulator.py`) | a tableau of Pauli operators with signs | gates, measure, reset, peek | signs after long sequences of legal operations |
| the rest (dense simulation, `ledgers.py`, `conformance.py`, ...) | none that outlives a call | parsing, numerics, reports | - |

**PHOTON/control_plane/vec1** is a command-line control plane: `core.py` keeps
"electrons" (instances of a program) as files under a file lock, with a
hash-chained ledger per electron (`ledger.py`), snapshots and execution
receipts. Every command makes several durable writes; the process may die or a
write may raise between any two.

**PHOTON/shell/VEC1** is a service with an application in front of it:
`service.py` keeps instances, checkpoints and an append-only ledger under a
lock and a single-instance lock file.

**pk** is a conformance kit. `pk_core` takes components through ten stages,
appends a record of each to a hash-chained evidence file, and a gate turns the
results into a verdict. `pk_components` holds 95 packages, each with a contract,
the component that answers a checklist and, for most, a small state machine of
its own that the answers exercise: replicated keys, queues, leases, pools,
rollouts. They share no state with one another.

**adapter/dfabric** runs programs over `TaskRuntime` from one thread.

The layers meet in few places: the protocols call the ledger; channels carry
the tokens of the dataflow runtime; the adapter spawns and awaits tasks; vecctl
runs the fabric in a subprocess and records its result in the electron store.

## 2. The modules

| module | models | state, and where it is in the code |
|---|---|---|
| EbitLedger | the ledger and the three protocols that spend ebits | `counter`, `ebit` = `EbitLedger.records`; `uses` and `swaps` are the reports protocols returned |
| ClassicalFeedback | the feedback fabric | `message`, `clock` and the happens-before edges of `ClassicalFeedbackFabric` |
| ElectronStore | the commands of `core.py` with the ledger | one variable per kind of file; `pending` are the writes the command that holds the lock has yet to make, `onError` those of its exception handler |
| VECService | the requests of the shell's service, and its ledger | `file` and `snapshots` are the files of electrons and checkpoints; `logged`, `ledger` and `cached` are what the ledger file says, whether it verifies, and `AppendOnlyLedger._head`; `todo` are the writes yet to make |
| BoundedFifo | what a channel promises: abstract | the queue and the two flags |
| Channel | channels and select, at the grain of critical sections | `queue`, `closed`, `cancelled`; `waiting` is the wait set of the condition; `call` is where each thread is |
| TaskRuntime | tasks, drains and payload ownership | `state`, `holds`, `ownerOf` = `_owner_of`; `drains` is the stack of `run()` calls, each with its batch |
| AsyncEngine | futures and drains | `state`, `pending` = `_pending`, `after` and `added` = `_hb`, `completions`; `drains` is the stack of `drain()` calls with their local variables |
| Ownership | the rules of `verify` for rows that make, use, move and end states | `own`, `bits` = `classical_bits`, `lineages` = `lineage_counter`; `rejected` once a diagnostic is given |
| SemanticGraph | `build_ses`, `analyze` with the exact width, the list scheduler and its exact optimum | `rows` so far, what `build_ses` remembers of them, `edges`; `schedule` is the result |
| Stabilizer | the stabilizer engine; in its second half, Pauli operators and their products, which say what a tableau means | `tableau` = `x`, `z` and `r`, a record of two sets and a sign per row; `raised` when `_rowsum` raised |
| ReplicatedObject | what a replicated object promises: abstract | the updates, which of them each replica has seen, and what it shows |
| Replicas | the six types of `crdt.py` and the anti-entropy engine | `rep` are the replicas' states, `pass` the `converge()` under way; `ops` and `seen` are a history of updates |
| Supervision | failure injection, the planner's rules, the supervision tree, the campaign | `attempts` = the budgets spent, `entry` the campaign's last entry |
| RecoveryTransaction | the transaction | `journal`, `live`, `quantum` of the transaction; `prior` is the caller's truth |
| CheckpointStore | checkpoints | `store` = `CheckpointStore.store`, which keeps references into the caller's `heap`; `Text` is the canonical text of a payload, which JSON and `repr()` may give to two that differ |
| Dataflow | the dataflow runtime between threads | `queue` and `closed` of the channels, `round` the step under way with the node that was admitted |
| BSPEngine | supersteps | `inboxes`, `supersteps` |
| TimerWheel | the wheel | `wheel`, `now`; `frames` is the stack of `advance()` calls |
| WorkStealing | deques, stealing levels, the elastic group | `deques`, `members`, `taken` |
| DeadlockDetector | the graph and how it is fed | `edges`, `futures` of the detector; `holder` and `waiting` are the truth |
| Collectives | the schedules of transfers | `request` and `result` of the last call |
| Conformance | the workflow, the evidence ledger and the gate of `pk_core` | `onDisk` and `cutShort` are the evidence file, `records` the ledger in the memory of each process, `results` what its stages found |
| ReplicatedKey | `ReplicatedKey` of GAP-05 at several sites | `siblings`, `quarantine` of each site; `writes` are those that travel |
| ReliableQueue | `ReliableQueue` and `IdempotentConsumer` of INV-53 | `ready`, `inFlight`, `attempts`, `dlq`, `done`; `holding` is what each consumer works on |
| ControlState | `ControlState` of INV-05 and its controllers | `revision`, `data`, `history`, `compactedAt`; `copy` and `from` are the controllers' |

`MC...` modules give the constants their values. Components that share no state
are checked side by side in one run: MCProtocols (the two stores of
`protocols.py`), MCFabric (channels and futures, with the fairness their liveness
needs), MCParts (nine parts of `pacore`), MCProgram (four more: what happens to
a program and its replicated objects) and MCPlatform (four parts of `pk` and the
two control planes) are sums: the variable `part`, chosen at the start, says
which component a behaviour follows, and the others stay at an initial state. A sum has as many states as its parts together, and an
invariant of one part is checked on every behaviour of that part.
Lists says what a list comprehension and `sum()` make of a list; control
state, replicas, the replicated object, the graph, the collectives and the
simulator use it.
`...Proofs` modules hold the theorems: PartsProofs and ProtocolProofs over the
components of the MC module of that name, PhotonProofs over the two control
planes, ProgramProofs over Ownership, AsyncEngine and Replicas, GraphProofs over
the graph and its schedules, SimulatorProofs over Stabilizer, SharingProofs over
TaskRuntime, Channel and the parts of `pk`. DataFacts
holds the lemmas that several of them cite: natural numbers, lists, kept
elements, sums, stable sorting, pending writes, and recursion (functions whose
rules look at smaller or larger arguments only are defined everywhere, and
once). Operators named `Fault...` (and
commented as slips or faults) are not part of any specification: each is a
definition with one plausible slip, paired in PROJECT.json with the property
that catches it.

Common conventions: a call that raises before it changes anything is no step;
one that raises after it changed something is an action of its own. One action
is one call, or one critical section where threads meet, or one durable write
where a process may die. Control flow that re-enters a component (a task that
awaits a task, a thunk that drains, a timer that advances the wheel) is a stack
of frames, one step of the top frame at a time. What is marked as history is
state the program does not keep and no guard reads.

## 3. The runs

| run | bounds | what it shows |
|---|---|---|
| protocols | 3 nodes, 3 ebits, epochs 0..1; 3 messages, 4 latencies, timeout 1, one retry | an ebit is spent by one report; a swapped pair is backed by two spent ones; arrivals follow what they depend on, corrections follow their bits |
| fabric | 3 threads, 1 channel of capacity 1, 3 items; 3 futures, 1 added dependency | no wakeup is lost; the channel implements BoundedFifo; closing releases every thread; a thunk runs once and drains end |
| tasks | 3 tasks of 2 priorities, 1 payload, both profiles | no pending task is forgotten, payloads have one holder, awaits are answered, drains return |
| program | ownership: 3 keys, slices of one or two, a node, 2 lineages; graph: 7 rows of different kinds, two of them without duration, over 2 qubits and a bit, programs of 4 rows, schedules of 3 on 2 targets or none, modes ALAP and FIDELITY_AWARE; stabilizer: 2 wires; replicas: 3, 3 updates, 2 values, a tag and a later timestamp from callers | no verified program duplicates a state; rows that conflict are ordered, and width, reduction, span, levels and critical paths are what their definitions say; schedules keep to the graph and the targets and do not beat the optimum, which is one; gates conjugate, measurements project, an outcome is called determined when it is, signs included, `_rowsum` raises for the partner of the pivot only, and never in the deterministic branch; each of the six types implements ReplicatedObject, one round of `converge()` reaches all and merging obeys the laws |
| parts | supervision: 1 subject, budgets 2, 1, 0, 1, six kinds of context; transactions: 2 keys, 2 values; checkpoints: 2 objects, 1 name, 5 payloads, two of them with one text (a list and a tuple, and a quantum state and its repr), texts of one or two blocks; dataflow: 3 nodes, 6 channels of capacity 1, 2 tokens, 2 rounds, 1 raise; supersteps: 2 workers, 3 calls, plans of 2; wheel: 3 slots, 3 timers, 2 nested advances; stealing: 2 tasks, 4 workers and one that may come; detector: 3 tasks, 2 resources, 1 future; collectives: 1 to 6 workers, every root | reports, escalations, rollbacks and loads are honest; admitted firings are whole, runs stop only when stuck; messages arrive once; timers fire on time; steals are from the nearest, oldest first, and lose no task; deadlocks are not missed; every schedule delivers |
| platform | workflow: 2 processes, 1 component, stages W0, W4, W7, W8, W9; key: 3 sites, 2 siblings, 3 writes of clients and resolutions up to 4 writes, all in the name of one site; queue: 2 messages, 2 consumers, 2 attempts, 2 publications each; control state: 2 keys, 2 controllers, 3 revisions, transactions of any keys that compare nothing or all; electron store: 2 electrons, 5 commands, 2 receipts, one error or one crash; service: 3 electrons, 2 contents, 2 checkpoints, 5 requests, one fault | the gate's verdict rests on what it says, the evidence file stays a chain; open conflicts are kept, and sites that took the same writes agree on them; messages have one effect or are accounted for; a controller that catches up has an exact copy; after commands that were not disturbed the audit of `core.py` refuses nothing but receipts of ticks that were run again; what a state relies on is there; anchors heal at the next seal; no failed command leaves an electron RUNNING; checkpoints that are referred to verify, restoring loses no record and frees no clone id, the service's ledger lags by what a fault cut off |
| electron_fail_closed | the electron store alone, 1 electron, no failures | **violation**: suspend and resume make a faulted electron operable |
| electron_receipts | as before | **violation**: an execution after a restore overwrites the receipt of its tick, and the audit refuses the electron |
| rowsum_raises | the component Stabilizer alone, with the wires of program | **violation**: `S`, `H` and a measurement of one wire raise SimulationError |
| lww_order | 2 replicas, timestamps from callers that may be no later than the register's | **violation**: merging registers is not commutative |
| broadcast_root | the collectives of parts | **violation**: a tree broadcast from a root other than 0 leaves ranks without the value |
| certify_blocked | the workflow of platform, one process | **violation**: a component with a requirement that W8 found blocked is certified |

Why the bounds are enough: each component is at the smallest size at which its
hazards happen, and TLC's coverage confirms that every disjunct of every
next-state relation is taken. A swap needs three nodes and two input ebits. A
chain of retries needs an original, its retry and a dependent. Two electrons
give forks and shared snapshots, five commands a
create-execute-snapshot-restore-execute sequence; five requests of the service
give create-checkpoint-clone-restore-clone. One slot of capacity and three
threads make two threads wait for one event. Two wires have every gate, an
entangled pair (nothing bounds the number of operations: all tableaus of two
wires are there) and a destabilizer beside the pivot's own. Three
keys let overlapping slices hand a state on twice. Four rows put two between a
row and one it conflicts with, and have antichains that need an augmented
matching; three rows on two targets are the least for a schedule longer than the
optimum. ALAP is the mode that works against the direction of time, the
other one weights the critical path. Three tasks (or futures) let one
wait for a second, inside a drain, while a third is pending around both. Three
replicas and three updates let two updates meet at a replica that made neither;
three sites and three writes let a third sibling find the conflict set full, a
fourth is a resolution. Which site's name it is made in matters only
in that it is the resolving site's own or another's, and with one name both
happen. Three revisions let a transaction write both keys between two
watches, and one be overwritten. Dataflow has a node with two inputs, one with two outputs,
and a chain. Six workers are the first number that is neither a power of two
nor one more or less. W8 stands for the stages that only assess (W1 to W3, W5,
W6), which W7 precedes or follows; with one component, results of several are
not told apart in the gate, whose clauses are per component.

Deadlock is not checked: all these objects are passive and may be left alone,
and the bounds run out.

**Symmetry** is used for the nodes of protocols and the tasks that are stolen in
parts, which nothing orders or distinguishes; neither run has a liveness property.

**Fairness.** Only liveness properties use it.
Channel: a thread that can take a step inside a call is scheduled (weak
fairness of each thread's `ChannelAdvance`); timeouts, calls and closes are never
forced. TaskRuntime: the loop goes on and the function of a task ends.
AsyncEngine: the loop goes on, and foreign code that gets control again and
again ends eventually (strong fairness of `ForeignEnds`): a thunk makes finitely
many calls. Both are assumptions about the user's functions, not about the code.

**Refinement.** Channel implements BoundedFifo (ImplementsFifo) and Replicas
implements ReplicatedObject (ImplementsObject). Both are checked, and proved:
the first for every number of threads, channels and slots, the second for every
number of replicas, updates and rounds.

## 4. The proofs

TLAPS checks these for every value of the constants (under the named
assumptions of the modules), the runs only for theirs. The assumptions say what
the code takes for granted: numbers are natural numbers, limits and the slots of
the wheel are positive, the stages of the workflow end with W9
(ConformanceAssumption), each channel of the dataflow has one writer and one
reader (DataflowAssumption), values that are compared are numbers
(ReplicasAssumption), no task, resource or future has the name of another
(DetectorAssumption: the detector keeps them in one table), the cells of a row
name objects of a finite set, links and lanes that there are, the cost of a row is a natural number, 0 for
barriers and the like (GraphAssumption), a simulator has a wire
(StabilizerAssumption), a canonical text is a sequence of blocks
(CheckpointAssumption), conflicts are resolved in the name of sites
(KeyAssumption), and transactions compare keys with revisions
(ControlAssumption). Checksums of different blocks are taken to differ. TLC
evaluates the assumptions in the runs.

`LWWRegister.set` accepts any timestamp, and what can be said of registers
depends on it. The default timestamp, 1 plus the register's, is always later; of
those a caller passes StampsMayLag says whether they may be no later than the
register's, older or equal. That converge() needs two rounds is proved for any
timestamps. The laws of merging are proved of the Lamport policy for any
timestamps, of the vector policy for later ones only: with an equal one two
registers may dominate each other, and with that merging does not commute (the run
lww_order). That a replica shows a function of the updates it has seen is proved of
registers for later timestamps only (StampsAdvance): an update with an older or
an equal one may leave a register with a value that an update in its own past
outranks, and no function of the set of updates gives it that value. Nothing is
assumed of the other types.

| module | theorems | inductive invariant |
|---|---|---|
| ProtocolProofs (EbitLedger) | types, single use, consumption in time, finality of ends, swaps are backed | types, NoDoubleUse and NoLateConsumption together; SwapConserves needs in addition that a consumed record is never rewritten |
| ProtocolProofs (ClassicalFeedback) | types, causality, retries after timeouts, corrections after bits, history | a message's dependencies have smaller numbers and were delivered when it was sent |
| SharingProofs (Channel) | types, no lost wakeup, refinement of BoundedFifo | NoLostWakeup is inductive with the types: whatever could make a waiting thread runnable empties the wait set of that channel |
| SharingProofs (TaskRuntime) | types, one holder, no re-entry, nothing forgotten, answered awaits | OneHolder and NothingForgotten with the types, and for NoReentry the frames of the stack of drains: the task that a drain executes is not READY and is in the batch of no drain further in |
| ProgramProofs (AsyncEngine) | types, run once, causality, giving up only what is blocked, finality of resolutions | RunOnce in terms of the sets of futures that the drains hold; a future whose thunk runs has its dependencies settled; only the innermost drain is in its loop, so nothing changes between finding a future blocked and giving up |
| ProgramProofs (Ownership) | no cloning | two keys of one lineage are the same unless one has moved, and no record is of a lineage to come, so that what a row mints is new |
| ProgramProofs (Replicas) | every replica is faithful to what it has seen, the laws of merging, two rounds of converge() suffice, refinement of ReplicatedObject | RepInv: what a replica holds is a function of the set of updates it has seen, which is causally closed. Counters hold each writer's sum over the set, and of each writer everybody has seen a prefix, so the larger of two sums is that of the union; a tagged set holds the additions in the set whose tags no removal in it has taken along, the tags of callers included; a register holds the latest write by stamp and writer, with the last stamp of each writer. Merging is then union. A round is a fold over the pairs of members, and nothing is updated between the rounds of one call: the first member has heard everything once it has met the last, and everyone later hears it on meeting the last. Of registers whose stamps lag only this much is left, and it is enough: what the first member has met before is under what it has, so that what the two hold when it meets the last is what all end with |
| GraphProofs | what `build_ses` remembers, conflicts are ordered, the measures are exact, schedules are sound | GraphInv: what is remembered of each object, link and lane is the last row of each kind, and each row has the edges that follow from what was remembered when it came. A conflict with a row that is no longer remembered is ordered by way of the row that took its place, so the paths go by induction over the rows between. Over a graph whose edges lead forward: Kahn's loop takes the least row that is ready, which is the next; reachability, levels and spans are what their recursions solve; an edge is dropped from the reduction exactly when a longer path replaces it, and the shortest rows apart keep theirs. Kuhn's loop keeps a matching and ends when no row without a partner has an augmenting path; the rows that alternating paths from those reach name a cover, the rest an antichain of the size of rows less matching, which no antichain exceeds (Dilworth). A pass of the scheduler keeps what is scheduled feasible and schedules a ready row, so as many passes as rows are enough; any feasible start times can be moved to the left, to ones the exhaustive search has |
| SimulatorProofs | gates, measurements and resets are exact; only the pivot's partner is refused, and nothing in the deterministic branch | WellFormed: a row anticommutes with its partner alone, and nothing but the identity commutes with all rows. It says nothing of signs, and is kept because anticommuting is linear over the bits (the parity of a symplectic product): gates keep it, and the random branch adds the pivot just where that keeps it. Signs follow from the products: Multiply is associative, rows square to one, products over two sets of commuting rows multiply to the one over their difference, so the stabilizers generate a group; the phase that `_rowsum` adds up wire by wire is that of Multiply. The scratch row of the deterministic branch commutes with each stabilizer it is multiplied by, so `_rowsum` does not raise there; it is in the group and is Z on the wire but for its sign; Z is in no group with a stabilizer that anticommutes with it; and each product that commutes with Z is one of the multiplied rows. For gates the images of X and Z are multiplied in closed form and compared with the row, wire by wire |
| PhotonProofs (VECService) | types, sound checkpoints, free clone ids, kept history, saved before logged, the lag of the ledger | Fit: for each write still to be made, what must be so when its turn comes given the writes in front of it (a snapshot comes first; a state extends the stored one and refers to checkpoints that are there or written before; the parent of a clone has been counted or is written before; an event follows its state). LagInv: the list saves no state without an event after it and owes events to two electrons at most, and those it owes none and the ledger is behind of are two for each fault |
| PhotonProofs (ElectronStore) | anchors heal, none is stranded, audits are backed | what the files say now together with what the list of writes still to be made will do. HealInv: every write that parts ledger and anchor is followed by a seal, and an electron whose anchor is not the head of its ledger has a seal to come or was interrupted. StrandInv: a RUNNING electron gets another status from a write to come, and from the exception handler should one raise. LineageInv: an electron's lineage holds the lineages of all its ancestors, so that what a state or a snapshot refers to belongs to one of them. EvidenceInv: a reference is to what is there, or is written after what it names. CleanInv: what an undisturbed command has yet to append is what audit would miss. MatchInv: the receipt of each accepted execution is the one on disk or still to be written before its event, or a later event of the ledger names the same file |
| PartsProofs (Supervision, RecoveryTransaction, CheckpointStore) | earned recoveries (honest reports and escalation), outcomes of transactions, faithful loads | no subject has more recoveries at a level than decisions taken there, nor than the budget; the rule on rebuilding unknown state is the first to fire; a journal entry of a key that was not written blindly is the caller's prior value, and what is live is that or the last update; a stored checksum is of the text of what was saved, or corrupt |
| PartsProofs (BSPEngine, Dataflow, WorkStealing) | messages arrive once, runs stop only when stuck, firings are whole, tasks are kept, steals are sound | what a worker has computed on, followed by its inbox, is what it was sent; until something fires, the nodes a round has passed cannot; the tokens waiting at an input are the next ones the node needs, as many as the channel's source has made and the node has not taken; no task is in two deques or twice in one, and those that were handed out are in none; the levels of the walk outward are the distances between workers |
| PartsProofs (DeadlockDetector) | it misses no deadlock and reports a shortest cycle | the graph has an edge from each waiting task to what it waits for, and from that to the task that has or makes it. Of the search: the paths found are to different names, in the order of their lengths, which differ by one at most behind the path it is at (Searched); so it reaches each name on a walk by a path no longer than the walk. Where each of some names leads to another of them there is a cycle: one among them from which the fewest names can be reached reaches itself |
| PartsProofs (Collectives) | every schedule delivers, for any number of workers | that the result is the one of the request, which says all; the work is in the schedules, each with a closed form of what it has at each step: after k rounds the binomial tree from rank 0 has reached the ranks below 2^k, recursive doubling has combined the blocks of 2^k, a shifted scan the last 2^k values before a rank; a halved range has the values of its ranks in order; round a ring each rank comes by once. When a number of workers is a power of two its blocks fill up the ranks, and no partner is missing |
| PartsProofs (TimerWheel) | timers are on time | WheelInv: a timer is in the slot of its tick until it is called; an advance() under way has only timers to call whose tick the clock has reached, and unless it was nested it is the tick of the clock; one that is past and not called is being called, had delay 0 or was taken by a callback that raised |
| SharingProofs (Conformance) | releases are backed | while no two runs overlap the one under way has the file in memory; the ledger of a run that has refused nothing ends with the records of all stages it is through with, and W9 is the last |
| SharingProofs (ReplicatedKey) | conflicts are kept | a site's siblings are the maximal ones of what it took and each write it took is a sibling or succeeded by one: dominance is a strict partial order |
| SharingProofs (ReliableQueue) | messages are accounted for | a published message is owned, parked after all its attempts or done; an effect and being done go together; what a consumer has marked as done is acknowledged, whoever's delivery that ends |
| SharingProofs (ControlState) | watchers catch up | the history is in order of revisions, has the change that made each entry newer than the compaction, and a change in it as old as the entry of its key is that entry; a controller's copy is exact for every entry older than the revision it watches from |

Each proof follows one plan: lemmas that say what a shape of step preserves
(rewriting one record, adding one, changing one channel, taking a task off one
deque), one step per action that reduces the action to such a shape, and a
temporal conclusion by PTL.

Proved and not in a run: the type invariants, what the graph remembers, NoLateConsumption,
TerminalFinal and HistoryIsKept (no record of an end is rewritten),
RetriesFollowTimeouts, NoReentry, Causal, GivesUpOnlyBlocked, ResolvedStays,
LoggedWasStored. Each was model-checked before it was proved.

The induction principles of the library take an operator as a parameter, which
the installed provers cannot instantiate. Where a proof needs one over numbers
it goes by the least counterexample (LeastNatural) or by a set of numbers that
has the first and with each the next (BoundedInduction). That a recursive
function is defined on all of its domain is proved from its rules, kept in a
table so that no lemma needs an operator as a parameter (RuleTables,
UpwardRecursion, DownwardRecursion), or by a closed form that solves them;
what it computes is then an induction of the kind above.

Only model-checked:

- LifecycleIsKept of ElectronStore, which was checked before its run went to
  other properties;
- the liveness properties CloseReleases, DrainsReturn and DrainsEnd: liveness
  under fairness is beyond the proof system;
- the violations.

## 5. Where the code and its documents disagree

Six disagreements have a run (section 3) and an entry in PROJECT.json
"findings". Others were met while modelling. Those that are stated in a module,
as a property that TLC refutes and no run lists:

- Channel, SelectEndsEmpty: `select` reports "closed and empty" with an item in
  a channel that closed after the peek.
- TaskRuntime, RunsOnlyReady: a task that a nested drain finished is executed
  again by the drain around it.
- AsyncEngine, NoneForgotten: an exception that leaves `drain()` takes the rest
  of the batch with it.
- WorkStealing, MigrationsPermitted: `attempt_steal` does not ask the migration
  rules that `steal_specific` applies.

And those that are visible in the models without being stated:
the scheduler counts the pairs that the concurrency admission serialises
(`planner.py`:1115) but orders rows by edges alone, so two such rows may overlap
when neither writes what the other uses (a measurement and a row on other
wires, though core/spec/PA_LCTL_MEASUREMENT_SEMANTICS.md:32 calls a measurement
"an absolute reorder barrier"), and so may a barrier and a row after it, since a
barrier gets edges from the rows before it only (`ses.py`:295); a critical path among several of one length depends on the
order of a set of strings;
a suspended electron can be cloned (PHOTON/shell/VEC1/CHANGELOG.md:112); an
operation answered as a conflict because the ledger is damaged has been applied
(PHOTON/shell/VEC1/docs/INSTITUTE_ASSEMBLY_NOTES.md:25); a resolution of a
replicated key may reuse the counter of a quarantined write.

## 6. What is not modelled

PROJECT.json lists every component with its status.

- Parsing, numerics, report generation and command lines (the rest of `lang.py`,
  `planner.py` and `simulator.py`, `ledgers.py`, `conformance.py` of pacore, the
  adapters, the release tooling): no state that outlives a call, and results
  that are numbers or text. They are the larger part of the code by lines.
- In Ownership, checks of a row by itself and what follows a rejected row; in
  SemanticGraph, partitioning, routing and placement (any placement is taken),
  crosstalk, coherence and error totals, the concurrency admission and the
  widths of graphs too large for the exact algorithm; in Stabilizer, dense
  vectors and the sampling of counts.
- `ProtocolCompiler`, `adapter/dfabric`, vecctl: straight-line programs over
  components that are modelled. vecctl's one stateful step, naming evidence by a
  tick read outside the lock, is listed as a hazard.
- LoadBalancer, StragglerEngine, GrainSizeEngine and the anti-thrash guard: they
  advise on numbers; nothing in the fabric depends on the advice.
- EventLog and its replay: an append-only list whose content is formatting. The
  clocks that stamp it are in ClassicalFeedback.
- Contracts and certificates of `crdt.py`: records checked when they are made.
- Token checks, digests and the lock file of the shell (pure functions and
  input/output).
- Edits of ledger and evidence files by other programs, which the hash chains
  exist to detect; a record that was written whole but for its end of line.
- The processes of the process pool, whose effect on the runtime is one step.
- The other packages of `pk_components`: independent state machines of some
  forty lines, most with one guard per call; and the text of the contracts.

Amplitudes, values, names, metrics and log records are abstracted away wherever
no property is about them. In VECService a caller never chooses the id that the
next clone will get; the code refuses such a clone before it writes.

## 7. What would come next

1. More of `pk_components` where several state machines act on one resource:
   leases with fencing, rollouts against the control state, durable execution.
2. Dataflow over Channel itself instead of over queues that threads use
   atomically.
