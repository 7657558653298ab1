\* CHECK_DEADLOCK: timers, tasks and attempts run out, and locks deadlock
SPECIFICATION Spec
CONSTANTS
  \* resilience.py
  None = None
  Subjects = {s1}
  Budget <- MCBudget
  Overrides <- MCOverrides
  Keys = {x, y}
  Values = {v, w}
  QuantumKeys = {q1}
  Objects = {o1, o2}
  CheckpointIds = {c1}
  Payloads = {"list", "tuple", "longer", "state", "repr"}
  QuantumPayloads = {"state"}
  Blocks = {"a", "b"}
  Text <- MCText
  \* fabric.py
  Order <- MCOrder
  Inputs <- MCInputs
  Outputs <- MCOutputs
  Owner <- MCOwner
  Capacity <- MCCapacity
  Satisfiable = {"lift", "join", "fan"}
  Guarded = {"join"}
  Timed = {"fan"}
  MaxSteps = 2
  MaxTokens = 2
  MaxRaises = 1
  N = 2
  MaxAttempts = 3
  MaxPlan = 2
  Slots = 3
  MaxTimers = 3
  MaxTicks = 2
  MaxNow = 5
  MaxNested = 2
  Tasks = {t1, t2}
  Group <- MCGroup
  Domain <- MCDomain
  Trust <- MCTrust
  Elastic = "g"
  First = 5
  MinSize = 1
  MaxSize = 3
  LockTasks = {1, 2, 3}
  Resources = {4, 5}
  Futures = {6}
  Producer <- MCProducer
  MaxWorkers = 6
SYMMETRY Symmetry
INVARIANTS
  TransactionOutcome
  LoadReturnsSaved
  FiringsAreWhole
  MessagesOnce
  TimersFireOnTime
  MissesNoDeadlock
  CollectivesDeliver
PROPERTIES
  RecoveryIsEarned
  RunStopsOnlyWhenStuck
  StealsAreSound
  TasksAreKept
CHECK_DEADLOCK FALSE
