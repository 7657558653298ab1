\* CHECK_DEADLOCK: runs, writes, messages, revisions, commands and requests run out
SPECIFICATION PlatformSpec
CONSTANTS
  Runs = {r1, r2}
  Components <- MCComponents
  Stages <- MCStages
  Sites = {s1, s2, s3}
  Resolvers = {s1}
  MaxSiblings = 2
  MaxPut = 3
  MaxWrites = 4
  MessageIds = {m1, m2}
  Consumers = {c1, c2}
  Visibility = 1
  MaxDeliveries = 2
  MaxPuts = 2
  StateKeys = {k1, k2}
  Controllers = {d1, d2}
  NoValue = none
  Compares <- MCCompares
  MaxRevision = 3
  ElectronIds = {e1, e2}
  MaxSealed = 2
  MaxReceipts = 2
  MaxCommands = 5
  MaxErrors = 1
  MaxCrashes = 1
  MaxElectrons = 3
  Contents = {0, 1}
  NewContent = 0
  MaxSnapshots = 2
  MaxRequests = 5
  MaxFaults = 1
  None = None
INVARIANTS
  ReleaseIsBacked
  ConflictsAreKept
  MessagesAccounted
  WatchersCatchUp
  AuditIsBacked
  AnchorsHeal
  NeverStranded
  CheckpointsVerify
  NoCloneCollision
  LedgerLag
CHECK_DEADLOCK FALSE
