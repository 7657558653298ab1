SPECIFICATION ProgramSpec
CONSTANTS
  q1 = q1
  q2 = q2
  e = e
  b = b
  ab = ab
  cd = cd
  none = none
  ObjectKeys = {q1, q2, e}
  Slices <- MCSlices
  HostNodes = {ab}
  NoNode = none
  Bits = {b}
  MaxLineages = 2
  Qubits = 2
  Rows <- MCRows
  Objects <- MCObjects
  Links = {ab}
  Lanes = {ab}
  Null = none
  Entanglements <- MCEntanglements
  Targets <- MCTargets
  Routes <- MCRoutes
  MessageTime = 1
  Modes = {"ALAP", "FIDELITY_AWARE"}
  MaxRows = 4
  MaxScheduled = 3
  N = 3
  Elements = {1}
  Values = {1, 2}
  Amounts = {1}
  Tags <- MCTags
  Stamps = {2}
  StampsMayLag = FALSE
  RoundLimits = {3}
  MaxUpdates = 3
INVARIANTS
  TableauIsExact
  GraphIsExact
  ScheduleIsSound
  MergeLaws
PROPERTIES
  NoCloning
  ImplementsObject
  ConvergeReachesAll
CHECK_DEADLOCK FALSE
