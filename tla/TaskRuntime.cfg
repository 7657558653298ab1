SPECIFICATION FairSpec
CONSTANTS
  q1 = q1
  MaxTasks = 3
  Priority <- MCPriority
  Payloads <- MCPayloads
  Profiles <- AllProfiles
INVARIANTS
  OneHolder
  NothingForgotten
PROPERTIES
  AwaitsAreAnswered
  DrainsReturn
CHECK_DEADLOCK FALSE
