\* CHECK_DEADLOCK: ebits, epochs and messages run out
SPECIFICATION ProtocolsSpec
CONSTANTS
  n1 = n1
  n2 = n2
  n3 = n3
  c1 = c1
  none = none
  Nodes <- MCNodes
  Clients <- MCClients
  NullCell = none
  MaxEbits = 3
  MaxEpoch = 1
  MaxFidelity = 0
  Timeout = 1
  MaxRetries = 1
  Latencies <- MCLatencies
  MaxMessages = 3
  MaxSendTime = 1
  MaxDeclared = 1
SYMMETRY NodeSymmetry
INVARIANTS
  NoDoubleUse
  SwapConserves
  FeedbackIsCausal
CHECK_DEADLOCK FALSE
