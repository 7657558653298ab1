SPECIFICATION Spec
CONSTANTS
  N = 2
  Elements = {1}
  Values = {1, 2}
  Amounts = {1}
  Stamps = {1, 2}
  Tags = {}
  StampsMayLag = TRUE
  RoundLimits = {3}
  MaxUpdates = 3
INVARIANT
  MergeLaws
CHECK_DEADLOCK FALSE
