SPECIFICATION StabilizerSpec
CONSTANT
  Qubits = 2
INVARIANT
  NeverRaises
CHECK_DEADLOCK FALSE
