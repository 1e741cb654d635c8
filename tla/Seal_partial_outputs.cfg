SPECIFICATION Spec
CONSTANTS
  Party = {alice, bob}
  Payload = {m1}
  Time = {1}
  Cmd = {c1}
  MaxCommands = 1
  MaxSeals = 1
  LowOrder = LowOrder
  Garbled = Garbled
SYMMETRY Symmetric
INVARIANT NoPartialOutputs
CHECK_DEADLOCK FALSE
