SPECIFICATION Spec
CONSTANTS
  Party = {alice, bob}
  Payload = {m1}
  Time = {1}
  Cmd = {c1}
  MaxCommands = 3
  MaxSeals = 1
  LowOrder = LowOrder
  Garbled = Garbled
SYMMETRY Symmetric
INVARIANT OpenedWasSealed
CHECK_DEADLOCK FALSE
