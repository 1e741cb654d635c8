SPECIFICATION Spec
CONSTANTS
  Party = {alice, bob}
  Payload = {m1, m2}
  Time = {1}
  Cmd = {c1, c2}
  MaxCommands = 3
  MaxSeals = 2
  LowOrder = LowOrder
  Garbled = Garbled
SYMMETRY Symmetric
INVARIANTS TypeOK OpenedWasVouchedFor DecryptedWasAttested AcceptedWasIssued AckedSealOpens NoStrandedEnvelope
CHECK_DEADLOCK FALSE
