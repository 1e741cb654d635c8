SPECIFICATION Spec
CONSTANTS
  TopBytes = {0, 1, 127, 128, 255}
  MidBytes = {0, 255}
  LowBytes = {0, 1, 23, 24, 25, 230, 231, 232, 254, 255}
INVARIANTS ReadsBack OneEncoding DocumentedSizes
