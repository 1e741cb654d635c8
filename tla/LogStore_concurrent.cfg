CONSTANTS
  Procs = {p1, p2}
  Initers = {p1, p2}
  Appenders = {p1, p2}
  Signers = {p2}
  Crashes = TRUE
  Damage = FALSE
  Origin = {o1}
  Payload = {d1, d2}
  MaxLeaves = 2
  Absent = Absent
  Malformed = Malformed
  Empty = Empty
SPECIFICATION Spec
SYMMETRY Symmetry
INVARIANTS AckDurable LeavesContiguous SignedWholeLeaves
CHECK_DEADLOCK FALSE
