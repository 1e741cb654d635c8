CONSTANTS
  Procs = {p1, p2}
  Initers = {p1}
  Appenders = {p1, p2}
  Signers = {}
  Crashes = FALSE
  Damage = FALSE
  Origin = {o1}
  Payload = {d1, d2}
  MaxLeaves = 2
  Absent = Absent
  Malformed = Malformed
  Empty = Empty
SPECIFICATION Spec
SYMMETRY Symmetry
INVARIANT DirOpens
CHECK_DEADLOCK FALSE
