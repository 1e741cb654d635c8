CONSTANTS
  Procs = {p1}
  Initers = {p1}
  Appenders = {p1}
  Signers = {p1}
  Crashes = TRUE
  Damage = TRUE
  Origin = {o1, o2}
  Payload = {d1, d2}
  MaxLeaves = 2
  Absent = Absent
  Malformed = Malformed
  Empty = Empty
SPECIFICATION Spec
SYMMETRY Symmetry
INVARIANTS TypeOK DirOpens NoEquivocation AckedIsProvable SignedAreLinked
PROPERTY ImplementsAppendOnlyLog
