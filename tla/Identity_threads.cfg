SPECIFICATION FairSpec
CONSTANTS
  a1 = a1
  a2 = a2
  b1 = b1
  A = A
  B = B
  pid1 = pid1
  pid2 = pid2
  Callers = {a1, a2, b1}
  Process = {A, B}
  ProcOf <- ThreadsOf
  Pid = {pid1, pid2}
  PidOf <- DistinctPids
  FaultSets = {{"kill", "io", "unlink"}, {"io", "stat"}}
  MaxCalls = 1
  None = None
  Partial = Partial
INVARIANTS TypeOK TmpOwned ReturnedIsPersisted NoTmpLeft
PROPERTIES ImplementsWriteOnceKey EveryCallReturns
CHECK_DEADLOCK FALSE
