SPECIFICATION Spec
CONSTANTS
  log = log
  copy = copy
  other = other
  o1 = o1
  o2 = o2
  ctrl = ctrl
  k1 = k1
  k2 = k2
  id1 = id1
  id2 = id2
  Logs <- MCLogs
  OriginOf <- MCOriginOf
  KeyOf <- MCKeyOf
  MaxSizeOf <- MCMaxSizeOf
  Leaves = {x, y}
  Names = {o1, o2, ctrl}
  ControlNames = {ctrl}
  Keys = {k1, k2}
  KeyIds = {id1, id2}
  KeyIdOf <- MCKeyIdOf
  MaxSignatureLines = 2
  MaxNoteLines = 6
  MaxJsonTreeSize = 5
  MaxInclusionHashes = 3
  MaxConsistencyHashes = 3
SYMMETRY LeafSymmetry
INVARIANTS CheckpointSound CosignedVerifies InclusionSound ConsistencySound BuildInclusionExact BuildConsistencyExact
CHECK_DEADLOCK FALSE
