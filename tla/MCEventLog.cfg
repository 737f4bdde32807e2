SPECIFICATION Spec
CONSTANTS
  d1 = d1
  d2 = d2
  Draft <- MCDraft
  MaxSeq = 3
  MaxTick = 1
  MaxBatch = 3
  MaxSavepoint = 2
  MaxUnsealed = 1
INVARIANTS
  TypeOK
  ChainVerifies
  StagedContinuesChain
  SavepointsMatchBatch
CHECK_DEADLOCK FALSE
