\* No injected faults, slice present: only the interleaving of siblings.
CONSTANTS
  a = a
  b = b
  c = c
  NilCriteria = NilCriteria
  Inst <- MCInst
  IdentityOf <- MCIdentityOf
  Slice <- MCSlice
  ShareDir <- MCShareDir
  LimitSet <- MCLimitSet
  CriteriaSet <- MCCriteriaSet
  SliceUp = {TRUE}
  CgroupFS = FALSE
  MaxFaults = 0
  FaultAt <- MCFaultAt
  MaxCrashes = 0
SPECIFICATION Spec
INVARIANT CommitFailsOnlyOnFault
