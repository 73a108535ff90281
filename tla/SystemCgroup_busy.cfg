\* No injected faults, slice on cgroup2.
CONSTANTS
  a = a
  b = b
  c = c
  NilCriteria = NilCriteria
  Inst <- MCInst
  IdentityOf <- MCIdentityOf
  Slice <- MCSlice
  ShareDir <- MCShareDir
  LimitSet <- MCLimitSet
  CriteriaSet <- MCCriteriaSet
  SliceUp = {TRUE}
  CgroupFS = TRUE
  MaxFaults = 0
  FaultAt <- MCFaultAt
  MaxCrashes = 0
SPECIFICATION Spec
INVARIANT RevertErrorOnlyOnFault
