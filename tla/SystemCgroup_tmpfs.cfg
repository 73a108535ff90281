\* Ordinary filesystem (as in TestCgroupOp), three instances of one identity,
\* one injected fault and one crash.
CONSTANTS
  a = a
  b = b
  c = c
  NilCriteria = NilCriteria
  Inst <- MCInst3
  IdentityOf <- MCIdentityOf3
  Slice <- MCSlice
  ShareDir <- MCShareDir
  LimitSet <- MCLimitSet
  CriteriaSet <- MCCriteriaSet
  SliceUp = {TRUE, FALSE}
  CgroupFS = FALSE
  MaxFaults = 1
  FaultAt <- MCFaultAt
  MaxCrashes = 1
SPECIFICATION Spec
SYMMETRY MCSymmetry
INVARIANT TypeOK
INVARIANT RevertRemovesInstanceCgroup
INVARIANT RevertFilterRespected
INVARIANT RollbackRestoresEarlierOps
INVARIANT RevertErrorOnlyOnFault
INVARIANT LeftoversOnlyOfCrashed
INVARIANT SharedDirLeftOnlyWhenBusy
