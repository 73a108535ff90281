\* The slice on cgroup2 (the deployed case) with per-instance fairness and
\* one failing mkdir of the ephemeral op, so Commit rolls the cgroup op back.
CONSTANTS
  a = a
  b = b
  c = c
  NilCriteria = NilCriteria
  Inst <- MCInst
  IdentityOf <- MCIdentityOf
  Slice <- MCSlice
  ShareDir <- MCShareDir
  LimitSet <- MCLimitSet
  CriteriaSet <- MCCriteriaSet
  SliceUp = {TRUE, FALSE}
  CgroupFS = TRUE
  MaxFaults = 1
  FaultAt <- MCFaultAtEphemeral
  MaxCrashes = 1
SPECIFICATION FairSpec
INVARIANT RevertRemovesInstanceCgroup
PROPERTY TransactionRefined
