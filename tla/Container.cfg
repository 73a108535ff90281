CONSTANTS
  HostAbstractSet <- MCHostAbstractSet
  LandlockABISet <- MCLandlockABISet
  PathSetSet <- MCPathSetSet
  HasOpsSet <- MCHasOpsSet
  CgroupSetSet <- MCCgroupSetSet
  MaxFaults = 1
SPECIFICATION Spec
INVARIANT InitConfined
INVARIANT InitInCgroup
INVARIANT SetupPipeReleased
PROPERTY WaitReturns
