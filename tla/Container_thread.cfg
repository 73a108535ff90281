CONSTANTS
  HostAbstractSet <- MCHostAbstractSet
  LandlockABISet <- MCLandlockABISet
  PathSetSet <- MCPathSetSet
  HasOpsSet <- MCHasOpsSet
  CgroupSetSet <- MCCgroupSetSet
  MaxFaults = 0
SPECIFICATION Spec
PROPERTY LockedThreadReleased
