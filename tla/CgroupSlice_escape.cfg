CONSTANTS
  Names <- MCNames
  MaxElems = 4
SPECIFICATION Spec
INVARIANT SliceBeneathCgroupRoot
CHECK_DEADLOCK FALSE
