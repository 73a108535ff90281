---------------------------- MODULE MCContainer -----------------------------
EXTENDS Container

MCHostAbstractSet == BOOLEAN
\* no Landlock (error), a kernel without the abstract-socket scope, and one with it
MCLandlockABISet == {0, 5, 6}
MCPathSetSet == BOOLEAN
MCHasOpsSet == BOOLEAN
MCCgroupSetSet == BOOLEAN
=============================================================================
