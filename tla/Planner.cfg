\* Every Validate outcome, two of the four enablements, six helper-call
\* sequences per op, every edge of the wait-delay clamp, both uid mappings,
\* two users, both edges of the identity range and an identity reaching into the
\* next user's block of uids.
CONSTANTS
  Enabled <- MCEnabled
  HelperCalls <- MCHelperCalls
  CgroupSet <- MCCgroupSet
  MayFail = TRUE
  WaitDelaySet <- MCWaitDelaySet
  UserIDSet <- MCUserIDSet
  IdentitySet <- MCIdentitySet
  RealUid = 1000
  OverflowId = 65534
SPECIFICATION Spec
INVARIANT TypeOK
INVARIANT SystemOpsRegisteredOnce
INVARIANT RuntimeParentsFirst
INVARIANT ShimMatchesSystem
INVARIANT PipelineNeverFails
INVARIANT ShimAgreesWithPriv
INVARIANT UidIdentifiesApp
