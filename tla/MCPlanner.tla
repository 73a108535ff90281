----------------------------- MODULE MCPlanner ------------------------------
EXTENDS Planner

\* one optional op enabled, one not
MCEnabled == {"wayland", "dbus"}
\* no helper, each helper alone, and the helpers repeated and interleaved
MCHelperCalls ==
  {<<>>, <<"instance">>, <<"runtime">>, <<"ensureRuntimeDir">>,
   <<"instance", "runtime">>, <<"ensureRuntimeDir", "runtime", "instance">>}
\* below zero, zero, inside the bounds, at the maximum and above it
MCWaitDelaySet == {-1, 0, 1, 30, 31}
\* two neighbouring users, whose blocks of uids adjoin
MCUserIDSet == {0, 1}
\* both ends of the identity range, their neighbours outside it, and the
\* first identity that reaches into the next user's block
MCIdentitySet == {0, 1, 9999, 10000, 100000}
\* no cgroup, a valid one, and the two a CgroupConfig.Validate rejects
MCCgroupSet == {"none", "ok", "negPids", "badSlice"}
=============================================================================
