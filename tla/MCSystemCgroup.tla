--------------------------- MODULE MCSystemCgroup ---------------------------
(* Instances of identity 1 sharing the slice "hakurei.slice": two, or    *)
(* three, which are interchangeable for a safety check.                    *)
EXTENDS SystemCgroup, TLC

CONSTANTS a, b, c

MCInst == {a, b}
MCIdentityOf == [i \in MCInst |-> "hakurei-1"]
MCInst3 == {a, b, c}
MCIdentityOf3 == [i \in MCInst3 |-> "hakurei-1"]
\* the instances differ only in their names
MCSymmetry == Permutations(MCInst3)
MCSlice == <<"hakurei.slice">>
MCShareDir == <<"hakurei.0">>
\* a config limiting cpu and pids, and one limiting memory only
MCLimitSet == {[cpu |-> 50000, memory |-> 0, pids |-> 16],
               [cpu |-> 0, memory |-> 2048, pids |-> 0]}
MCCriteriaSet == {NilCriteria, {"User"}}
\* a syscall of any step may fail
MCFaultAt == PCs
\* only the ephemeral op's mkdir may fail: faults outside the cgroup op
MCFaultAtEphemeral == {"eph_apply"}
=============================================================================
