---------------------------- MODULE SystemCgroup ----------------------------
(***************************************************************************)
(* The transaction engine of internal/system (system.I: Commit, Revert)  *)
(* running, for every hakurei instance, the ops the outcome planner      *)
(* registers in order: the process-scoped cgroup op                      *)
(* (internal/system/cgroup.go, registered by spCgroupOp.toSystem) and the *)
(* ephemeral per-instance directory in TMPDIR (outcomeStateSys.instance). *)
(* Several instances of one identity run concurrently against one host    *)
(* filesystem, so they share the intermediate "hakurei-<identity>"        *)
(* cgroup directory while each owns its leaf "<slice>/hakurei-<id>/<ID>". *)
(*                                                                         *)
(* Every syscall is one atomic step; the steps of different instances    *)
(* interleave arbitrarily, as the processes of different invocations do. *)
(* A syscall that can fail for reasons outside the model (EACCES, EIO,   *)
(* a controller not delegated, a cgroup still populated) fails           *)
(* nondeterministically, at most MaxFaults times in a behaviour.         *)
(***************************************************************************)
EXTENDS Naturals, Sequences, SequencesExt, FiniteSets

CONSTANTS
  Inst,         \* instance IDs (model values); each instance owns one system.I
  IdentityOf,   \* [Inst -> component "hakurei-<identity>"]
  Slice,        \* the resolved slice path, a sequence of path components
  ShareDir,     \* the TMPDIR share path holding per-instance directories
  LimitSet,     \* CgroupLimits values an app config may carry
  CriteriaSet,  \* the criteria a caller may pass to Revert
  NilCriteria,  \* model value standing for a nil *Criteria
  SliceUp,      \* subset of BOOLEAN: whether the slice exists at start
  CgroupFS,     \* TRUE: Slice is on cgroup2; FALSE: an ordinary fs (tests)
  MaxFaults,    \* bound on injected syscall failures
  FaultAt,      \* the steps (pc values) whose syscall may fail
  MaxCrashes    \* bound on privileged processes dying mid-way

ASSUME MaxFaults \in Nat /\ MaxCrashes \in Nat /\ SliceUp \subseteq BOOLEAN /\ CgroupFS \in BOOLEAN

VARIABLES
  dirs,       \* directories present on the host
  files,      \* regular (or cgroup interface) files written on the host
  pc,         \* where each instance is in Commit / Revert
  step,       \* loop index of the current cgroup op loop
  created,    \* cgroupOp.created: directories this instance's op made
  cfiles,     \* cgroupOp.files: controller files this instance's op wrote
  limits,     \* cgroupOp.limits of each instance
  ec,         \* criteria the current revert runs under
  failedAt,   \* index of the op whose apply failed (0: none)
  faulted,    \* history: an injected fault hit this instance
  revertErr,  \* history: a revert of this instance returned/logged an error
  faults,     \* injected faults so far
  crashes,    \* privileged processes that died so far
  sharedBusy  \* history: directories a revert found holding another
              \* instance's cgroup

vars == <<dirs, files, pc, step, created, cfiles, limits, ec, failedAt,
          faulted, revertErr, faults, crashes, sharedBusy>>

-----------------------------------------------------------------------------
(* Paths and the ops' registration data.                                  *)

\* spCgroupOp.toSystem: instancePath = <slice>/hakurei-<identity>/<id>
Parts(i) == <<IdentityOf[i], i>>
Target(i) == Slice \o Parts(i)
NParts == 2

\* outcomeStateSys.instance: <share>/<id>, registered Ephemeral(Process, _, 0711)
InstanceDir(i) == ShareDir \o <<i>>

\* The registered ops, in the order the planner appends them.
Ops == <<"cgroup", "ephemeral">>
OpType == [o \in {"cgroup", "ephemeral"} |-> "Process"]

Controllers == <<"cpu.max", "memory.max", "pids.max">>
LimitOf(l, c) == CASE c = "cpu.max" -> l.cpu
                   [] c = "memory.max" -> l.memory
                   [] c = "pids.max" -> l.pids

Parent(p) == SubSeq(p, 1, Len(p) - 1)
Under(p) == {q \in dirs \cup files : IsStrictPrefix(p, q)}

\* Every path the system names: the type of dirs and files.
AllDirs == {Slice, ShareDir} \cup {InstanceDir(i) : i \in Inst}
           \cup {SubSeq(Target(i), 1, Len(Slice) + k) : i \in Inst, k \in 1..NParts}
AllFiles == {Target(i) \o <<c>> : i \in Inst, c \in Range(Controllers)}

Finish(i) == IF failedAt[i] > 0 THEN "failed" ELSE "done"

-----------------------------------------------------------------------------
(* Criteria.hasType: a nil criteria selects every type but User.          *)
HasType(c, t) == IF c = NilCriteria THEN t # "User" ELSE t \in c

(* Commit: when op k fails, ops [0, k) are reverted in reverse order with  *)
(* a nil criteria; the last op to roll back is therefore op k-1.           *)
RollbackFromSkipOne(k) == k - 2
RollbackFrom(k) == k - 1

\* Commit's error path entered from op OpIdx(pc[i]); Ops has the cgroup op
\* first, so the only op rolled back is the cgroup op.
OpIdx(p) == IF p = "eph_apply" THEN 2 ELSE 1
Abort(i) ==
  LET k == OpIdx(pc[i]) IN
  /\ failedAt' = [failedAt EXCEPT ![i] = k]
  /\ ec' = [ec EXCEPT ![i] = NilCriteria]
  /\ pc' = [pc EXCEPT ![i] = IF RollbackFrom(k) >= 1 THEN "cg_revert" ELSE "failed"]
  /\ UNCHANGED step

\* Consume one injected fault on behalf of instance i.
Fault(i) ==
  /\ pc[i] \in FaultAt
  /\ faults < MaxFaults
  /\ faults' = faults + 1
  /\ faulted' = [faulted EXCEPT ![i] = TRUE]

-----------------------------------------------------------------------------
(* Commit.                                                                 *)

StartCommit(i) ==
  /\ pc[i] = "idle"
  /\ pc' = [pc EXCEPT ![i] = "cg_stat"]
  /\ UNCHANGED <<dirs, files, step, created, cfiles, limits, ec, failedAt,
                 faulted, revertErr, faults>>

\* cgroupOp.apply: the prefix check always passes (the target is built
\* from the slice); stat(base) fails when the slice is missing.
CgroupStat(i) ==
  /\ pc[i] = "cg_stat"
  /\ \/ /\ Slice \in dirs
        /\ pc' = [pc EXCEPT ![i] = "cg_mkdir"]
        /\ step' = [step EXCEPT ![i] = 1]
        /\ UNCHANGED <<failedAt, ec>>
     \/ /\ Slice \notin dirs
        /\ Abort(i)
  /\ UNCHANGED <<dirs, files, created, cfiles, limits, faulted, revertErr, faults>>

\* ensurePath: cur = filepath.Join(cur, part) after k parts.
EnsurePathCurFlat(i, k) == Slice \o <<Parts(i)[k]>>
EnsurePathCur(i, k) == SubSeq(Target(i), 1, Len(Slice) + k)

\* ensurePath records every directory its mkdir created.
RecordDirDropped(i, d) == created[i]
RecordDir(i, d) == Append(created[i], d)

\* One iteration of ensurePath's loop: mkdir(cur, 0755).
CgroupMkdir(i) ==
  LET k == step[i]
      cur == EnsurePathCur(i, k)
      next == IF k = NParts THEN "cg_write" ELSE "cg_mkdir"
      nstep == IF k = NParts THEN 1 ELSE k + 1
  IN
  /\ pc[i] = "cg_mkdir"
  /\ \/ /\ cur \notin dirs /\ Parent(cur) \in dirs          \* created
        /\ dirs' = dirs \cup {cur}
        /\ created' = [created EXCEPT ![i] = RecordDir(i, cur)]
        /\ pc' = [pc EXCEPT ![i] = next]
        /\ step' = [step EXCEPT ![i] = nstep]
        /\ UNCHANGED <<failedAt, ec, faulted, faults>>
     \/ /\ cur \in dirs /\ k < NParts                        \* EEXIST, not last
        /\ pc' = [pc EXCEPT ![i] = next]
        /\ step' = [step EXCEPT ![i] = nstep]
        /\ UNCHANGED <<dirs, created, failedAt, ec, faulted, faults>>
     \/ /\ cur \in dirs /\ k = NParts                        \* "already exists"
        /\ Abort(i)
        /\ UNCHANGED <<dirs, created, faulted, faults>>
     \/ /\ Parent(cur) \notin dirs                           \* ENOENT
        /\ Abort(i)
        /\ UNCHANGED <<dirs, created, faulted, faults>>
     \/ /\ cur \notin dirs /\ Parent(cur) \in dirs           \* other errno
        /\ Fault(i)
        /\ Abort(i)
        /\ UNCHANGED <<dirs, created>>
  /\ UNCHANGED <<files, cfiles, limits, revertErr>>

\* applyLimits writes, in order, the controllers whose limit is positive.
ToWrite(i) == LET pos(c) == LimitOf(limits[i], c) > 0 IN SelectSeq(Controllers, pos)

\* writeControllerFile records the file after a successful write.
RecordFileDropped(i, f) == cfiles[i]
RecordFile(i, f) == Append(cfiles[i], f)

\* One call of writeControllerFile, or the end of applyLimits.
CgroupWrite(i) ==
  LET k == step[i]
      file == Target(i) \o <<ToWrite(i)[k]>>
  IN
  /\ pc[i] = "cg_write"
  /\ \/ /\ k > Len(ToWrite(i))                               \* op applied
        /\ pc' = [pc EXCEPT ![i] = "eph_apply"]
        /\ UNCHANGED <<files, cfiles, step, failedAt, ec, faulted, faults>>
     \/ /\ k <= Len(ToWrite(i)) /\ Target(i) \in dirs        \* written
        /\ files' = files \cup {file}
        /\ cfiles' = [cfiles EXCEPT ![i] = RecordFile(i, file)]
        /\ step' = [step EXCEPT ![i] = k + 1]
        /\ UNCHANGED <<pc, failedAt, ec, faulted, faults>>
     \/ /\ k <= Len(ToWrite(i)) /\ Target(i) \notin dirs     \* ENOENT
        /\ Abort(i)
        /\ UNCHANGED <<files, cfiles, faulted, faults>>
     \/ /\ k <= Len(ToWrite(i)) /\ Target(i) \in dirs        \* write fails
        /\ Fault(i)
        /\ Abort(i)
        /\ UNCHANGED <<files, cfiles>>
  /\ UNCHANGED <<dirs, created, limits, revertErr>>

\* mkdirOp.apply of the ephemeral instance directory; EEXIST counts as
\* applied. Success ends Commit.
EphApply(i) ==
  /\ pc[i] = "eph_apply"
  /\ \/ /\ dirs' = dirs \cup {InstanceDir(i)}
        /\ pc' = [pc EXCEPT ![i] = "running"]
        /\ UNCHANGED <<failedAt, ec, step, faulted, faults>>
     \/ /\ Fault(i)
        /\ Abort(i)
        /\ UNCHANGED dirs
  /\ UNCHANGED <<files, created, cfiles, limits, revertErr>>

-----------------------------------------------------------------------------
(* Revert, called by the caller once the container has exited.            *)

\* Revert(ec): ops are reverted in reverse order, the ephemeral dir first.
Revert(i) ==
  /\ pc[i] = "running"
  /\ \E c \in CriteriaSet :
       /\ ec' = [ec EXCEPT ![i] = c]
       /\ pc' = [pc EXCEPT ![i] = "eph_revert"]
  /\ UNCHANGED <<dirs, files, step, created, cfiles, limits, failedAt,
                 faulted, revertErr, faults>>

\* Revert walks the ops from the last down to the first (index 1).
RevertDownToSkipFirst == 2
RevertDownTo == 1

\* mkdirOp.revert of an ephemeral directory: remove it; ENOENT is swallowed.
\* Revert then continues with the op before it, the cgroup op.
EphRevert(i) ==
  /\ pc[i] = "eph_revert"
  /\ pc' = [pc EXCEPT ![i] = IF RevertDownTo <= 1 THEN "cg_revert" ELSE Finish(i)]
  /\ \/ /\ ~HasType(ec[i], OpType["ephemeral"])
        /\ UNCHANGED <<dirs, faulted, revertErr, faults>>
     \/ /\ HasType(ec[i], OpType["ephemeral"])
        /\ dirs' = dirs \ {InstanceDir(i)}
        /\ UNCHANGED <<faulted, revertErr, faults>>
     \/ /\ HasType(ec[i], OpType["ephemeral"]) /\ InstanceDir(i) \in dirs
        /\ Fault(i)
        /\ revertErr' = [revertErr EXCEPT ![i] = TRUE]
        /\ UNCHANGED dirs
  /\ UNCHANGED <<files, step, created, cfiles, limits, ec, failedAt>>

\* cgroupOp.revert returns at once unless the criteria select Process.
CgroupRevertAllowedAlways(c) == TRUE
CgroupRevertAllowed(c) == HasType(c, "Process")

CgroupRevertGate(i) ==
  /\ pc[i] = "cg_revert"
  /\ IF CgroupRevertAllowed(ec[i])
       THEN /\ pc' = [pc EXCEPT ![i] = "cg_rfile"]
            /\ step' = [step EXCEPT ![i] = Len(cfiles[i])]
       ELSE /\ pc' = [pc EXCEPT ![i] = Finish(i)]
            /\ UNCHANGED step
  /\ UNCHANGED <<dirs, files, created, cfiles, limits, ec, failedAt,
                 faulted, revertErr, faults>>

\* Remove the recorded controller files, last first. ENOENT is silent and
\* other errors are only logged; cgroup2 refuses to unlink interface files.
CgroupRemoveFile(i) ==
  /\ pc[i] = "cg_rfile"
  /\ \/ /\ step[i] > 0
        /\ files' = IF CgroupFS THEN files ELSE files \ {cfiles[i][step[i]]}
        /\ step' = [step EXCEPT ![i] = @ - 1]
        /\ UNCHANGED pc
     \/ /\ step[i] = 0
        /\ pc' = [pc EXCEPT ![i] = "cg_rdir"]
        /\ step' = [step EXCEPT ![i] = Len(created[i])]
        /\ UNCHANGED files
  /\ UNCHANGED <<dirs, created, cfiles, limits, ec, failedAt, faulted,
                 revertErr, faults>>

\* The errno rmdir gives for a directory with entries: cgroup2 answers
\* EBUSY for a cgroup with child cgroups, other filesystems ENOTEMPTY.
\* cgroup2 interface files do not count as entries.
BusyErrno == IF CgroupFS THEN "EBUSY" ELSE "ENOTEMPTY"
Entries(d) == IF CgroupFS THEN {q \in dirs : IsStrictPrefix(d, q)} ELSE Under(d)

\* cgroupOp.revert skips a busy directory only on ENOTEMPTY.
BusyDirSkippedNever(errno) == FALSE
BusyDirSkipped(errno) == errno = "ENOTEMPTY"

\* The position in created of the directory the loop removes next.
RdirIndexForward(i) == Len(created[i]) + 1 - step[i]
RdirIndex(i) == step[i]

\* Remove the created directories, last first: ENOENT continues,
\* ENOTEMPTY is skipped, any other error is joined into the result.
CgroupRemoveDir(i) ==
  LET d == created[i][RdirIndex(i)] IN
  /\ pc[i] = "cg_rdir"
  /\ \/ /\ step[i] = 0
        /\ pc' = [pc EXCEPT ![i] = Finish(i)]
        /\ UNCHANGED <<dirs, files, step, faulted, revertErr, faults>>
     \/ /\ step[i] > 0 /\ d \notin dirs
        /\ step' = [step EXCEPT ![i] = @ - 1]
        /\ UNCHANGED <<pc, dirs, files, faulted, revertErr, faults>>
     \/ /\ step[i] > 0 /\ d \in dirs /\ Entries(d) # {}
        /\ revertErr' = [revertErr EXCEPT ![i] = @ \/ ~BusyDirSkipped(BusyErrno)]
        /\ step' = [step EXCEPT ![i] = @ - 1]
        /\ UNCHANGED <<pc, dirs, files, faulted, faults>>
     \/ /\ step[i] > 0 /\ d \in dirs /\ Entries(d) = {}
        /\ dirs' = dirs \ {d}
        /\ files' = files \ Under(d)
        /\ step' = [step EXCEPT ![i] = @ - 1]
        /\ UNCHANGED <<pc, faulted, revertErr, faults>>
     \/ /\ step[i] > 0 /\ d \in dirs                        \* e.g. populated
        /\ Fault(i)
        /\ revertErr' = [revertErr EXCEPT ![i] = TRUE]
        /\ step' = [step EXCEPT ![i] = @ - 1]
        /\ UNCHANGED <<pc, dirs, files>>
  /\ UNCHANGED <<created, cfiles, limits, ec, failedAt>>

-----------------------------------------------------------------------------
Init ==
  /\ \E up \in SliceUp : dirs = {ShareDir} \cup (IF up THEN {Slice} ELSE {})
  /\ files = {}
  /\ pc = [i \in Inst |-> "idle"]
  /\ step = [i \in Inst |-> 0]
  /\ created = [i \in Inst |-> <<>>]
  /\ cfiles = [i \in Inst |-> <<>>]
  /\ limits \in [Inst -> LimitSet]
  /\ ec = [i \in Inst |-> NilCriteria]
  /\ failedAt = [i \in Inst |-> 0]
  /\ faulted = [i \in Inst |-> FALSE]
  /\ revertErr = [i \in Inst |-> FALSE]
  /\ faults = 0
  /\ crashes = 0
  /\ sharedBusy = {}

\* The directory instance i's revert is about to remove holds another
\* instance's cgroup (recorded in the history variable sharedBusy).
MetSiblingCgroup(i) ==
  IF pc[i] = "cg_rdir" /\ step[i] > 0
     /\ created[i][RdirIndex(i)] \in dirs
     /\ \E e \in Entries(created[i][RdirIndex(i)]) : ~IsPrefix(Target(i), e)
  THEN {created[i][RdirIndex(i)]} ELSE {}

\* Every invocation is one-shot: the system stops once all have finished.
Terminated ==
  /\ \A i \in Inst : pc[i] \in {"done", "failed", "crashed"}
  /\ UNCHANGED vars

\* The steps of one instance: Commit, then (after the container exits)
\* Revert, in the process of that invocation.
Step(i) ==
  /\ \/ StartCommit(i) \/ CgroupStat(i) \/ CgroupMkdir(i) \/ CgroupWrite(i)
     \/ EphApply(i) \/ Revert(i) \/ EphRevert(i) \/ CgroupRevertGate(i)
     \/ CgroupRemoveFile(i) \/ CgroupRemoveDir(i)
  /\ sharedBusy' = sharedBusy \cup MetSiblingCgroup(i)
  /\ UNCHANGED crashes

\* The privileged process of instance i dies (killed, OOM, power loss)
\* after Commit began and before Revert finished. Nothing in the source
\* records its ops outside that process: what it made stays on the host,
\* and no later invocation knows of it (instance IDs are random).
Crash(i) ==
  /\ pc[i] \notin {"idle", "done", "failed", "crashed"}
  /\ crashes < MaxCrashes
  /\ crashes' = crashes + 1
  /\ pc' = [pc EXCEPT ![i] = "crashed"]
  /\ UNCHANGED <<dirs, files, step, created, cfiles, limits, ec, failedAt,
                 faulted, revertErr, faults, sharedBusy>>

Next == (\E i \in Inst : Step(i) \/ Crash(i)) \/ Terminated

Spec == Init /\ [][Next]_vars

\* Every invocation keeps running until it has reverted: no process stops
\* between two syscalls, and the caller reverts once its container exits.
FairSpec == Spec /\ \A i \in Inst : WF_vars(Step(i))

-----------------------------------------------------------------------------
(* Properties.                                                             *)

PCs == {"idle", "cg_stat", "cg_mkdir", "cg_write", "eph_apply", "running",
        "eph_revert", "cg_revert", "cg_rfile", "cg_rdir", "failed", "done",
        "crashed"}

TypeOK ==
  /\ dirs \subseteq AllDirs
  /\ files \subseteq AllFiles
  /\ pc \in [Inst -> PCs]
  /\ step \in [Inst -> 0..NParts + 3]
  /\ created \in [Inst -> Seq(AllDirs)]
  /\ cfiles \in [Inst -> Seq(AllFiles)]
  /\ limits \in [Inst -> LimitSet]
  /\ ec \in [Inst -> CriteriaSet \cup {NilCriteria}]
  /\ failedAt \in [Inst -> 0..Len(Ops)]
  /\ faulted \in [Inst -> BOOLEAN] /\ revertErr \in [Inst -> BOOLEAN]
  /\ faults \in 0..MaxFaults
  /\ crashes \in 0..MaxCrashes
  /\ sharedBusy \subseteq AllDirs

\* The instance's cgroup: its leaf directory and anything inside it.
CgroupLeft(i) == ({Target(i)} \cap dirs) \cup Under(Target(i))

(* After Commit succeeded and Revert ran with criteria selecting Process  *)
(* and returned no error, the instance's cgroup leaf and its controller   *)
(* files are gone (cgroupOp.revert after cgroupOp.apply), whatever the    *)
(* sibling instances of the same identity did meanwhile.                  *)
RevertRemovesInstanceCgroup ==
  \A i \in Inst :
    (pc[i] = "done" /\ HasType(ec[i], "Process") /\ ~revertErr[i])
      => CgroupLeft(i) = {}

(* A Revert whose criteria exclude Process leaves the instance's cgroup   *)
(* leaf and every controller file it wrote in place (Criteria filter of   *)
(* cgroupOp.revert).                                                      *)
RevertFilterRespected ==
  \A i \in Inst :
    (pc[i] = "done" /\ ~HasType(ec[i], "Process"))
      => Target(i) \in dirs /\ Range(cfiles[i]) \subseteq files

(* When an op after the cgroup op fails, Commit's rollback removes the    *)
(* cgroup leaf and controller files the cgroup op had made, unless the    *)
(* rollback itself hit an error.                                           *)
RollbackRestoresEarlierOps ==
  \A i \in Inst :
    (pc[i] = "failed" /\ failedAt[i] > 1 /\ ~revertErr[i])
      => CgroupLeft(i) = {}

(* Revert reports an error only when a syscall really failed: a sibling   *)
(* instance still holding the shared "hakurei-<identity>" directory is    *)
(* skipped quietly (cgroupOp.revert's ENOTEMPTY case).                    *)
RevertErrorOnlyOnFault ==
  \A i \in Inst : revertErr[i] => faulted[i]

(* Commit of an instance fails only when one of its syscalls really       *)
(* failed or the slice is missing: a concurrent instance of the same      *)
(* identity never makes it fail (the intermediate directory "may be       *)
(* shared").                                                               *)
CommitFailsOnlyOnFault ==
  \A i \in Inst : pc[i] = "failed" => faulted[i] \/ Slice \notin dirs

(* A Commit that failed leaves no trace of the failing op on the host:    *)
(* every directory and file the cgroup op created is removed again.       *)
FailedCommitLeavesNoTrace ==
  \A i \in Inst :
    (pc[i] = "failed" /\ ~revertErr[i])
      => /\ Range(created[i]) \cap dirs = {}
         /\ Range(cfiles[i]) \cap files = {}

\* "hakurei-<identity>": the intermediate directory siblings share.
SharedDirs == {Slice \o <<IdentityOf[i]>> : i \in Inst}

\* What instance c may leave behind: its cgroup leaf with the directories
\* above it and its controller files, and its directory in TMPDIR.
Own(c, p) == IsPrefix(p, Target(c)) \/ IsPrefix(Target(c), p) \/ p = InstanceDir(c)

(* Once every invocation has ended, none hit a failing syscall, and every *)
(* Revert selected Process, the host holds nothing of theirs but the      *)
(* shared "hakurei-<identity>" directory (which revert leaves to a        *)
(* sibling) and what an invocation that died between Commit and Revert  *)
(* had made: a crash leaks only the dead instance's own cgroup and        *)
(* directory, never a sibling's, whatever the interleaving.              *)
LeftoversOnlyOfCrashed ==
  (/\ \A i \in Inst : pc[i] \in {"done", "failed", "crashed"}
   /\ \A i \in Inst : ~faulted[i] /\ (pc[i] = "done" => HasType(ec[i], "Process")))
    => \A p \in (dirs \ ({Slice, ShareDir} \cup SharedDirs)) \cup files :
         \E c \in Inst : pc[c] = "crashed" /\ Own(c, p)

-----------------------------------------------------------------------------
(* Refinement: each instance's system.I implements Transaction. An op is  *)
(* in effect while its directory exists: the cgroup leaf for the cgroup    *)
(* op, the per-instance directory for the ephemeral op. The revert or     *)
(* rollback under way selects the ops its criteria select.                *)

(* The shared hakurei-<identity> directory outlives the instances that   *)
(* used it only where the spec allows it: once every instance has ended   *)
(* without a fault and reverted its Process ops, a shared directory still *)
(* present was found holding a sibling's cgroup by the revert of an       *)
(* instance that recorded it (the ENOTEMPTY skip at cgroup.go:146), or a  *)
(* crashed instance's cgroup keeps it. Reverting created in any order but *)
(* last first would leave it behind with nothing inside.                  *)
SharedDirLeftOnlyWhenBusy ==
  (/\ \A i \in Inst : pc[i] \in {"done", "failed", "crashed"}
   /\ \A i \in Inst : ~faulted[i] /\ (pc[i] = "done" => HasType(ec[i], "Process")))
    => \A d \in SharedDirs \cap dirs :
         d \in sharedBusy \/ \E c \in Inst : pc[c] = "crashed"

RevertPCs == {"eph_revert", "cg_revert", "cg_rfile", "cg_rdir"}

AbsState(i) ==
  CASE pc[i] = "idle" -> "uncommitted"
    [] pc[i] \in {"cg_stat", "cg_mkdir", "cg_write", "eph_apply"} -> "committing"
    [] pc[i] = "running" -> "committed"
    [] pc[i] \in RevertPCs /\ failedAt[i] > 0 -> "rollback"
    [] pc[i] \in RevertPCs -> "reverting"
    [] pc[i] = "failed" -> "failed"
    [] pc[i] = "done" -> "reverted"
    [] pc[i] = "crashed" -> "crashed"

EffectDir(o, i) == IF o = "cgroup" THEN Target(i) ELSE InstanceDir(i)

AbsEffect(i) == {o \in Range(Ops) : EffectDir(o, i) \in dirs}

AbsSelected(i) ==
  IF pc[i] \in RevertPCs \cup {"failed", "done"}
    THEN {o \in Range(Ops) : HasType(ec[i], OpType[o])}
    ELSE {}

Abs == INSTANCE Transaction WITH
         state <- [i \in Inst |-> AbsState(i)],
         effect <- [i \in Inst |-> AbsEffect(i)],
         selected <- [i \in Inst |-> AbsSelected(i)]

(* Each instance's Commit and Revert behave as the abstract transaction:  *)
(* effects appear in registration order, a failed Commit leaves none, a   *)
(* revert undoes exactly the selected ones last first, no instance touches *)
(* another's, and every invocation ends.                                  *)
TransactionRefined == Abs!Spec
=============================================================================
