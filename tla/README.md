# TLA+ models of hakurei

This directory holds TLA+ models of the parts of hakurei that keep state, run
concurrently or cross a process boundary. Each model comes with TLC
configurations that check it. `PROJECT.json` holds:

- the component list;
- every run and its expected result;
- the mutants that show each checked property can fail;
- the map from every definition to the source lines it models;
- the findings;
- the hazards.

## The system

hakurei runs an application in a sandbox. Four parts interact:

1. **Configuration** (`hst`, in `src/unnamed/part_000`). `hst.Config` and
   `hst.ContainerConfig` are read from JSON. `ContainerConfig.Flags` is stored
   in JSON as one boolean key per flag. `CgroupConfig` names a cgroup slice
   and limits, and `slicePath` resolves the slice under `/sys/fs/cgroup`.
2. **Outcome planner** (`internal/outcome`). On the privileged side,
   `outcomeStateSys.toSystem` calls `toSystem` of ten outcome ops in a fixed
   order. Each op registers host changes ("system ops") on a `system.I`
   transaction. The memoised helpers `instance()`, `runtime()` and
   `ensureRuntimeDir()` register the per-instance directories. An op that
   returns `errNotEnabled` is dropped. The kept ops go to the shim in
   `Shim.Ops`, and the shim calls `toContainer` on each of them.
   `spCgroupOp` is the op for cgroups: it registers a `cgroupOp` and sends
   its path along.
3. **Transaction engine and the cgroup op** (`internal/system`).
   - `Commit` applies the ops in order. If op k fails, it reverts ops 0..k-1
     in reverse order.
   - `Revert(criteria)` walks the ops in reverse, and each op checks the
     criteria before undoing itself.
   - `cgroupOp.apply` creates `<slice>/hakurei-<identity>/<instance-id>` one
     directory at a time and writes `cpu.max`, `memory.max` and `pids.max`.
   - `cgroupOp.revert` removes the files, then the directories it created,
     in reverse.
   - Several instances of one identity share the middle directory.
4. **Container** (`container`).
   - `Start` spawns a goroutine locked to its OS thread. That goroutine sets
     no-new-privs and a Landlock ruleset, starts the container init with
     `exec.CommandContext`, and then blocks on `p.wait`.
   - `Serve` writes the init's parameters to a setup pipe.
   - `Wait` reaps the init, cancels the context, and closes `p.wait` to
     release the thread.

Only `container.go`, `cgroup.go`, `outcome.go`, `spcgroup.go` and the `hst`
files are in `src/`. The engine (`system.go`), the other outcome ops and the
container init are not. Where a model needs them, it follows the spec, and
`PROJECT.json` marks those definitions `spec_modelled`.

## Modules

| Module | Models | State | Actions |
|---|---|---|---|
| `SystemCgroup` | `Commit`/`Revert` of each instance's two Process ops (the cgroup op, then its ephemeral TMPDIR directory), with several instances on one host filesystem, and a crash of the privileged process at any point between `Commit` and the end of `Revert` | host `dirs` and `files`; per instance: `pc`, loop `step`, `created`, `cfiles` (the op's `created`/`files`), `limits`, criteria `ec`, `failedAt`; history flags | `StartCommit`; `CgroupStat`, `CgroupMkdir` and `CgroupWrite` (apply, one syscall per step); `EphApply`; `Revert`; `EphRevert`; `CgroupRevertGate`, `CgroupRemoveFile` and `CgroupRemoveDir` (revert); `Crash` |
| `Transaction` | what `system.I` promises, per instance: effects appear in registration order, a failed `Commit` leaves none, `Revert(criteria)` undoes the selected ones last first | `state`, `effect` (ops whose effect is visible), `selected` | `Begin`, `Apply`, `Fail`, `StartRevert`, `Undo`, `Finish`; `Crash` (the effects stay) |
| `CgroupSlice` | `CgroupConfig.slicePath`: default slice, join beneath `/sys/fs/cgroup`, `path.Clean` (the recursive `Lex`), `check.NewAbs` | the slice and the result | `Resolve` |
| `Container` | `Start` (with its invalid-container guard and the cgroup directory fd), the locked-thread goroutine, `Serve`, `Wait`, the `exec.Cmd` cancel watcher, the init process (spec), a cancel of the parent context | `caller`, `thread`, `done`, `waitCh` (`p.wait`), `child`, `exitOK`, `pipe`, `sent`, `ctxDone`, `signalled`, `nnp`, `landlocked`, `cgroupFd` (`cgroupFile`), `inCgroup`; the inputs `params` | `Start`, `StartReturn`, `Serve`, `Wait`; `ThreadNoNewPrivs`, `ThreadLandlock`, `ThreadStartInit`, `ThreadExit`; `InitRead`, `InitExit`, `InitCancelled`; `CancelCommand`; `ParentCancel` |
| `Planner` | the outcome pipeline: `Config.Validate` (identity bounds, nil container or fields, cgroup limits and slice), then `newOutcomeState`, `populateLocal`, `outcomeStateSys.toSystem` with the lazy helpers, `spCgroupOp.toSystem`/`toContainer`, the gob transfer to the shim (exported fields only), the shim's `populateLocal` and `toContainer` walk | `phase`, op index, registered system ops and memo flags (`st`), `Shim.Ops`, `spCgroupOp.Path`, `params.CgroupPath`; the config read (`cfg`), the privileged and the shim's `outcomeState` (`priv`, `shimState`) | `ValidateConfig`, `New`, `Local`, `ToSystem`, `CgroupToSystem`, `OpToSystem`, `PlanDone`, `Transmit`, `CgroupToContainer`, `OpToContainer`, `ShimDone` |
| `Config` | `ContainerConfig.MarshalJSON`/`UnmarshalJSON` of `Flags` | the flags, the JSON object, the decode result | `Marshal`, `Unmarshal` |

Each `MC<Module>.tla` gives the constants their values.

How the models abstract the code:

- A path is a sequence of components, and the files' contents are not
  modelled (only which limits are positive matters).
- Each syscall is one atomic step.
- A syscall that can fail for a reason outside the model (EACCES, EIO, a
  non-delegated controller) fails nondeterministically, at most `MaxFaults`
  times per behaviour. In `SystemCgroup` the constant `FaultAt` names the
  steps whose syscall may fail.
- The instances in `SystemCgroup` are separate processes and interleave
  freely.
- A crash of the privileged process (`Crash`) stops an instance for good at
  any point after `Commit` has begun and before its transaction ends, at
  most `MaxCrashes` times per behaviour. Nothing of the transaction is
  persisted, so nothing reverts a crashed instance's effects.

## Runs and what they show

| Run (cfg) | Expect | Checks |
|---|---|---|
| `SystemCgroup_tmpfs` | pass | Three instances, under symmetry: `TypeOK`, `RevertRemovesInstanceCgroup`, `RevertFilterRespected`, `RollbackRestoresEarlierOps`, `RevertErrorOnlyOnFault`, on an ordinary filesystem (as in the tests), one fault; with one crash, `LeftoversOnlyOfCrashed`: once every instance has ended without a fault and reverted its Process ops, every directory or file left under the slice belongs to a crashed instance; `SharedDirLeftOnlyWhenBusy`: a shared `hakurei-<identity>` directory is left at that point only if a revert found it holding a sibling's cgroup (the history variable `sharedBusy`) or an instance crashed. A revert of `created` in any order but last first breaks it |
| `SystemCgroup_cgroupfs` | pass | On cgroup2 semantics (interface files cannot be unlinked, and rmdir of a cgroup with children gives EBUSY), with per-instance fairness, one failing mkdir of the ephemeral op and one crash: `RevertRemovesInstanceCgroup`, and `TransactionRefined`, the refinement of `Transaction` (see below) |
| `SystemCgroup_race` | violation | `CommitFailsOnlyOnFault`: a sibling's revert removes the shared `hakurei-<identity>` between this instance's EEXIST on it and its leaf mkdir, so the commit fails with ENOENT and no fault |
| `SystemCgroup_busy` | violation | `RevertErrorOnlyOnFault` on cgroup2: revert skips only ENOTEMPTY, and cgroup2 answers EBUSY, so a live sibling turns into a revert error |
| `SystemCgroup_leak` | violation | `FailedCommitLeavesNoTrace`: when the cgroup op itself fails part-way, its created directories stay (Commit reverts only the ops before the failing one) |
| `CgroupSlice` | pass | `TypeOK` (every result is a clean absolute path or `ErrCgroupPath`), `RelativeSliceUnderRoot` |
| `CgroupSlice_escape` | violation | `SliceBeneathCgroupRoot`: `..` escapes `/sys/fs/cgroup`; `ErrCgroupPath` only comes from a NUL byte |
| `Container` | pass | `InitConfined` and `InitInCgroup` (safety); `SetupPipeReleased`: when `Wait` returns, the setup pipe's write end is closed, except after `Serve`'s nil-Path branch, which drops it unclosed (`container.go:381-383`, released only by the `os.File` finalizer), and then the init never got its params and was cancelled; `WaitReturns` (liveness): once `Start` succeeded, the init either runs the program or exits and `Serve` and `Wait` return |
| `Container_thread` | violation | `LockedThreadReleased`: `p.wait` is closed only by a `Wait` that returns nil (`container.go:416`). So after a `Start` whose goroutine failed (TLC's trace: Landlock refused on a kernel without ABI 6) or after a `Wait` with an error, the locked thread blocks on `p.wait` for ever |
| `Planner` | pass | `TypeOK`, `SystemOpsRegisteredOnce`, `RuntimeParentsFirst`, `ShimMatchesSystem`, `PipelineNeverFails` (no error or panic; the only failure is `slicePath`'s), `ShimAgreesWithPriv`, `UidIdentifiesApp`: the uid the shim's state carries decodes back to the user id and the configured identity; identity 100000 is offered, and only `Validate`'s upper bound keeps it from naming the next user's application 0 |
| `Config` | pass | `FlagsRoundTrip` over all 4096 values of 12 bits. The Flags constants, the json tags, and the field-to-flag lists of `MarshalJSON` and of `UnmarshalJSON` are transcribed separately, so a flag missing or misassigned in one list shows |
| `Config_panic` | violation | `UnmarshalNeverPanics`: `{}` or `{"devel": true}` dereference a nil `*ContainerConfigF` |

`PROJECT.json` pairs every property of a passing run with a mutant, that is,
an alternative definition placed just before the one it replaces, such as
`RecordDirDropped` before `RecordDir`. Each mutant stands for a plausible
slip in the code, and with it TLC finds that property violated.

### Refinement

`Transaction` is the abstract specification of one `system.I` per
instance. `SystemCgroup` maps onto it as follows:

- **`state`** comes from `pc` and `failedAt`. The revert steps entered from
  a failed `Commit` are the abstract `rollback`.
- **`effect`** holds an op while its directory exists: the cgroup leaf for
  the cgroup op, and the per-instance directory for the ephemeral op.
- **`state`** is `crashed` once the instance has crashed. The abstract
  `Crash` keeps the effects and clears the selection.
- **`selected`** is the set of ops the criteria of the running revert or
  rollback select.

`TransactionRefined` checks `Abs!Spec` as a property of `FairSpec`. This
covers three things:

- each step of an instance is a step of that instance's transaction, or
  leaves the abstract state unchanged;
- no step of one instance changes another's effects;
- under fairness, every transaction ends.

The refinement holds only for faults outside the cgroup op's apply and
outside revert:

- a failing mkdir or controller write inside the cgroup op leaves its
  directories behind (`SystemCgroup_leak`);
- a failing rmdir leaves an effect that revert reports as an error, where
  the abstract transaction has none.

So `SystemCgroup_cgroupfs` lets only the ephemeral op's mkdir fail. That
failure is the case in which `Commit` rolls back an earlier op.

### Bounds

- **`SystemCgroup`.** Two instances of the same identity. This is the
  smallest setting in which the shared middle directory is contended.
  `SystemCgroup_tmpfs` runs three, so that one instance can crash or
  revert while two others hold the shared directory. The instances differ
  only in their names, so that run, which checks only invariants, uses
  symmetry (393,715 distinct states, about 10 seconds).
  - Two limit sets: one writes `cpu.max` and `pids.max`, the other writes
    only `memory.max`. Together they exercise every branch of
    `applyLimits`.
  - Criteria: `nil`, or `{User}`. Together they exercise both sides of the
    filter.
  - The slice is present or missing, with at most one fault. Most hazards
    need one failing syscall at a chosen point, and TLC tries every point.
- **`CgroupSlice`.** Every slice of up to 4 elements over `""`, `.`, `..`,
  `x` and a NUL name, either absolute or relative. Four elements are enough
  to climb above `/sys/fs/cgroup`.
- **`Container`.** Every combination of HostAbstract, Landlock ABI (error,
  5, 6), Path set, Ops empty or not and CgroupPath set or not, with one
  fault. The fault may also be `Serve`'s write running past the
  5-second `initSetupTimeout` deadline.
- **`Planner`.**
  - Both cgroup settings and two of the four enablements.
  - Each op may make any of six helper-call sequences, including repeated
    and interleaved calls.
  - Wait delays of -1, 0, 1, 30 and 31 seconds: every branch of the clamp
    and both sides of the maximum.
  - Both uid mappings, the neighbouring user ids 0 and 1, and identities
    0, 1, 9999, 10000 and 100000: both sides of each bound of `Validate`,
    and the first identity that reaches into the next user's uids.
  - Cgroup configs none, valid, with negative pids, and with a slice that
    `slicePath` rejects; a nil container or nil fields.
- **Crashes.** `MaxCrashes = 1` in `SystemCgroup_tmpfs` and
  `SystemCgroup_cgroupfs`: one crash at any step of either instance, 0 in the
  violation runs so their traces stay about their own hazard.

### Fairness

`Container` checks liveness. It assumes weak fairness for every goroutine and
process action: the caller, the locked thread, the init's read of its
params and its exit on CancelSignal, and the `exec.Cmd` watcher, which the
Go runtime and the kernel schedule. It assumes none for `ParentCancel`,
which is an outside event, nor for `InitExit`: whether the sandboxed program
ever exits is up to the program, so `WaitReturns` accepts a running program
as progress.

`SystemCgroup`'s `FairSpec` adds weak fairness on each instance's steps.
Every instance is its own process, and no step of `Commit` or `Revert`
blocks on another instance. The caller reverts once its container has
exited. `Transaction`
assumes the same fairness for each transaction. A crash is outside each
instance's steps, so fairness never forces one; a crashed instance stops for
good, and the others still finish. The other modules check only safety.

`CgroupSlice` sets `CHECK_DEADLOCK FALSE` because resolving a slice is a
single step. The other modules end in an explicit stuttering `Terminated` or
`Finished` step once every actor is done.

## Not modelled

- **The argument type at `spcgroup.go:26`.** `spCgroupOp.toSystem` passes
  `state.id.String()` where `InstancePath` takes a `*ID`
  (`part_000:351`), so the file as given does not type-check. `Planner`
  models the intended call, the instance path of this instance's ID.
- **The NixOS module** (`nixos.nix`, `options.nix`, `options.md`) has no
  runtime state.
- **The other outcome ops** (Wayland, X11, PulseAudio, D-Bus, filesystem and
  others) are not in the source. `Planner` abstracts them to their calls of
  the shared helpers.
- **`Flags.String` and `ExtraPermConfig.String`** are formatting only.
  `Config.Validate` is modelled in `Planner`, with the environment-key check
  left out (no property reads the environment).
- **Field defaulting in `Start`** (overflow uid/gid, seccomp presets,
  `AdoptWaitDelay`) and `newParams` set fields that only code outside the
  source reads.
- **`ensureCloseOnExec`'s once latch** is one of `Start`'s failing steps.
  Its cached error would matter only to a second `Start` in the same
  process, and the shim starts one container.
- **`Planner` and `SystemCgroup` are not composed.** The planner's
  registered ops would become the op list the engine commits and reverts.
  But the engine (`system.go`), the ops other than the cgroup op, and the
  caller that runs `Commit`, starts the shim and then `Revert`s are all
  outside the source tree. A composed module would add only behaviour
  modelled from the spec. `Transaction` already states what the engine
  promises, and `SystemCgroup` is checked against it for the one op that
  is in the source.

## Plan

Done:

- Sitting 1: `SystemCgroup`, `CgroupSlice`, `Container`, `Planner` and
  `Config`.
- Sitting 2:
  - the abstract `Transaction` and its refinement by `SystemCgroup`;
  - `Container`'s invalid-container guard and cgroup fd, and the failed-Start
    case of the locked thread;
  - the outcome state's life across both processes, composed into
    `Planner`.
- Sitting 3:
  - `Config.Validate` composed in front of `Planner`, with `UidIdentifiesApp`;
  - a crash of the privileged process in `SystemCgroup` and `Transaction`,
    with `LeftoversOnlyOfCrashed`.
- Sitting 4:
  - `SetupPipeReleased` in `Container`, and the setup deadline as a fault
    of `Serve`;
  - three instances, under symmetry, in `SystemCgroup_tmpfs`.
- Review of sitting 4:
  - `WaitReturns` without fairness on the program's own exit;
  - `UidIdentifiesApp` about the upper identity bound;
  - `FlagsRoundTrip` over separately transcribed code lists;
  - `SharedDirLeftOnlyWhenBusy` for the order of revert's rmdir loop.

Nothing of the source is left that a faithful model could add; see "Not
modelled" for the composition that was left out and why.
