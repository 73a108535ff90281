------------------------------ MODULE Planner -------------------------------
(***************************************************************************)
(* The outcome planner (internal/outcome): on the privileged side         *)
(* outcomeStateSys.toSystem calls toSystem of every outcomeOp in a fixed  *)
(* order, registering system ops and keeping the ops that did not return  *)
(* errNotEnabled in Shim.Ops; the lazy helpers instance(), runtime() and  *)
(* ensureRuntimeDir() register their system ops on first use only. The    *)
(* kept ops are sent to the shim, which calls toContainer on each in      *)
(* order; spCgroupOp carries its instance path across in its exported     *)
(* Path field.                                                            *)
(*                                                                         *)
(* Around the walk, the outcomeState itself: newOutcomeState fills its   *)
(* exported fields (with the wait-delay clamp and the mapped ids),        *)
(* populateLocal derives the unexported ones, the state is sent to the    *)
(* shim with encoding/gob, which carries exported fields only, and the    *)
(* shim calls populateLocal on what it decoded before its walk.           *)
(* Durations are in seconds; "k" stands for the unexported k and msg     *)
(* populateLocal sets, the d-fields for the derived stringPairs.          *)
(*                                                                         *)
(* The bodies of the ops other than spCgroupOp are not in the source; an  *)
(* op there calls any sequence of the helpers in HelperCalls, and may     *)
(* fail, as the planner's description allows.                              *)
(***************************************************************************)
EXTENDS Integers, Sequences, SequencesExt

CONSTANTS
  Enabled,         \* enablements of the configuration: subset of Optional
  CgroupSet,       \* Container.Cgroup: "none", "ok" or one Validate rejects
  HelperCalls,     \* sequences of helper calls an op's toSystem may make
  MayFail,         \* whether an op other than spCgroupOp may fail
  WaitDelaySet,    \* ContainerConfig.WaitDelay values
  UserIDSet,       \* values Hsu.MustID may return
  IdentitySet,     \* Config.Identity values
  RealUid,         \* k.getuid() (getgid alike)
  OverflowId       \* k.overflowUid() (overflowGid alike)

VARIABLES
  phase,       \* "validate", "new", "local", "sys", "plan", "planned",
               \* "failed", "shim", "done", "rejected", "invalid", "error",
               \* "panic"
  idx,         \* the next op of Ops that toSystem calls
  st,          \* outcomeStateSys: registered system ops and memoised paths
  shimOps,     \* Shim.Ops: the kept ops, in order
  cgPath,      \* spCgroupOp.Path ("" until its toSystem succeeded)
  cidx,        \* the next op of shimOps the shim calls toContainer on
  cgroupParam, \* params.CgroupPath set by spCgroupOp.toContainer
  cfg,         \* the hst.Config read: identity, container, wait_delay,
               \* map_real_uid, cgroup, and the fields only Validate reads
  priv,        \* the outcomeState of the privileged process
  shimState    \* the outcomeState the shim decoded

outcome == <<cfg, priv, shimState>>
Keep == <<idx, st, shimOps, cgPath, cidx, cgroupParam>>

vars == <<phase, idx, st, shimOps, cgPath, cidx, cgroupParam, outcome>>

\* The fixed order of outcomeStateSys.toSystem.
Ops == <<"params", "cgroup", "runtime", "tmpdir", "account",
         "wayland", "x11", "pulse", "dbus", "filesystem">>

\* Ops only kept when their enablement is set.
Optional == {"wayland", "x11", "pulse", "dbus"}

\* Paths: the two XDG runtime parents, the per-instance directories under
\* TMPDIR and XDG_RUNTIME_DIR, and the instance cgroup.
SysOp(kind, path) == [kind |-> kind, path |-> path]

-----------------------------------------------------------------------------
(* The outcomeState.                                                       *)

\* hst.WaitDelayDefault and hst.WaitDelayMax.
WaitDelayDefault == 5
WaitDelayMax == 30

Unset == -1

\* An outcomeState whose exported fields are all zero.
ZeroState ==
  [shim |-> FALSE, waitDelay |-> 0, ops |-> FALSE, identity |-> 0,
   userID |-> 0, container |-> FALSE, mapuid |-> 0,
   k |-> FALSE, dIdentity |-> Unset, dMapuid |-> Unset, uid |-> Unset]

\* The wait-delay bounds newOutcomeState enforces on Shim.WaitDelay.
WaitDelayClampNoFloor(d) ==
  IF d = 0 THEN WaitDelayDefault
  ELSE IF d > WaitDelayMax THEN WaitDelayMax ELSE d
WaitDelayClamp(d) ==
  IF d < 0 THEN 0
  ELSE IF d = 0 THEN WaitDelayDefault
  ELSE IF d > WaitDelayMax THEN WaitDelayMax ELSE d

\* FMapRealUID maps the caller's ids, else the overflow ids.
MappedId(mapReal) == IF mapReal THEN RealUid ELSE OverflowId

\* hst.ToUser: the init-namespace uid of an application.
ToUser(userID, identity) == userID * 100000 + 10000 + identity

NewOutcomeState(c, userID) ==
  [ZeroState EXCEPT !.shim = TRUE, !.waitDelay = WaitDelayClamp(c.waitDelay),
                    !.identity = c.identity, !.userID = userID,
                    !.container = TRUE, !.mapuid = MappedId(c.mapReal)]

\* valid: Shim, ID, Container and Paths are present.
Valid(s) == s.shim /\ s.container

\* populateLocal: "impossible outcome state reached" unless valid; a panic
\* if k or msg is already set; else set them and derive the stringPairs.
PopulateLocalResult(s) ==
  CASE ~Valid(s) -> "error"
    [] s.k -> "panic"
    [] OTHER -> "ok"
PopulateLocal(s) ==
  [s EXCEPT !.k = TRUE, !.dIdentity = s.identity, !.dMapuid = s.mapuid,
            !.uid = ToUser(s.userID, s.identity)]

\* What encoding/gob carries of an outcomeState: its exported fields
\* (Shim with WaitDelay and Ops, ID, Identity, UserID, Container, Mapuid,
\* Mapgid, Paths); k, msg and the stringPairs arrive zero.
EncodeKeepLocal(s) == s
EncodeDropMapuid(s) ==
  [ZeroState EXCEPT !.shim = s.shim, !.waitDelay = s.waitDelay, !.ops = s.ops,
                    !.identity = s.identity, !.userID = s.userID,
                    !.container = s.container]
Encode(s) ==
  [ZeroState EXCEPT !.shim = s.shim, !.waitDelay = s.waitDelay, !.ops = s.ops,
                    !.identity = s.identity, !.userID = s.userID,
                    !.container = s.container, !.mapuid = s.mapuid]

-----------------------------------------------------------------------------
(* Config.Validate, run on the configuration before planning.              *)

\* hst.IdentityStart and hst.IdentityEnd.
IdentityStart == 1
IdentityEnd == 9999

\* Whether Container.Cgroup is configured (ContainerConfig.validateCgroup
\* and spCgroupOp.toSystem test for nil).
cgroup == cfg.cgroup # "none"

\* CgroupConfig.Validate: a negative LimitPids is EINVAL; a slice that
\* slicePath refuses is "invalid cgroup slice".
CgroupValidate(c) ==
  CASE c = "negPids" -> "EINVAL"
    [] c = "badSlice" -> "ErrCgroupPath"
    [] OTHER -> "ok"

\* Config.Validate returns the first failing check: the identity bounds,
\* a nil Container, then the checks that dereference Container (Home,
\* Shell and Path set, the cgroup, the Env names); "fields" stands for the
\* bus interface, Home/Shell/Path and Env checks together.
ValidateNoUpperBound(c) ==
  CASE c.identity < IdentityStart -> "ErrIdentityBounds"
    [] ~c.container -> "ErrConfigNull"
    [] ~c.fields -> "ErrConfigNull"
    [] OTHER -> CgroupValidate(c.cgroup)
Validate(c) ==
  CASE c.identity < IdentityStart \/ c.identity > IdentityEnd -> "ErrIdentityBounds"
    [] ~c.container -> "ErrConfigNull"
    [] ~c.fields -> "ErrConfigNull"
    [] OTHER -> CgroupValidate(c.cgroup)

\* The caller validates the configuration and plans only an accepted one.
ValidateConfig ==
  /\ phase = "validate"
  /\ phase' = IF Validate(cfg) = "ok" THEN "new" ELSE "rejected"
  /\ UNCHANGED <<Keep, outcome>>

-----------------------------------------------------------------------------
(* The lazy helpers of outcomeStateSys.                                    *)

EnsureRuntimeDir(s) ==
  IF s.useRuntimeDir THEN s
  ELSE [s EXCEPT !.useRuntimeDir = TRUE,
                 !.sys = @ \o <<SysOp("ensure", "RuntimePath"),
                                SysOp("aclUser", "RuntimePath"),
                                SysOp("ensure", "RunDirPath"),
                                SysOp("aclUser", "RunDirPath")>>]

InstanceNoMemo(s) ==
  [s EXCEPT !.share = TRUE, !.sys = Append(@, SysOp("ephemeral", "share"))]

Instance(s) ==
  IF s.share THEN s
  ELSE [s EXCEPT !.share = TRUE, !.sys = Append(@, SysOp("ephemeral", "share"))]

RuntimeNoEnsure(s) ==
  IF s.runShare THEN s
  ELSE [s EXCEPT !.runShare = TRUE,
                 !.sys = @ \o <<SysOp("ephemeral", "runShare"),
                                SysOp("acl", "runShare")>>]

Runtime(s) ==
  IF s.runShare THEN s
  ELSE LET e == EnsureRuntimeDir(s) IN
       [e EXCEPT !.runShare = TRUE,
                 !.sys = @ \o <<SysOp("ephemeral", "runShare"),
                                SysOp("acl", "runShare")>>]

Call(s, c) ==
  CASE c = "instance" -> Instance(s)
    [] c = "runtime" -> Runtime(s)
    [] c = "ensureRuntimeDir" -> EnsureRuntimeDir(s)

Calls(s, cs) == FoldLeft(Call, s, cs)

-----------------------------------------------------------------------------
(* The privileged side before the walk.                                    *)

\* newOutcomeState: reading Container.WaitDelay of a nil Container is a
\* nil pointer dereference.
New ==
  /\ phase = "new"
  /\ IF cfg.container
       THEN /\ \E u \in UserIDSet : priv' = NewOutcomeState(cfg, u)
            /\ phase' = "local"
       ELSE phase' = "panic" /\ UNCHANGED priv
  /\ UNCHANGED <<Keep, cfg, shimState>>

\* populateLocal on the privileged side.
Local ==
  /\ phase = "local"
  /\ IF PopulateLocalResult(priv) = "ok"
       THEN phase' = "sys" /\ priv' = PopulateLocal(priv)
       ELSE phase' = PopulateLocalResult(priv) /\ UNCHANGED priv
  /\ UNCHANGED <<Keep, cfg, shimState>>

\* toSystem: "invalid ops state reached" when Shim is nil or Shim.Ops was
\* already made; else Shim.Ops is made and the walk begins.
ToSystem ==
  /\ phase = "sys"
  /\ IF ~priv.shim \/ priv.ops
       THEN phase' = "error" /\ UNCHANGED priv
       ELSE phase' = "plan" /\ priv' = [priv EXCEPT !.ops = TRUE]
  /\ UNCHANGED <<Keep, cfg, shimState>>

-----------------------------------------------------------------------------
(* outcomeStateSys.toSystem                                                *)

\* What toSystem does with an op's errNotEnabled: skip it.
NotEnabledSkippedNever == FALSE
NotEnabledSkipped == TRUE

\* spCgroupOp.toSystem: errNotEnabled without a cgroup; the error of
\* SlicePath (InstancePath resolves the same slice) fails toSystem; else
\* register the Cgroup system op and record the instance path.
CgroupToSystem ==
  /\ phase = "plan" /\ idx <= Len(Ops) /\ Ops[idx] = "cgroup"
  /\ idx' = idx + 1
  /\ CASE ~cgroup ->
          /\ shimOps' = IF NotEnabledSkipped THEN shimOps
                        ELSE Append(shimOps, "cgroup")
          /\ UNCHANGED <<phase, st, cgPath>>
       [] cfg.cgroup = "badSlice" ->
          /\ phase' = "failed"
          /\ UNCHANGED <<st, shimOps, cgPath>>
       [] OTHER ->
          /\ st' = [st EXCEPT !.sys = Append(@, SysOp("cgroup", "instance"))]
          /\ cgPath' = "instance"
          /\ shimOps' = Append(shimOps, "cgroup")
          /\ UNCHANGED phase
  /\ UNCHANGED <<cidx, cgroupParam, outcome>>

\* Any other op: an optional op without its enablement returns
\* errNotEnabled; else it calls its helpers, then succeeds or fails.
OpToSystem ==
  /\ phase = "plan" /\ idx <= Len(Ops) /\ Ops[idx] # "cgroup"
  /\ idx' = idx + 1
  /\ \/ /\ Ops[idx] \in Optional \ Enabled
        /\ shimOps' = IF NotEnabledSkipped THEN shimOps
                      ELSE Append(shimOps, Ops[idx])
        /\ UNCHANGED <<phase, st>>
     \/ /\ Ops[idx] \notin Optional \ Enabled
        /\ \E cs \in HelperCalls :
             /\ st' = Calls(st, cs)
             /\ \/ /\ shimOps' = Append(shimOps, Ops[idx])
                   /\ UNCHANGED phase
                \/ /\ MayFail
                   /\ phase' = "failed"
                   /\ UNCHANGED shimOps
  /\ UNCHANGED <<cgPath, cidx, cgroupParam, outcome>>

PlanDone ==
  /\ phase = "plan" /\ idx > Len(Ops)
  /\ phase' = "planned"
  /\ UNCHANGED <<idx, st, shimOps, cgPath, cidx, cgroupParam, outcome>>

-----------------------------------------------------------------------------
(* The shim: the outcomeState and Shim.Ops arrive with their exported     *)
(* fields; populateLocal, then toContainer on each op, in order.            *)

Transmit ==
  /\ phase = "planned"
  /\ LET r == PopulateLocalResult(Encode(priv)) IN
       IF r = "ok"
         THEN phase' = "shim" /\ shimState' = PopulateLocal(Encode(priv))
         ELSE phase' = r /\ UNCHANGED shimState
  /\ UNCHANGED <<Keep, cfg, priv>>

\* spCgroupOp.toContainer: an empty Path is "invalid cgroup state"; else
\* the path (check.NewAbs of an absolute path) becomes params.CgroupPath.
CgroupToContainer ==
  /\ phase = "shim" /\ cidx <= Len(shimOps) /\ shimOps[cidx] = "cgroup"
  /\ cidx' = cidx + 1
  /\ IF cgPath = ""
       THEN phase' = "invalid" /\ UNCHANGED cgroupParam
       ELSE cgroupParam' = cgPath /\ UNCHANGED phase
  /\ UNCHANGED <<idx, st, shimOps, cgPath, outcome>>

OpToContainer ==
  /\ phase = "shim" /\ cidx <= Len(shimOps) /\ shimOps[cidx] # "cgroup"
  /\ cidx' = cidx + 1
  /\ UNCHANGED <<phase, idx, st, shimOps, cgPath, cgroupParam, outcome>>

ShimDone ==
  /\ phase = "shim" /\ cidx > Len(shimOps)
  /\ phase' = "done"
  /\ UNCHANGED <<idx, st, shimOps, cgPath, cidx, cgroupParam, outcome>>

Terminated ==
  /\ phase \in {"failed", "done", "rejected", "invalid", "error", "panic"}
  /\ UNCHANGED vars

Init ==
  /\ phase = "validate" /\ idx = 1
  /\ st = [sys |-> <<>>, share |-> FALSE, runShare |-> FALSE,
           useRuntimeDir |-> FALSE]
  /\ shimOps = <<>> /\ cgPath = "" /\ cidx = 1 /\ cgroupParam = "none"
  /\ cfg \in [identity : IdentitySet, container : BOOLEAN, fields : BOOLEAN,
              waitDelay : WaitDelaySet, mapReal : BOOLEAN, cgroup : CgroupSet]
  /\ priv = ZeroState
  /\ shimState = ZeroState

Next ==
  \/ ValidateConfig \/ New \/ Local \/ ToSystem
  \/ CgroupToSystem \/ OpToSystem \/ PlanDone
  \/ Transmit \/ CgroupToContainer \/ OpToContainer \/ ShimDone
  \/ Terminated

Spec == Init /\ [][Next]_vars

-----------------------------------------------------------------------------
TypeOK ==
  /\ phase \in {"validate", "new", "local", "sys", "plan", "planned", "failed",
                "shim", "done", "rejected", "invalid", "error", "panic"}
  /\ idx \in 1..Len(Ops) + 1
  /\ Range(shimOps) \subseteq Range(Ops)
  /\ cgPath \in {"", "instance"}
  /\ cidx \in 1..Len(shimOps) + 1
  /\ cgroupParam \in {"none", "instance"}
  /\ priv.waitDelay \in 0..WaitDelayMax

\* The ops toSystem keeps for this configuration.
Kept(op) == (op \in Optional => op \in Enabled) /\ (op = "cgroup" => cgroup)

(* instance(), runtime() and ensureRuntimeDir() register each system op   *)
(* once however many outcome ops call them: no path is ensured, made      *)
(* ephemeral or given an ACL twice in the transaction.                   *)
SystemOpsRegisteredOnce ==
  \A i, j \in 1..Len(st.sys) : i < j => st.sys[i] # st.sys[j]

(* runtime() ensures XDG_RUNTIME_DIR and its hakurei directory before     *)
(* registering the per-instance directory inside it, so the transaction  *)
(* creates the parents first.                                             *)
RuntimeParentsFirst ==
  \A i \in 1..Len(st.sys) :
    st.sys[i] = SysOp("ephemeral", "runShare")
      => \E j \in 1..i - 1 : st.sys[j] = SysOp("ensure", "RunDirPath")

(* The shim never meets "invalid cgroup state": it runs exactly the ops   *)
(* whose toSystem succeeded, in the planner's order, and ends with a      *)
(* cgroup path exactly when the transaction holds the Cgroup op.         *)
ShimMatchesSystem ==
  /\ phase # "invalid"
  /\ phase = "done" =>
       /\ shimOps = SelectSeq(Ops, Kept)
       /\ (cgroupParam = "instance") = (SysOp("cgroup", "instance") \in Range(st.sys))

\* The documented meaning of ContainerConfig.WaitDelay: the default when
\* zero, the maximum when above it, and negative "equivalent to zero,
\* bypassing WaitDelayDefault".
DocWaitDelay(d) ==
  IF d = 0 THEN WaitDelayDefault
  ELSE IF d < 0 THEN 0
  ELSE IF d > WaitDelayMax THEN WaitDelayMax ELSE d

(* A configuration Validate accepted goes through the pipeline without    *)
(* error or panic: newOutcomeState finds its Container, the shim can call *)
(* populateLocal on what it decoded (k and msg do not cross the pipe),    *)
(* toSystem finds Shim made and Shim.Ops not yet made, and spCgroupOp's   *)
(* SlicePath succeeds; only an op outside the source may fail.            *)
PipelineNeverFails ==
  /\ phase \notin {"error", "panic"}
  /\ phase = "failed" => Ops[idx - 1] # "cgroup"

(* The uid the shim derives (hst.ToUser of UserID and Identity, both sent *)
(* across) belongs to this user and names this application: decoding it   *)
(* gives back the user and the configured identity. Only the upper bound  *)
(* Validate puts on the identity keeps it inside the user's block of      *)
(* 100000 uids; identity 100000 of user 0 would run as user 1's app 0.    *)
UidIdentifiesApp ==
  phase = "done" =>
    LET off == shimState.uid - 10000 IN
    /\ off \div 100000 = shimState.userID
    /\ off % 100000 = cfg.identity

(* What the shim derives equals what the privileged side derived: the     *)
(* init-namespace uid, the identity and the mapped uid are recomputed in  *)
(* the shim from fields that gob carried, and its WaitDelay is the one    *)
(* ContainerConfig.WaitDelay documents.                                   *)
ShimAgreesWithPriv ==
  phase = "done" =>
    /\ shimState.uid = priv.uid /\ shimState.dIdentity = priv.dIdentity
    /\ shimState.dMapuid = priv.dMapuid
    /\ shimState.waitDelay = DocWaitDelay(cfg.waitDelay)
=============================================================================
