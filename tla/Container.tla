----------------------------- MODULE Container ------------------------------
(***************************************************************************)
(* The life of a container/Container: Start (container.go 203-366),       *)
(* Serve (370-406) and Wait (409-420), run by the shim's main goroutine,  *)
(* together with the goroutine Start spawns on a locked OS thread (which *)
(* sets no-new-privs and the Landlock ruleset, starts the init, reports   *)
(* on done and then waits on p.wait), the container init process, the    *)
(* exec.Cmd context watcher that runs p.cmd.Cancel (CancelSignal) once   *)
(* the context is done, and a cancellation of the parent context.        *)
(***************************************************************************)
EXTENDS Naturals

CONSTANTS
  HostAbstractSet,  \* values of Params.HostAbstract to explore
  LandlockABISet,   \* what LandlockGetABI may return: an ABI, 0 for an error
  PathSetSet,       \* whether Params.Path was set by the caller
  HasOpsSet,        \* whether Params.Ops holds any op
  CgroupSetSet,     \* whether Params.CgroupPath was set
  MaxFaults         \* bound on failing syscalls (open, pipe, prctl, ...)

VARIABLES
  caller,     \* the goroutine calling Start, Serve, Wait
  thread,     \* the goroutine locked to its OS thread by Start
  done,       \* Start's done channel: "empty", "ok" or "err"
  waitCh,     \* p.wait: "nil", "open" or "closed"
  child,      \* the container init process
  exitOK,     \* the init's exit status was 0
  pipe,       \* write end of the setup pipe held in p.setup / Serve
  sent,       \* initParams were written to the pipe
  ctxDone,    \* the context of p.cmd is done
  signalled,  \* p.cmd.Cancel delivered CancelSignal
  nnp,        \* PR_SET_NO_NEW_PRIVS set on the locked thread
  landlocked, \* a Landlock ruleset scoping abstract sockets is enforced
  cgroupFd,   \* cgroupFile opened by Start: "none", "open" or "closed"
  inCgroup,   \* the init was cloned into the cgroup (UseCgroupFD)
  hostAbstract, abi, pathSet, hasOps, cgroupSet,
  faults

\* Inputs fixed before Start: Params.HostAbstract, the Landlock ABI,
\* Params.Path, a non-empty Params.Ops and Params.CgroupPath.
params == <<hostAbstract, abi, pathSet, hasOps, cgroupSet>>

vars == <<caller, thread, done, waitCh, child, exitOK, pipe, sent, ctxDone,
          signalled, nnp, landlocked, cgroupFd, inCgroup, params, faults>>

Alive == {"reading", "running"}

CanFault == faults < MaxFaults

-----------------------------------------------------------------------------
(* The caller.                                                             *)

\* cgroupFile is closed by Start's deferred Close, which runs when Start
\* returns; right after Setup it is still open.
FdAfterSetupClosed(fd) == IF fd = "open" THEN "closed" ELSE fd
FdAfterSetup(fd) == fd

\* Start up to spawning the goroutine. An empty Ops is an invalid
\* container. Then ensureCloseOnExec, opening the cgroup directory (when
\* CgroupPath is set) and Setup of the params pipe each may fail; a
\* failure after the open leaves the deferred Close to run. The goroutine
\* is only spawned once all succeeded.
Start ==
  /\ caller = "idle"
  /\ \/ /\ ~hasOps
        /\ caller' = "failed"
        /\ UNCHANGED <<thread, pipe, cgroupFd, faults>>
     \/ /\ hasOps /\ CanFault
        /\ faults' = faults + 1
        /\ caller' = "failed"
        /\ cgroupFd' \in IF cgroupSet THEN {"none", "closed"} ELSE {"none"}
        /\ UNCHANGED <<thread, pipe>>
     \/ /\ hasOps
        /\ caller' = "starting"
        /\ thread' = "nnp"
        /\ pipe' = "open"
        /\ cgroupFd' = FdAfterSetup(IF cgroupSet THEN "open" ELSE "none")
        /\ UNCHANGED faults
  /\ UNCHANGED <<done, waitCh, child, exitOK, sent, ctxDone, signalled, nnp,
                 landlocked, inCgroup, params>>

\* Start returns what the goroutine sent on done; its deferred Close of
\* cgroupFile runs.
StartReturn ==
  /\ caller = "starting"
  /\ done # "empty"
  /\ caller' = IF done = "ok" THEN "started" ELSE "failed"
  /\ cgroupFd' = IF cgroupFd = "open" THEN "closed" ELSE cgroupFd
  /\ UNCHANGED <<thread, done, waitCh, child, exitOK, pipe, sent, ctxDone,
                 signalled, nnp, landlocked, inCgroup, params, faults>>

\* Serve's invalid-executable branch cancels the command.
ServeNilPathCancelDropped == ctxDone
ServeNilPathCancel == TRUE

\* Serve closes the setup pipe once initParams are encoded, whether or
\* not the encoding failed.
ServeCloseSetupDropped(fd) == fd
ServeCloseSetup(fd) == "closed"

\* Serve: SetDeadline failing is a fatal StartError (the shim exits and
\* Pdeathsig kills the init); a nil Path cancels the command without
\* closing the pipe; otherwise initParams are encoded (EPIPE once the init
\* has exited, ErrDeadlineExceeded when the init has not drained the pipe
\* within initSetupTimeout), the pipe is closed, and an encoding error
\* cancels.
Serve ==
  /\ caller = "started"
  /\ \/ /\ CanFault
        /\ faults' = faults + 1
        /\ caller' = "exited"
        /\ child' = IF child \in Alive THEN "exited" ELSE child
        /\ exitOK' = IF child \in Alive THEN FALSE ELSE exitOK
        /\ UNCHANGED <<pipe, sent, ctxDone>>
     \/ /\ ~pathSet
        /\ caller' = "served"
        /\ ctxDone' = ServeNilPathCancel
        /\ UNCHANGED <<child, exitOK, pipe, sent, faults>>
     \/ /\ pathSet
        /\ caller' = "served"
        /\ pipe' = ServeCloseSetup(pipe)
        /\ sent' = (child \in Alive)
        /\ ctxDone' = (ctxDone \/ child \notin Alive)
        /\ UNCHANGED <<child, exitOK, faults>>
     \/ /\ pathSet /\ child \in Alive /\ CanFault
        /\ faults' = faults + 1
        /\ caller' = "served"
        /\ pipe' = ServeCloseSetup(pipe)
        /\ sent' = FALSE
        /\ ctxDone' = TRUE
        /\ UNCHANGED <<child, exitOK>>
  /\ UNCHANGED <<thread, done, waitCh, signalled, nnp, landlocked,
                 cgroupFd, inCgroup, params>>

\* Wait closes p.wait only when cmd.Wait returned no error.
WaitReleasesAlways(ok) == TRUE
WaitReleases(ok) == ok

\* Wait: cmd.Wait blocks until the init exited; p.cancel; close(p.wait)
\* when p.wait was made and the error is nil.
Wait ==
  /\ caller = "served"
  /\ child = "exited"
  /\ caller' = "done"
  /\ ctxDone' = TRUE
  /\ waitCh' = IF waitCh # "nil" /\ WaitReleases(exitOK) THEN "closed" ELSE waitCh
  /\ UNCHANGED <<thread, done, child, exitOK, pipe, sent, signalled, nnp,
                 landlocked, cgroupFd, inCgroup, params, faults>>

-----------------------------------------------------------------------------
(* The goroutine on the locked OS thread.                                  *)

Fail == /\ done' = "err" /\ thread' = "blocked"

\* LockOSThread; p.wait = make(chan struct{}); SetNoNewPrivs.
ThreadNoNewPrivs ==
  /\ thread = "nnp"
  /\ waitCh' = "open"
  /\ \/ /\ CanFault /\ faults' = faults + 1
        /\ Fail
        /\ UNCHANGED nnp
     \/ /\ nnp' = TRUE
        /\ thread' = "landlock"
        /\ UNCHANGED <<done, faults>>
  /\ UNCHANGED <<caller, child, exitOK, pipe, sent, ctxDone, signalled,
                 landlocked, cgroupFd, inCgroup, params>>

\* Without LANDLOCK_SCOPE_ABSTRACT_UNIX_SOCKET support Landlock is skipped
\* only when HostAbstract is set.
LandlockSkippableAlways == TRUE
LandlockSkippable == hostAbstract

\* The landlock block: get the ABI; an error (ABI 0 here) or ABI < 6 ends
\* Start unless skippable; else create the ruleset and restrict self
\* (either may fail). With HostAbstract only LANDLOCK_SCOPE_SIGNAL is set.
ThreadLandlock ==
  /\ thread = "landlock"
  /\ \/ /\ abi < 6
        /\ IF LandlockSkippable
             THEN thread' = "start" /\ UNCHANGED done
             ELSE Fail
        /\ UNCHANGED <<landlocked, faults>>
     \/ /\ abi >= 6
        /\ \/ /\ landlocked' = ~hostAbstract
              /\ thread' = "start"
              /\ UNCHANGED <<done, faults>>
           \/ /\ CanFault /\ faults' = faults + 1
              /\ Fail
              /\ UNCHANGED landlocked
  /\ UNCHANGED <<caller, waitCh, child, exitOK, pipe, sent, ctxDone, signalled,
                 nnp, cgroupFd, inCgroup, params>>

\* p.cmd.Start: fails when the context is already done or the fork-exec
\* fails; else the init runs and blocks reading its params. With
\* UseCgroupFD the clone places it into the cgroup of CgroupFD; were that
\* descriptor already closed, clone3 fails with EBADF or, if the number was
\* reused, puts the init elsewhere.
ThreadStartInit ==
  /\ thread = "start"
  /\ \/ /\ ctxDone
        /\ Fail
        /\ UNCHANGED <<child, inCgroup, faults>>
     \/ /\ ~ctxDone /\ CanFault /\ faults' = faults + 1
        /\ Fail
        /\ UNCHANGED <<child, inCgroup>>
     \/ /\ ~ctxDone /\ cgroupFd = "closed"
        /\ Fail
        /\ UNCHANGED <<child, inCgroup, faults>>
     \/ /\ ~ctxDone
        /\ child' = "reading"
        /\ inCgroup' = (cgroupFd = "open")
        /\ done' = "ok"
        /\ thread' = "blocked"
        /\ UNCHANGED faults
  /\ UNCHANGED <<caller, waitCh, exitOK, pipe, sent, ctxDone, signalled, nnp,
                 landlocked, cgroupFd, params>>

\* <-p.wait returns once Wait closed it; the goroutine ends.
ThreadExit ==
  /\ thread = "blocked"
  /\ waitCh = "closed"
  /\ thread' = "exited"
  /\ UNCHANGED <<caller, done, waitCh, child, exitOK, pipe, sent, ctxDone,
                 signalled, nnp, landlocked, cgroupFd, inCgroup, params, faults>>

-----------------------------------------------------------------------------
(* The init process, the exec.Cmd watcher and the parent context.          *)

\* The init reads its params: on success it runs the initial program,
\* on EOF (pipe closed with nothing sent) it exits with ExitFailure.
InitRead ==
  /\ child = "reading"
  /\ \/ /\ sent
        /\ child' = "running"
        /\ UNCHANGED exitOK
     \/ /\ pipe = "closed" /\ ~sent
        /\ child' = "exited"
        /\ exitOK' = FALSE
  /\ UNCHANGED <<caller, thread, done, waitCh, pipe, sent, ctxDone, signalled,
                 nnp, landlocked, cgroupFd, inCgroup, params, faults>>

\* The initial program (and so the init) exits with any status.
InitExit ==
  /\ child = "running"
  /\ child' = "exited"
  /\ exitOK' \in BOOLEAN
  /\ UNCHANGED <<caller, thread, done, waitCh, pipe, sent, ctxDone, signalled,
                 nnp, landlocked, cgroupFd, inCgroup, params, faults>>

\* CancelSignal makes the init terminate with ExitCancel.
InitCancelled ==
  /\ child \in Alive
  /\ signalled
  /\ child' = "exited"
  /\ exitOK' = FALSE
  /\ UNCHANGED <<caller, thread, done, waitCh, pipe, sent, ctxDone, signalled,
                 nnp, landlocked, cgroupFd, inCgroup, params, faults>>

\* exec.CommandContext: once the context is done and the process runs,
\* p.cmd.Cancel sends CancelSignal.
CancelCommand ==
  /\ ctxDone
  /\ child \in Alive
  /\ ~signalled
  /\ signalled' = TRUE
  /\ UNCHANGED <<caller, thread, done, waitCh, child, exitOK, pipe, sent,
                 ctxDone, nnp, landlocked, cgroupFd, inCgroup, params, faults>>

\* The parent context is cancelled (the shim is told to stop).
ParentCancel ==
  /\ ~ctxDone
  /\ ctxDone' = TRUE
  /\ UNCHANGED <<caller, thread, done, waitCh, child, exitOK, pipe, sent,
                 signalled, nnp, landlocked, cgroupFd, inCgroup, params, faults>>

-----------------------------------------------------------------------------
Init ==
  /\ caller = "idle" /\ thread = "none" /\ done = "empty" /\ waitCh = "nil"
  /\ child = "none" /\ exitOK = FALSE /\ pipe = "none" /\ sent = FALSE
  /\ ctxDone = FALSE /\ signalled = FALSE /\ nnp = FALSE /\ landlocked = FALSE
  /\ hostAbstract \in HostAbstractSet
  /\ abi \in LandlockABISet
  /\ pathSet \in PathSetSet
  /\ hasOps \in HasOpsSet
  /\ cgroupSet \in CgroupSetSet
  /\ cgroupFd = "none" /\ inCgroup = FALSE
  /\ faults = 0

\* The shim's part ends with Start failing, Wait returning or the shim exiting.
Finished ==
  /\ caller \in {"failed", "done", "exited"}
  /\ UNCHANGED vars

Next ==
  \/ Start \/ StartReturn \/ Serve \/ Wait
  \/ ThreadNoNewPrivs \/ ThreadLandlock \/ ThreadStartInit \/ ThreadExit
  \/ InitRead \/ InitExit \/ InitCancelled \/ CancelCommand \/ ParentCancel
  \/ Finished

\* Every goroutine and process is scheduled. The parent cancellation is an
\* environment event, and the sandboxed program's own exit (InitExit) is
\* up to the program: neither carries fairness.
Fairness ==
  /\ WF_vars(Start) /\ WF_vars(StartReturn) /\ WF_vars(Serve) /\ WF_vars(Wait)
  /\ WF_vars(ThreadNoNewPrivs) /\ WF_vars(ThreadLandlock)
  /\ WF_vars(ThreadStartInit) /\ WF_vars(ThreadExit)
  /\ WF_vars(InitRead) /\ WF_vars(InitCancelled)
  /\ WF_vars(CancelCommand)

Spec == Init /\ [][Next]_vars /\ Fairness

-----------------------------------------------------------------------------
TypeOK ==
  /\ caller \in {"idle", "starting", "started", "served", "done", "failed", "exited"}
  /\ thread \in {"none", "nnp", "landlock", "start", "blocked", "exited"}
  /\ done \in {"empty", "ok", "err"}
  /\ waitCh \in {"nil", "open", "closed"}
  /\ child \in {"none", "reading", "running", "exited"}
  /\ pipe \in {"none", "open", "closed"}
  /\ cgroupFd \in {"none", "open", "closed"}
  /\ {exitOK, sent, ctxDone, signalled, nnp, landlocked, inCgroup} \subseteq BOOLEAN
  /\ faults \in 0..MaxFaults

(* The init is never running without no-new-privs, and, unless            *)
(* HostAbstract was asked for, never without the Landlock scope on         *)
(* abstract unix sockets: Start's landlock block may skip Landlock only    *)
(* for HostAbstract.                                                       *)
InitConfined ==
  child # "none" => nnp /\ (landlocked \/ hostAbstract)

(* Once Start succeeded, the caller is never stuck with an init that has  *)
(* not started the program: whichever branch of Serve is taken, either    *)
(* the init gets its params and runs the program (whose exit is up to it) *)
(* or it exits (on EOF, on CancelSignal, or by Pdeathsig) and Serve and   *)
(* Wait return.                                                            *)
WaitReturns ==
  (caller = "started") ~> (caller \in {"done", "exited"} \/ child = "running")

(* The init runs in the delegated cgroup exactly when CgroupPath is set:  *)
(* the cgroup directory Start opens is still open when the locked thread  *)
(* clones the init with UseCgroupFD, although Start's deferred Close and  *)
(* the clone run on different goroutines.                                 *)
InitInCgroup ==
  child # "none" => (inCgroup <=> cgroupSet)

(* The thread Start locked is "kept alive until Wait returns" (the        *)
(* comment on <-p.wait): once the caller is through with the container,  *)
(* because Wait returned, whatever the init's exit status, or because      *)
(* Start failed after spawning the goroutine, the goroutine holding the   *)
(* thread eventually exits.                                               *)
LockedThreadReleased ==
  (caller \in {"done", "failed"} /\ thread = "blocked") ~> (thread = "exited")

(* The write end of the setup pipe that Start's Setup made (p.setup) is   *)
(* closed by the time Wait returns, on every path but Serve's nil-Path    *)
(* branch (container.go 381-383), which drops it unclosed: once a Wait    *)
(* has returned with the pipe still open, Path was nil, the init never    *)
(* read its params and the command was cancelled. (When SetDeadline      *)
(* fails, Serve also returns without closing it; that StartError is Fatal *)
(* and the shim exits, which closes the descriptor with the process.)     *)
SetupPipeReleased ==
  (caller = "done" /\ pipe = "open") => (~pathSet /\ ~sent /\ signalled)
=============================================================================
