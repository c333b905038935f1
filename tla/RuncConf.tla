------------------------------- MODULE RuncConf -------------------------------
(***************************************************************************)
(* CriuRuncConfigPhaseSwitcher (criu_config.py): the object through which a *)
(* preemption switches the host-wide /etc/criu/runc.conf between its dump  *)
(* and restore texts under an advisory flock, and puts the original back.  *)
(*                                                                         *)
(* Every process runs one switcher through the protocol its only caller    *)
(* follows (preemption/smoke.py): acquire, any number of write_phase calls *)
(* once acquire returned OK, then restore_original and release in a        *)
(* finally clause that runs on every way out.  The file and the lock are   *)
(* shared; the kernel drops the lock of a process that dies.               *)
(***************************************************************************)
EXTENDS ProbeStatus

CONSTANTS
  Proc,       \* harness processes on one host
  NoProc,     \* the owner of a free lock
  NoSudo,     \* those told to use sudo (allow_sudo) on a host without it
  SiteText    \* the file as the site keeps it: "site", or "absent"

ASSUME RuncConfAssumption ==
  /\ NoProc \notin Proc
  /\ NoSudo \subseteq Proc
  /\ SiteText \in {"absent", "site"}

VARIABLES
  conf,       \* content of runc.conf
  lock,       \* owner of the flock on RUNC_CONF_LOCK_PATH
  handle,     \* the processes whose switcher has a _lock_handle
  stage,      \* where each process is in its switcher's life
  original,   \* (_cleanup_enabled, original_exists, original_text)
  report      \* those of restore_original and release that returned an error

confVars == <<conf, lock, handle, stage, original, report>>

\* "torn": truncated by a write that did not finish.
Text  == {"absent", "site", "dump", "restore", "torn"}
Phase == {"dump", "restore"}

\* "none": _cleanup_enabled is False.  "absent": captured, original_exists
\* is False.  Anything else: captured with that original_text.
Captured == Text \cup {"none"}

\* "refused": acquire did not return OK, or raised.  "restored": between
\* restore_original and release.  "gone": the process has exited or crashed.
Stage == {"idle", "locked", "ready", "refused", "restored", "done", "gone", "crashed"}

TypeOK ==
  /\ conf \in Text
  /\ lock \in Proc \cup {NoProc}
  /\ handle \subseteq Proc
  /\ stage \in [Proc -> Stage]
  /\ original \in [Proc -> Captured]
  /\ report \in [Proc -> SUBSET {"restore", "release"}]

Init ==
  /\ conf = SiteText
  /\ lock = NoProc
  /\ handle = {}
  /\ stage = [p \in Proc |-> "idle"]
  /\ original = [p \in Proc |-> "none"]
  /\ report = [p \in Proc |-> {}]

Enter(p, s) == stage' = [stage EXCEPT ![p] = s]

(***************************************************************************)
(* File commands, run as root in-process or through `sudo -n`.             *)
(***************************************************************************)

\* Without the sudo executable run_command reports UNSUPPORTED and nothing ran.
FileExit(p) == IF p \in NoSudo THEN {"missing"} ELSE {"zero", "nonzero", "expired"}

\* _write_text: a failed write may have left the file alone, truncated it or
\* written it after all (tee outlived its timeout).
AfterWrite(exit, text) ==
  CASE exit = "zero"    -> {text}
    [] exit = "missing" -> {conf}
    [] OTHER            -> {conf, "torn", text}

\* remove_runc_conf: rm -f.
AfterRemove(exit) ==
  CASE exit = "zero"    -> {"absent"}
    [] exit = "missing" -> {conf}
    [] OTHER            -> {conf, "absent"}

(***************************************************************************)
(* acquire                                                                 *)
(***************************************************************************)

\* flock(LOCK_EX | LOCK_NB) succeeds.
LockTaken(p) ==
  /\ stage[p] = "idle"
  /\ lock = NoProc
  /\ lock' = p
  /\ handle' = handle \cup {p}
  /\ Enter(p, "locked")
  /\ UNCHANGED <<conf, original, report>>

\* BlockingIOError: "CRIU runc.conf lock contention".
LockContended(p) ==
  /\ stage[p] = "idle"
  /\ lock # NoProc
  /\ Enter(p, "refused")
  /\ UNCHANGED <<conf, lock, handle, original, report>>

\* mkdir or open of the lock file raises (another user's file in /tmp): only
\* BlockingIOError is caught, so the exception leaves acquire.
LockRaises(p) ==
  /\ stage[p] = "idle"
  /\ Enter(p, "refused")
  /\ UNCHANGED <<conf, lock, handle, original, report>>

\* cat succeeds: the text is captured.
CaptureText(p) ==
  /\ stage[p] = "locked"
  /\ "zero" \in FileExit(p)
  /\ conf # "absent"
  /\ original' = [original EXCEPT ![p] = conf]
  /\ Enter(p, "ready")
  /\ UNCHANGED <<conf, lock, handle, report>>

\* _looks_like_missing_file: the file is missing - or the sudo executable is,
\* which raises the same FileNotFoundError.
CaptureMissing(p) ==
  /\ stage[p] = "locked"
  /\ conf = "absent" \/ FileExit(p) = {"missing"}
  /\ original' = [original EXCEPT ![p] = "absent"]
  /\ Enter(p, "ready")
  /\ UNCHANGED <<conf, lock, handle, report>>

\* The lock once p has given up what it may have of it.
Unlocked(p) == IF lock = p THEN NoProc ELSE lock

\* release: nothing without a handle; else LOCK_UN and close.  When either
\* raises the handle is kept, and the lock is free only if it was close.
ReleaseLock(p, ok) ==
  IF p \in handle
    THEN /\ lock' \in IF ok THEN {Unlocked(p)} ELSE {Unlocked(p), lock}
         /\ handle' = IF ok THEN handle \ {p} ELSE handle
    ELSE ok /\ UNCHANGED <<lock, handle>>

\* Mutant: the status of the read is not looked at; its empty output is taken
\* for the original text.
CaptureFailsUnchecked(p) ==
  /\ stage[p] = "locked"
  /\ FileExit(p) \cap {"nonzero", "expired"} # {}
  /\ original' = [original EXCEPT ![p] = ""]
  /\ Enter(p, "ready")
  /\ UNCHANGED <<conf, lock, handle, report>>

\* Any other failed read: release() at once (its result is not looked at).
CaptureFails(p) ==
  /\ stage[p] = "locked"
  /\ FileExit(p) \cap {"nonzero", "expired"} # {}
  /\ \E ok \in BOOLEAN : ReleaseLock(p, ok)
  /\ Enter(p, "refused")
  /\ UNCHANGED <<conf, original, report>>

(***************************************************************************)
(* write_phase, restore_original, release                                  *)
(***************************************************************************)
WritePhase(p, phase, exit) ==
  /\ stage[p] = "ready"
  /\ exit \in FileExit(p)
  /\ conf' \in AfterWrite(exit, phase)
  /\ UNCHANGED <<lock, handle, stage, original, report>>

AfterRestore(p, exit) ==
  IF original[p] = "absent" THEN AfterRemove(exit) ELSE AfterWrite(exit, original[p])

\* Mutant: no _cleanup_enabled; a switcher that captured nothing has
\* original_exists False and removes the file.
RestoreOriginalUngated(p, exit) ==
  /\ stage[p] \in {"locked", "ready", "refused"}
  /\ exit \in FileExit(p)
  /\ conf' \in IF original[p] = "none" THEN AfterRemove(exit) ELSE AfterRestore(p, exit)
  /\ report' = [report EXCEPT ![p] = IF exit = "zero" THEN @ ELSE @ \cup {"restore"}]
  /\ Enter(p, "restored")
  /\ UNCHANGED <<lock, handle, original>>

\* Mutant: the result of the restoring command is dropped.
RestoreOriginalUnchecked(p, exit) ==
  /\ stage[p] \in {"locked", "ready", "refused"}
  /\ IF original[p] = "none"
       THEN exit = "zero" /\ UNCHANGED conf
       ELSE exit \in FileExit(p) /\ conf' \in AfterRestore(p, exit)
  /\ Enter(p, "restored")
  /\ UNCHANGED <<lock, handle, original, report>>

\* The finally clause is entered from every stage acquire can be left in: an
\* exception between flock and the end of the capture leaves "locked".
RestoreOriginal(p, exit) ==
  /\ stage[p] \in {"locked", "ready", "refused"}
  /\ IF original[p] = "none"
       THEN exit = "zero" /\ UNCHANGED <<conf, report>>
       ELSE /\ exit \in FileExit(p)
            /\ conf' \in AfterRestore(p, exit)
            /\ report' = [report EXCEPT ![p] = IF exit = "zero" THEN @ ELSE @ \cup {"restore"}]
  /\ Enter(p, "restored")
  /\ UNCHANGED <<lock, handle, original>>

\* Mutant: the lock is given back before the file is.
ReleaseEarly(p, ok) ==
  /\ stage[p] \in {"ready", "restored"}
  /\ ReleaseLock(p, ok)
  /\ report' = [report EXCEPT ![p] = IF ok THEN @ ELSE @ \cup {"release"}]
  /\ Enter(p, "done")
  /\ UNCHANGED <<conf, original>>

\* Mutant: a failed restore_original leaves the finally clause before release.
ReleaseAfterCleanRestore(p, ok) ==
  /\ stage[p] = "restored"
  /\ IF report[p] = {} THEN ReleaseLock(p, ok) ELSE ok /\ UNCHANGED <<lock, handle>>
  /\ report' = [report EXCEPT ![p] = IF ok THEN @ ELSE @ \cup {"release"}]
  /\ Enter(p, "done")
  /\ UNCHANGED <<conf, original>>

Release(p, ok) ==
  /\ stage[p] = "restored"
  /\ ReleaseLock(p, ok)
  /\ report' = [report EXCEPT ![p] = IF ok THEN @ ELSE @ \cup {"release"}]
  /\ Enter(p, "done")
  /\ UNCHANGED <<conf, original>>

(***************************************************************************)
(* The process and the kernel                                              *)
(***************************************************************************)

\* The kernel closes what release could not.
Closed(p) == lock' = Unlocked(p) /\ handle' = handle \ {p}

ProcessExit(p) ==
  /\ stage[p] = "done"
  /\ Closed(p)
  /\ Enter(p, "gone")
  /\ UNCHANGED <<conf, original, report>>

\* SIGKILL, power loss, or an exception inside the finally clause itself.
Crash(p) ==
  /\ stage[p] \notin {"gone", "crashed"}
  /\ Closed(p)
  /\ Enter(p, "crashed")
  /\ UNCHANGED <<conf, original, report>>

\* The protocol up to release, which the finally clause makes sure of.
Protocol(p) ==
  \/ LockTaken(p) \/ LockContended(p) \/ LockRaises(p)
  \/ CaptureText(p) \/ CaptureMissing(p) \/ CaptureFails(p)
  \/ \E exit \in Exit : RestoreOriginal(p, exit)
  \/ \E ok \in BOOLEAN : Release(p, ok)

\* All that a process does.
Moves(p) ==
  \/ Protocol(p)
  \/ \E phase \in Phase, exit \in Exit : WritePhase(p, phase, exit)
  \/ ProcessExit(p) \/ Crash(p)

Next == \E p \in Proc : Moves(p)

Spec == Init /\ [][Next]_confVars

\* A process in the protocol keeps running: the operating system schedules it
\* and every command has a timeout.  Nothing says that it crashes, or that it
\* ends: after release a harness process goes on for as long as its run does.
FairSpec == Spec /\ \A p \in Proc : WF_confVars(Protocol(p))

-----------------------------------------------------------------------------
(***************************************************************************)
(* Properties                                                              *)
(***************************************************************************)
\* A process that died before it had captured anything has changed nothing.
Blamed == {p \in Proc : \/ stage[p] = "crashed" /\ original[p] # "none"
                        \/ report[p] # {}}

\* When nobody holds the lock and the file is not the site's, some process
\* crashed after its capture or said in its record that its cleanup failed: a
\* lost or mangled configuration is never silent (restore_original and release
\* results), and is no fault of a run that came too late or died too early.
HonestCleanup == lock = NoProc /\ conf # SiteText => Blamed # {}

\* Whatever a process does without owning the lock, it leaves the file alone.
\* write_phase and restore_original look at no lock: it takes the order of the
\* protocol and _cleanup_enabled to keep the loser of the flock race, which
\* runs the same finally clause, from writing or removing the winner's file.
OnlyHolderTouchesConf ==
  [][\A p \in Proc : Moves(p) /\ lock # p => conf' = conf]_confVars

\* The switcher implements the lease: each lease ends with the file as its
\* holder found it, or with the holder blamed.  The lease begins at flock, the
\* text is captured later; a process without sudo captures "absent" whatever
\* the file holds but can never change it.
LeaseBase ==
  IF lock = NoProc THEN conf
  ELSE IF original[lock] = "none" \/ lock \in NoSudo THEN conf ELSE original[lock]

Lease == INSTANCE ConfLease WITH
           holder <- lock, base <- LeaseBase, blamed <- Blamed

LeaseImplemented == Lease!Spec

\* A holder gives the lock back by itself, without waiting for its process to
\* end, or its report says that release could not: whatever failed before, the
\* rest of its run does not keep others from the file.
LockFreed == \A p \in Proc : lock = p ~> lock # p \/ "release" \in report[p]
=============================================================================
