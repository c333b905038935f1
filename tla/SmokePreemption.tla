--------------------------- MODULE SmokePreemption ---------------------------
(***************************************************************************)
(* collect_smoke_preemption (preemption/smoke.py): Docker checkpoint and   *)
(* restore of a running inference container, with the optional runc.conf   *)
(* phase switching of RuncConf around it.  Each process is one experiment  *)
(* run; runs share the host's runc.conf, its lock and the Docker daemon,   *)
(* which finishes a request whether or not the client still waits for it.  *)
(***************************************************************************)
EXTENDS ProbeStatus

CONSTANTS Proc, NoProc, NoSudo, SiteText   \* of RuncConf

ASSUME SmokePreemptionAssumption ==
  /\ NoProc \notin Proc
  /\ NoSudo \subseteq Proc
  /\ SiteText \in {"absent", "site"}

VARIABLES
  switching,   \* the runs with criu_config_mode "cdi_restore_compat"; never changes
  conf, lock, handle, stage, original, report,   \* of RuncConf
  pc,          \* the run's place in collect_smoke_preemption
  record,      \* details and status of its smoke_preemption record
  raising,     \* an exception is on its way through the finally clause
  container,   \* the run's runtime container
  job,         \* the daemon's unfinished request for it
  reply        \* the daemon's answer, as the docker client exits with it

confVars  == <<conf, lock, handle, stage, original, report>>
dockerVars == <<container, job, reply>>
vars == <<switching, confVars, pc, record, raising, dockerVars>>

Conf == INSTANCE RuncConf

\* The try block, its finally clause, and how the function is left.
Body    == {"acquire", "capture", "dump_conf", "dump", "await_dump",
            "restore_conf", "start", "await_start", "inspect"}
Final   == {"returned", "raised", "crashed"}
Pc      == {"gate"} \cup Body \cup {"cleanup", "release"} \cup Final

Outcome == {"none", "not_attempted", "not_supported", "checkpoint_failed",
            "restore_failed", "runtime_failed", "hung", "restored", "cleanup_failed"}

Record == [status : Status, outcome : Outcome, checkpoint : BOOLEAN, restore : BOOLEAN]

\* "checkpointed": stopped with a checkpoint on disk.  "restored": running
\* again from that checkpoint.  "exited": its process ended, or somebody (the
\* sweep of run_v0_full_debug.sh, another run) removed it.
Container == {"running", "checkpointed", "restored", "exited"}

TypeOK ==
  /\ switching \subseteq Proc
  /\ Conf!TypeOK
  /\ pc \in [Proc -> Pc]
  /\ record \in [Proc -> Record]
  /\ raising \in [Proc -> BOOLEAN]
  /\ container \in [Proc -> Container]
  /\ job \in [Proc -> {"none", "dump", "start"}]
  /\ reply \in [Proc -> Exit \cup {"none"}]

Init ==
  /\ switching \in SUBSET Proc
  /\ Conf!Init
  /\ pc = [p \in Proc |-> "gate"]
  /\ record = [p \in Proc |-> [status |-> "skipped", outcome |-> "none",
                               checkpoint |-> FALSE, restore |-> FALSE]]
  /\ raising = [p \in Proc |-> FALSE]
  /\ container \in [Proc -> {"running", "exited"}]
  /\ job = [p \in Proc |-> "none"]
  /\ reply = [p \in Proc |-> "none"]

Goto(p, next) == pc' = [pc EXCEPT ![p] = next]

Finish(p, status, outcome) ==
  record' = [record EXCEPT ![p].status = status, ![p].outcome = outcome]

\* `return` inside the try block: the record is made, the finally clause runs.
ReturnWith(p, status, outcome) ==
  /\ Finish(p, status, outcome)
  /\ Goto(p, "cleanup")

(***************************************************************************)
(* The gates before the try block.                                         *)
(***************************************************************************)

\* What the run brings: the docker_criu_integration record (its status, or
\* "none" for a missing or unreadable one), the runtime session, whether it
\* names a container, the configured mode, whether this user may write
\* runc.conf, and the outcome of `docker inspect` of the container's labels.
Input == [prerequisite : Status \cup {"none"}, session : {"ok", "error"},
          container : BOOLEAN, mode : {"none", "cdi_restore_compat", "other"},
          privileged : BOOLEAN, inspect : Exit, owned : BOOLEAN]

Verdict(status, outcome) == [status |-> status, outcome |-> outcome]
Proceed == Verdict("ok", "none")

\* The early returns, in their order; `owned` is what
\* _ensure_experiment_owned_runtime_container finds in the labels (FALSE for
\* labels that do not parse).
Gate(in) ==
  IF in.prerequisite = "unsupported" THEN Verdict("unsupported", "not_supported")
  ELSE IF in.prerequisite # "ok"     THEN Verdict("skipped", "not_attempted")
  ELSE IF in.session # "ok"          THEN Verdict("skipped", "not_attempted")
  ELSE IF ~in.container              THEN Verdict("skipped", "not_attempted")
  ELSE IF in.mode = "other"          THEN Verdict("error", "not_attempted")
  ELSE IF in.mode = "cdi_restore_compat" /\ ~in.privileged
                                     THEN Verdict("error", "not_attempted")
  ELSE IF in.inspect # "zero"        THEN Verdict(RunCommand(in.inspect), "not_attempted")
  ELSE IF ~in.owned                  THEN Verdict("error", "not_attempted")
  ELSE Proceed

\* The verdicts a run can get.  Its configured mode is fixed; "other" is a
\* mistyped one.
Verdicts ==
  [switches \in BOOLEAN |->
     {Gate(in) : in \in {i \in Input : (i.mode = "none") <=> ~switches}}]

Refuse(p) ==
  /\ pc[p] = "gate"
  /\ \E verdict \in Verdicts[(p \in switching)] \ {Proceed} :
       Finish(p, verdict.status, verdict.outcome)
  /\ Goto(p, "returned")
  /\ UNCHANGED <<confVars, raising, dockerVars>>

Admit(p) ==
  /\ pc[p] = "gate"
  /\ Proceed \in Verdicts[(p \in switching)]
  /\ Goto(p, IF p \in switching THEN "acquire" ELSE "dump_conf")
  /\ UNCHANGED <<confVars, record, raising, dockerVars>>

(***************************************************************************)
(* acquire                                                                 *)
(***************************************************************************)
Acquire(p) ==
  /\ pc[p] = "acquire"
  /\ Conf!LockTaken(p)
  /\ Goto(p, "capture")
  /\ UNCHANGED <<record, raising, dockerVars>>

\* Mutant: contention is logged and the run goes on.
AcquireIgnoresContention(p) ==
  /\ pc[p] = "acquire"
  /\ lock # NoProc
  /\ stage' = [stage EXCEPT ![p] = "locked"]
  /\ Goto(p, "capture")
  /\ UNCHANGED <<conf, lock, handle, original, report, record, raising, dockerVars>>

AcquireContended(p) ==
  /\ pc[p] = "acquire"
  /\ Conf!LockContended(p)
  /\ ReturnWith(p, "error", "not_attempted")
  /\ UNCHANGED <<raising, dockerVars>>

\* The exception enters the finally clause with no record made.
AcquireRaises(p) ==
  /\ pc[p] = "acquire"
  /\ Conf!LockRaises(p)
  /\ raising' = [raising EXCEPT ![p] = TRUE]
  /\ Goto(p, "cleanup")
  /\ UNCHANGED <<record, dockerVars>>

Capture(p) ==
  /\ pc[p] = "capture"
  /\ Conf!CaptureText(p) \/ Conf!CaptureMissing(p)
  /\ Goto(p, "dump_conf")
  /\ UNCHANGED <<record, raising, dockerVars>>

CaptureFailed(p) ==
  /\ pc[p] = "capture"
  /\ Conf!CaptureFails(p)
  /\ ReturnWith(p, "error", "not_attempted")
  /\ UNCHANGED <<raising, dockerVars>>

(***************************************************************************)
(* The docker client and the daemon behind it                              *)
(***************************************************************************)

\* The client hands the request over; with no docker executable it exits at
\* once and the daemon hears nothing.
Request(p, kind, next) ==
  /\ \/ job' = [job EXCEPT ![p] = kind] /\ reply' = [reply EXCEPT ![p] = "none"]
     \/ job' = job /\ reply' = [reply EXCEPT ![p] = "missing"]
  /\ Goto(p, next)
  /\ UNCHANGED <<confVars, record, raising, container>>

\* The daemon runs criu, which reads runc.conf now.  The request fails on a
\* container in the wrong state, and may fail on any other.
Serve(p, kind, from, to) ==
  /\ job[p] = kind
  /\ job' = [job EXCEPT ![p] = "none"]
  /\ \/ /\ container[p] \in from
        /\ container' = [container EXCEPT ![p] = to]
        /\ reply' = [reply EXCEPT ![p] = "zero"]
     \/ /\ \E exit \in {"nonzero", "incapable"} : reply' = [reply EXCEPT ![p] = exit]
        /\ UNCHANGED container
  /\ UNCHANGED <<confVars, pc, record, raising>>

DaemonDumps(p)  == Serve(p, "dump", {"running", "restored"}, "checkpointed")
DaemonStarts(p) == Serve(p, "start", {"checkpointed"}, "restored")

\* What the waiting client exits with: the daemon's answer or, while there is
\* none, its own timeout_s.
ClientExit(p) == IF reply[p] = "none" THEN "expired" ELSE reply[p]

\* Mutant: the raw status is recorded as the outcome.
FailedRequestRaw(p, failed) ==
  LET status == ClassifyCapability(ClientExit(p)) IN ReturnWith(p, status, status)

\* How a docker request that was not OK is recorded; `failed` is the outcome
\* of a plain error.
FailureOutcome(status, failed) ==
  IF status = "unsupported" THEN "not_supported"
  ELSE IF status = "timeout" THEN "hung" ELSE failed

FailedRequest(p, failed) ==
  LET status == ClassifyCapability(ClientExit(p))
  IN  ReturnWith(p, status, FailureOutcome(status, failed))

(***************************************************************************)
(* The checkpoint phase                                                    *)
(***************************************************************************)
MarkCheckpoint(p) == [record EXCEPT ![p].checkpoint = TRUE]

\* The phase is marked as started, then the dump text is written.
WriteDumpConf(p) ==
  /\ pc[p] = "dump_conf"
  /\ p \in switching
  /\ \E exit \in Exit :
       /\ Conf!WritePhase(p, "dump", exit)
       /\ IF exit = "zero"
            THEN Goto(p, "dump") /\ record' = MarkCheckpoint(p)
            ELSE /\ record' = [MarkCheckpoint(p) EXCEPT ![p].status = "error",
                                                        ![p].outcome = "not_attempted"]
                 /\ Goto(p, "cleanup")
  /\ UNCHANGED <<raising, dockerVars>>

KeepDumpConf(p) ==
  /\ pc[p] = "dump_conf"
  /\ p \notin switching
  /\ record' = MarkCheckpoint(p)
  /\ Goto(p, "dump")
  /\ UNCHANGED <<confVars, raising, dockerVars>>

RequestDump(p) == pc[p] = "dump" /\ Request(p, "dump", "await_dump")

DumpDone(p) ==
  /\ pc[p] = "await_dump"
  /\ ClientExit(p) = "zero"
  /\ Goto(p, "restore_conf")
  /\ UNCHANGED <<confVars, record, raising, dockerVars>>

\* Mutant: docker checkpoint create is called without timeout_s.
DumpFailedNoTimeout(p) ==
  /\ pc[p] = "await_dump"
  /\ reply[p] \notin {"none", "zero"}
  /\ FailedRequest(p, "checkpoint_failed")
  /\ UNCHANGED <<confVars, raising, dockerVars>>

DumpFailed(p) ==
  /\ pc[p] = "await_dump"
  /\ ClientExit(p) # "zero"
  /\ FailedRequest(p, "checkpoint_failed")
  /\ UNCHANGED <<confVars, raising, dockerVars>>

(***************************************************************************)
(* The restore phase                                                       *)
(***************************************************************************)
MarkRestore(p) == [record EXCEPT ![p].restore = TRUE]

\* Mutant: the restore text is never written.
WriteRestoreConfSkipped(p) ==
  /\ pc[p] = "restore_conf"
  /\ p \in switching
  /\ record' = MarkRestore(p)
  /\ Goto(p, "start")
  /\ UNCHANGED <<confVars, raising, dockerVars>>

WriteRestoreConf(p) ==
  /\ pc[p] = "restore_conf"
  /\ p \in switching
  /\ \E exit \in Exit :
       /\ Conf!WritePhase(p, "restore", exit)
       /\ IF exit = "zero"
            THEN Goto(p, "start") /\ record' = MarkRestore(p)
            ELSE /\ record' = [MarkRestore(p) EXCEPT ![p].status = "error",
                                                     ![p].outcome = "restore_failed"]
                 /\ Goto(p, "cleanup")
  /\ UNCHANGED <<raising, dockerVars>>

KeepRestoreConf(p) ==
  /\ pc[p] = "restore_conf"
  /\ p \notin switching
  /\ record' = MarkRestore(p)
  /\ Goto(p, "start")
  /\ UNCHANGED <<confVars, raising, dockerVars>>

RequestStart(p) == pc[p] = "start" /\ Request(p, "start", "await_start")

StartDone(p) ==
  /\ pc[p] = "await_start"
  /\ ClientExit(p) = "zero"
  /\ Goto(p, "inspect")
  /\ UNCHANGED <<confVars, record, raising, dockerVars>>

StartFailed(p) ==
  /\ pc[p] = "await_start"
  /\ ClientExit(p) # "zero"
  /\ FailedRequest(p, "restore_failed")
  /\ UNCHANGED <<confVars, raising, dockerVars>>

\* Mutant: the inspected state is recorded but not looked at, as the
\* docker_criu_integration probe does.
InspectBlind(p) ==
  /\ pc[p] = "inspect"
  /\ \E exit \in Exit :
       IF exit = "zero" THEN ReturnWith(p, "ok", "restored")
                        ELSE ReturnWith(p, RunCommand(exit), "restore_failed")
  /\ UNCHANGED <<confVars, raising, dockerVars>>

\* docker inspect of State.Status, and the last verdict of the body.
Inspect(p) ==
  /\ pc[p] = "inspect"
  /\ \/ /\ container[p] \in {"running", "restored"}
        /\ ReturnWith(p, "ok", "restored")
     \/ /\ container[p] \notin {"running", "restored"}
        /\ ReturnWith(p, "error", "runtime_failed")
     \/ \E exit \in FailedExit :
          ReturnWith(p, RunCommand(exit),
                     IF exit = "expired" THEN "hung" ELSE "restore_failed")
  /\ UNCHANGED <<confVars, raising, dockerVars>>

(***************************************************************************)
(* The finally clause                                                      *)
(***************************************************************************)

\* A write of runc.conf that is under way when the exception comes: the phase
\* is marked, and the file is whatever the write left.
BrokenWrite(p) ==
  /\ p \in switching
  /\ \E exit \in Exit :
       \/ /\ pc[p] = "dump_conf"
          /\ Conf!WritePhase(p, "dump", exit)
          /\ record' = MarkCheckpoint(p)
       \/ /\ pc[p] = "restore_conf"
          /\ Conf!WritePhase(p, "restore", exit)
          /\ record' = MarkRestore(p)

\* KeyboardInterrupt, or any other exception, anywhere in the body (during
\* acquire it is AcquireRaises).
Interrupt(p) ==
  /\ pc[p] \in Body \ {"acquire"}
  /\ BrokenWrite(p) \/ UNCHANGED <<confVars, record>>
  /\ raising' = [raising EXCEPT ![p] = TRUE]
  /\ Goto(p, "cleanup")
  /\ UNCHANGED dockerVars

FinallyRestoreOriginal(p) ==
  /\ pc[p] = "cleanup"
  /\ p \in switching
  /\ \E exit \in Exit : Conf!RestoreOriginal(p, exit)
  /\ Goto(p, "release")
  /\ UNCHANGED <<record, raising, dockerVars>>

\* Mutant: only the lock's release is looked at.
FinallyReleaseLockOnly(p) ==
  /\ pc[p] = "release"
  /\ \E ok \in BOOLEAN :
       /\ Conf!Release(p, ok)
       /\ IF ok THEN /\ Goto(p, IF raising[p] THEN "raised" ELSE "returned")
                     /\ UNCHANGED record
                ELSE Finish(p, "error", "cleanup_failed") /\ Goto(p, "returned")
  /\ UNCHANGED <<raising, dockerVars>>

\* Mutant: a failed cleanup rewrites the outcome but not the status.
FinallyReleaseKeepsStatus(p) ==
  /\ pc[p] = "release"
  /\ \E ok \in BOOLEAN : Conf!Release(p, ok)
  /\ IF report'[p] # {}
       THEN Finish(p, record[p].status, "cleanup_failed") /\ Goto(p, "returned")
       ELSE /\ Goto(p, IF raising[p] THEN "raised" ELSE "returned")
            /\ UNCHANGED record
  /\ UNCHANGED <<raising, dockerVars>>

\* A failed cleanup step replaces whatever the body was about to return, and
\* its own `return` ends an exception in flight.
FinallyRelease(p) ==
  /\ pc[p] = "release"
  /\ \E ok \in BOOLEAN : Conf!Release(p, ok)
  /\ IF report'[p] # {}
       THEN Finish(p, "error", "cleanup_failed") /\ Goto(p, "returned")
       ELSE /\ Goto(p, IF raising[p] THEN "raised" ELSE "returned")
            /\ UNCHANGED record
  /\ UNCHANGED <<raising, dockerVars>>

FinallyNothing(p) ==
  /\ pc[p] = "cleanup"
  /\ p \notin switching
  /\ Goto(p, IF raising[p] THEN "raised" ELSE "returned")
  /\ UNCHANGED <<confVars, record, raising, dockerVars>>

(***************************************************************************)
(* Everything else that moves                                              *)
(***************************************************************************)
RuntimeDies(p) ==
  /\ container[p] \in {"running", "restored"}
  /\ container' = [container EXCEPT ![p] = "exited"]
  /\ UNCHANGED <<confVars, pc, record, raising, job, reply>>

ProcessExit(p) ==
  /\ Conf!ProcessExit(p)
  /\ UNCHANGED <<pc, record, raising, dockerVars>>

Crash(p) ==
  /\ pc[p] \notin Final
  /\ Conf!Crash(p)
  /\ Goto(p, "crashed")
  /\ UNCHANGED <<record, raising, dockerVars>>

\* The steps the run takes by itself.
RunStep(p) ==
  /\ \/ Refuse(p) \/ Admit(p)
     \/ Acquire(p) \/ AcquireContended(p) \/ AcquireRaises(p)
     \/ Capture(p) \/ CaptureFailed(p)
     \/ WriteDumpConf(p) \/ KeepDumpConf(p) \/ RequestDump(p) \/ DumpDone(p) \/ DumpFailed(p)
     \/ WriteRestoreConf(p) \/ KeepRestoreConf(p)
     \/ RequestStart(p) \/ StartDone(p) \/ StartFailed(p)
     \/ Inspect(p)
     \/ FinallyRestoreOriginal(p) \/ FinallyRelease(p) \/ FinallyNothing(p)
     \/ ProcessExit(p)
  /\ UNCHANGED switching

Next ==
  /\ \E p \in Proc :
       \/ RunStep(p) \/ Interrupt(p) \/ Crash(p)
       \/ DaemonDumps(p) \/ DaemonStarts(p) \/ RuntimeDies(p)
  /\ UNCHANGED switching

Spec == Init /\ [][Next]_vars

-----------------------------------------------------------------------------
(***************************************************************************)
(* Properties                                                              *)
(***************************************************************************)

\* The preemption drives the switcher by its protocol: every step of the
\* whole function is a step of RuncConf or leaves its variables alone.
SwitcherProtocol == Conf!Spec

\* A runc.conf that is lost while nobody holds the lock is confessed in the
\* record of a switching run, filed or just being filed, unless such a run
\* crashed after it had captured the file: no interleaving of early returns,
\* exceptions and the finally clause's overriding return hides it.
HonestRecord ==
  (lock = NoProc /\ conf # SiteText) =>
    \E p \in switching : \/ pc[p] = "crashed" /\ original[p] # "none"
                         \/ pc[p] = "returned" /\ record[p].outcome = "cleanup_failed"
                         \/ pc[p] = "release" /\ report[p] # {}

\* criu dumps under the dump text and restores under the restore text, as
\* long as the switching run still waits for the daemon.
PhaseTextServed ==
  [][\A p \in switching :
       job[p] # job'[p] /\ job'[p] = "none" /\ pc[p] \in {"await_dump", "await_start"}
         => conf = IF job[p] = "dump" THEN "dump" ELSE "restore"]_vars

\* "restored" is recorded only for a container that criu brought back and,
\* in a switching run, while that run still owns the lock it took before the
\* dump: the whole checkpoint-restore sequence is one lease.
RestoredUnderLease ==
  [][\A p \in Proc :
       record'[p].outcome = "restored" /\ record[p].outcome # "restored"
         => /\ container[p] = "restored"
            /\ p \in switching => lock = p /\ conf = "restore"]_vars

\* A run that returned with status OK is one whose outcome is "restored", and
\* both phases were attempted; the finally clause cannot leave the two apart.
OkMeansRestored ==
  \A p \in Proc : pc[p] = "returned" =>
    /\ record[p].status = "ok" <=> record[p].outcome = "restored"
    /\ record[p].outcome = "restored" => record[p].checkpoint /\ record[p].restore

\* Design constraint of the phase switch plan: "mntns-compat-mode must only
\* be present for restore, never dump."  No dump is ever served under the
\* restore text.
NeverDumpUnderCompat ==
  [][\A p \in Proc : job[p] = "dump" /\ job'[p] = "none" => conf # "restore"]_vars
=============================================================================
