------------------------ MODULE SmokePreemptionProofs ------------------------
(***************************************************************************)
(* Theorems about SmokePreemption, for every set of runs, whichever of     *)
(* them switch runc.conf or lack sudo: the preemption follows the          *)
(* switcher's protocol, what it records is honest, and both phases are     *)
(* served under the lease they were prepared under.                        *)
(***************************************************************************)
EXTENDS SmokePreemption, TLAPS

Runc == INSTANCE RuncConfProofs

\* Whose step it is: a run's own, or one of the daemon's for it.
RunAction(p)    == RunStep(p) \/ Interrupt(p) \/ Crash(p)
DaemonAction(p) == DaemonDumps(p) \/ DaemonStarts(p) \/ RuntimeDies(p)

\* A step is a run's own or the daemon's for it.
LEMMA NextSplit ==
  Next <=> (\E p \in Proc : RunAction(p) \/ DaemonAction(p)) /\ UNCHANGED switching
BY DEF Next, RunAction, DaemonAction

-----------------------------------------------------------------------------
(***************************************************************************)
(* The preemption drives the switcher by its protocol.                     *)
(***************************************************************************)
LEMMA RunDrives ==
  ASSUME NEW p \in Proc, RunAction(p)
  PROVE  Conf!Moves(p) \/ UNCHANGED confVars
<1> USE DEF Conf!Phase, Conf!Exit, Exit, Conf!Moves
<1>1. CASE Refuse(p) \/ Admit(p) \/ KeepDumpConf(p) \/ KeepRestoreConf(p) \/ FinallyNothing(p)
  BY <1>1 DEF Refuse, Admit, KeepDumpConf, KeepRestoreConf, FinallyNothing
<1>2. CASE Acquire(p) \/ AcquireContended(p) \/ AcquireRaises(p)
  BY <1>2 DEF Acquire, AcquireContended, AcquireRaises, Conf!Protocol
<1>3. CASE Capture(p) \/ CaptureFailed(p)
  BY <1>3 DEF Capture, CaptureFailed, Conf!Protocol
<1>4. CASE WriteDumpConf(p) \/ WriteRestoreConf(p)
  BY <1>4 DEF WriteDumpConf, WriteRestoreConf
<1>5. CASE \/ RequestDump(p) \/ DumpDone(p) \/ DumpFailed(p)
           \/ RequestStart(p) \/ StartDone(p) \/ StartFailed(p) \/ Inspect(p)
  BY <1>5 DEF RequestDump, DumpDone, DumpFailed, RequestStart, StartDone, StartFailed,
              Inspect, Request
<1>6. CASE FinallyRestoreOriginal(p) \/ FinallyRelease(p) \/ ProcessExit(p)
  BY <1>6 DEF FinallyRestoreOriginal, FinallyRelease, ProcessExit, Conf!Protocol
<1>7. CASE Interrupt(p)
  BY <1>7 DEF Interrupt, BrokenWrite
<1>8. CASE Crash(p)
  BY <1>8 DEF Crash
<1>9. QED
  BY <1>1, <1>2, <1>3, <1>4, <1>5, <1>6, <1>7, <1>8 DEF RunAction, RunStep

\* The daemon touches neither the file and its lock nor the record.
LEMMA DaemonAloof ==
  ASSUME NEW p \in Proc, DaemonAction(p)
  PROVE  UNCHANGED <<confVars, pc, record, raising>>
BY DEF DaemonAction, DaemonDumps, DaemonStarts, RuntimeDies, Serve

\* Every step of the preemption is one of the switcher's protocol, or none of it.
LEMMA SwitcherStep ==
  ASSUME [Next]_vars
  PROVE  [Conf!Next]_(Conf!confVars)
<1>1. UNCHANGED confVars => UNCHANGED Conf!confVars
  BY DEF confVars, Conf!confVars
<1>2. \A p \in Proc : Conf!Moves(p) => Conf!Next
  BY DEF Conf!Next
<1>3. UNCHANGED vars => UNCHANGED confVars
  BY DEF vars
<1>4. QED BY <1>1, <1>2, <1>3, RunDrives, DaemonAloof, NextSplit

\* SmokePreemption implements RuncConf: every step of the whole function is a
\* step of the switcher's protocol or leaves its variables alone.
THEOREM SwitcherProtocolHolds == Spec => SwitcherProtocol
<1>1. Init => Conf!Init BY DEF Init
<1>2. QED BY <1>1, SwitcherStep, PTL DEF Spec, SwitcherProtocol, Conf!Spec

-----------------------------------------------------------------------------
(***************************************************************************)
(* What RuncConfProofs proves of the switcher holds in the preemption.     *)
(* Conf and Runc are instances of the same definitions, so that nothing is *)
(* to be shown but that; Text and Stage only occur in the types.           *)
(***************************************************************************)
LEMMA SameSpec == Conf!Spec => Runc!Spec
<1>1. /\ Conf!Init => Runc!Init
      /\ Conf!Next => Runc!Next
      /\ UNCHANGED Conf!confVars => UNCHANGED Runc!confVars
  BY Zenon
  DEF  Conf!Init, Runc!Init, Conf!confVars, Runc!confVars, Conf!Next, Runc!Next,
       Conf!Moves, Runc!Moves, Conf!Protocol, Runc!Protocol, Conf!Crash, Runc!Crash,
       Conf!Enter, Runc!Enter, Conf!Unlocked, Runc!Unlocked, Conf!Closed, Runc!Closed,
       Conf!ReleaseLock, Runc!ReleaseLock, Conf!FileExit, Runc!FileExit, Conf!Exit,
       Runc!Exit, Conf!Phase, Runc!Phase, Conf!AfterWrite, Runc!AfterWrite,
       Conf!AfterRemove, Runc!AfterRemove, Conf!AfterRestore, Runc!AfterRestore,
       Conf!LockTaken, Runc!LockTaken, Conf!LockContended, Runc!LockContended,
       Conf!LockRaises, Runc!LockRaises, Conf!CaptureText, Runc!CaptureText,
       Conf!CaptureMissing, Runc!CaptureMissing, Conf!CaptureFails,
       Runc!CaptureFails, Conf!WritePhase, Runc!WritePhase, Conf!RestoreOriginal,
       Runc!RestoreOriginal, Conf!Release, Runc!Release, Conf!ProcessExit,
       Runc!ProcessExit
<1>2. QED BY <1>1, PTL DEF Conf!Spec, Runc!Spec

\* Conf and Runc have the same types.
LEMMA SameType == Runc!TypeOK <=> Conf!TypeOK
BY DEF Runc!TypeOK, Conf!TypeOK, Runc!Text, Conf!Text, Runc!Stage, Conf!Stage,
       Runc!Captured, Conf!Captured

\* The switcher's types, its inductive invariant, and its honest clean-up.
LEMMA SwitcherInvariants == Spec => [](Conf!TypeOK /\ Runc!LockInv /\ Runc!HonestCleanup)
<1>1. Runc!RuncConfAssumption
  BY SmokePreemptionAssumption DEF Runc!RuncConfAssumption
<1>2. Runc!Spec => []Runc!TypeOK BY <1>1, Runc!TypeCorrect
<1>3. Runc!Spec => []Runc!LockInv BY <1>1, Runc!LockInvariant
<1>4. Runc!Spec => []Runc!HonestCleanup BY <1>1, Runc!CleanupIsHonest
<1>5. QED
  BY <1>2, <1>3, <1>4, SwitcherProtocolHolds, SameSpec, SameType, PTL DEF SwitcherProtocol

-----------------------------------------------------------------------------
(***************************************************************************)
(* Types                                                                   *)
(***************************************************************************)

\* A subprocess' status is OK exactly after a zero exit.
LEMMA RunCommandStatus ==
  ASSUME NEW exit \in Exit
  PROVE  /\ RunCommand(exit) \in Status
         /\ ClassifyCapability(exit) \in Status
         /\ RunCommand(exit) = "ok" <=> exit = "zero"
         /\ ClassifyCapability(exit) = "ok" <=> exit = "zero"
BY DEF RunCommand, ClassifyCapability, Exit, Status

\* A refusal is never OK and says that nothing was attempted.
LEMMA RefusalStatus ==
  ASSUME NEW p \in Proc, NEW verdict \in Verdicts[(p \in switching)] \ {Proceed}
  PROVE  /\ verdict.status \in Status \ {"ok"}
         /\ verdict.outcome \in {"not_supported", "not_attempted"}
         /\ verdict.status = "skipped" => verdict.outcome = "not_attempted"
<1>1. PICK in \in Input : verdict = Gate(in)
  <2>1. \A switches \in BOOLEAN : \A v \in Verdicts[switches] : \E in \in Input : v = Gate(in)
    BY DEF Verdicts
  <2>2. (p \in switching) \in BOOLEAN OBVIOUS
  <2>3. QED BY <2>1, <2>2
<1>2. in.inspect \in Exit /\ in.prerequisite \in Status \cup {"none"}
  BY DEF Input
<1>3. QED
  BY <1>1, <1>2, RunCommandStatus DEF Gate, Verdict, Proceed, Status

\* The types of what the preemption adds to the switcher.
LocalTypeOK ==
  /\ switching \subseteq Proc
  /\ pc \in [Proc -> Pc]
  /\ record \in [Proc -> Record]
  /\ raising \in [Proc -> BOOLEAN]
  /\ container \in [Proc -> Container]
  /\ job \in [Proc -> {"none", "dump", "start"}]
  /\ reply \in [Proc -> Exit \cup {"none"}]

\* A client ends with what the daemon answered, or at its timeout.
LEMMA ClientExitType ==
  ASSUME LocalTypeOK, NEW p \in Proc
  PROVE  /\ ClientExit(p) \in Exit
         /\ ClientExit(p) = "zero" <=> reply[p] = "zero"
BY DEF LocalTypeOK, ClientExit, Exit

\* What a failed request is recorded as.
LEMMA FailureType ==
  ASSUME LocalTypeOK, NEW p \in Proc, ClientExit(p) # "zero",
         NEW failed \in {"checkpoint_failed", "restore_failed"}
  PROVE  LET status == ClassifyCapability(ClientExit(p))
         IN  /\ status \in Status \ {"ok"}
             /\ FailureOutcome(status, failed) \in Outcome \ {"restored"}
BY ClientExitType, RunCommandStatus DEF FailureOutcome, Outcome

\* A verdict of the body or of the clean-up fits into the record.
LEMMA FinishType ==
  ASSUME LocalTypeOK, NEW p \in Proc, NEW status \in Status, NEW outcome \in Outcome,
         Finish(p, status, outcome)
  PROVE  record' \in [Proc -> Record]
<1>1. record[p] \in Record BY DEF LocalTypeOK
<1>2. [record[p] EXCEPT !.status = status, !.outcome = outcome] \in Record
  BY <1>1 DEF Record
<1>3. record' = [record EXCEPT ![p] = [record[p] EXCEPT !.status = status, !.outcome = outcome]]
  BY DEF Finish
<1>4. QED BY <1>2, <1>3 DEF LocalTypeOK

\* A verdict changes the status and the outcome and neither mark.
LEMMA FinishEffect ==
  ASSUME LocalTypeOK, NEW p \in Proc, NEW status, NEW outcome, Finish(p, status, outcome)
  PROVE  /\ record'[p].status = status /\ record'[p].outcome = outcome
         /\ record'[p].checkpoint = record[p].checkpoint
         /\ record'[p].restore = record[p].restore
BY DEF LocalTypeOK, Finish, Record

\* The marks of the two phases fit into the record.
LEMMA MarkType ==
  ASSUME LocalTypeOK, NEW p \in Proc
  PROVE  /\ MarkCheckpoint(p) \in [Proc -> Record]
         /\ MarkRestore(p) \in [Proc -> Record]
         /\ [MarkCheckpoint(p) EXCEPT ![p].status = "error", ![p].outcome = "not_attempted"]
              \in [Proc -> Record]
         /\ [MarkRestore(p) EXCEPT ![p].status = "error", ![p].outcome = "restore_failed"]
              \in [Proc -> Record]
<1>1. MarkCheckpoint(p) \in [Proc -> Record]
  BY DEF LocalTypeOK, MarkCheckpoint, Record
<1>2. MarkRestore(p) \in [Proc -> Record]
  BY DEF LocalTypeOK, MarkRestore, Record
<1>3. ASSUME NEW f \in [Proc -> Record], NEW status \in Status, NEW outcome \in Outcome
      PROVE  [f EXCEPT ![p].status = status, ![p].outcome = outcome] \in [Proc -> Record]
  BY DEF Record
<1>4. QED
  BY <1>1, <1>2, <1>3 DEF Status, Outcome

\* Every step keeps the types of the preemption's own variables.
LEMMA LocalTypeStep ==
  ASSUME LocalTypeOK, [Next]_vars
  PROVE  LocalTypeOK'
<1> USE DEF LocalTypeOK, Goto, Pc, Body, Final, dockerVars
<1>1. ASSUME NEW p \in Proc, Refuse(p), UNCHANGED switching PROVE LocalTypeOK'
  <2>1. PICK verdict \in Verdicts[(p \in switching)] \ {Proceed} :
          Finish(p, verdict.status, verdict.outcome)
    BY <1>1 DEF Refuse
  <2>2. /\ verdict.status \in Status \ {"ok"}
        /\ verdict.outcome \in {"not_supported", "not_attempted"}
    BY RefusalStatus
  <2>3. verdict.status \in Status /\ verdict.outcome \in Outcome
    BY <2>2 DEF Outcome
  <2>4. QED BY <1>1, <2>1, <2>3, FinishType DEF Refuse
<1>2. ASSUME NEW p \in Proc, UNCHANGED switching,
             \/ Admit(p) \/ Acquire(p) \/ AcquireRaises(p) \/ Capture(p)
             \/ DumpDone(p) \/ StartDone(p)
             \/ FinallyRestoreOriginal(p) \/ FinallyNothing(p) \/ ProcessExit(p) \/ Crash(p)
      PROVE  LocalTypeOK'
  BY <1>2 DEF Admit, Acquire, AcquireRaises, Capture, DumpDone, StartDone,
              FinallyRestoreOriginal, FinallyNothing, ProcessExit, Crash
<1>3. ASSUME NEW p \in Proc, AcquireContended(p) \/ CaptureFailed(p), UNCHANGED switching
      PROVE  LocalTypeOK'
  BY <1>3, FinishType DEF AcquireContended, CaptureFailed, ReturnWith, Status, Outcome
<1>4. ASSUME NEW p \in Proc, UNCHANGED switching,
             \/ WriteDumpConf(p) \/ KeepDumpConf(p)
             \/ WriteRestoreConf(p) \/ KeepRestoreConf(p)
      PROVE  LocalTypeOK'
  <2>1. record' \in [Proc -> Record]
    <3>1. /\ MarkCheckpoint(p) \in [Proc -> Record]
          /\ MarkRestore(p) \in [Proc -> Record]
          /\ [MarkCheckpoint(p) EXCEPT ![p].status = "error", ![p].outcome = "not_attempted"]
               \in [Proc -> Record]
          /\ [MarkRestore(p) EXCEPT ![p].status = "error", ![p].outcome = "restore_failed"]
               \in [Proc -> Record]
      BY MarkType, Zenon
    <3>2. WriteDumpConf(p) => record' \in [Proc -> Record]
      BY <3>1, Zenon DEF WriteDumpConf
    <3>3. WriteRestoreConf(p) => record' \in [Proc -> Record]
      BY <3>1, Zenon DEF WriteRestoreConf
    <3>4. KeepDumpConf(p) \/ KeepRestoreConf(p) => record' \in [Proc -> Record]
      BY <3>1, Zenon DEF KeepDumpConf, KeepRestoreConf
    <3>5. QED BY <1>4, <3>2, <3>3, <3>4
  <2>2. QED
    BY <1>4, <2>1 DEF WriteDumpConf, KeepDumpConf, WriteRestoreConf, KeepRestoreConf
<1>5. ASSUME NEW p \in Proc, RequestDump(p) \/ RequestStart(p), UNCHANGED switching
      PROVE  LocalTypeOK'
  BY <1>5 DEF RequestDump, RequestStart, Request, Exit
<1>6. ASSUME NEW p \in Proc, DumpFailed(p) \/ StartFailed(p), UNCHANGED switching
      PROVE  LocalTypeOK'
  BY <1>6, FailureType, FinishType DEF DumpFailed, StartFailed, FailedRequest, ReturnWith
<1>7. ASSUME NEW p \in Proc, Inspect(p), UNCHANGED switching PROVE LocalTypeOK'
  <2>1. \A exit \in FailedExit : RunCommand(exit) \in Status
    BY RunCommandStatus DEF FailedExit
  <2>2. PICK status \in Status, outcome \in Outcome : ReturnWith(p, status, outcome)
    BY <1>7, <2>1 DEF Inspect, Status, Outcome
  <2>3. record' \in [Proc -> Record] BY <2>2, FinishType DEF ReturnWith
  <2>4. QED BY <1>7, <2>2, <2>3 DEF Inspect, ReturnWith
<1>8. ASSUME NEW p \in Proc, Interrupt(p), UNCHANGED switching PROVE LocalTypeOK'
  <2>1. record' \in [Proc -> Record]
    <3>1. MarkCheckpoint(p) \in [Proc -> Record] /\ MarkRestore(p) \in [Proc -> Record]
      BY MarkType, Zenon
    <3>2. QED BY <1>8, <3>1, Zenon DEF Interrupt, BrokenWrite
  <2>2. QED BY <1>8, <2>1 DEF Interrupt
<1>9. ASSUME NEW p \in Proc, FinallyRelease(p), UNCHANGED switching PROVE LocalTypeOK'
  BY <1>9, FinishType DEF FinallyRelease, Status, Outcome
<1>10. ASSUME NEW p \in Proc, DaemonDumps(p) \/ DaemonStarts(p) \/ RuntimeDies(p),
              UNCHANGED switching
       PROVE  LocalTypeOK'
  BY <1>10 DEF DaemonDumps, DaemonStarts, RuntimeDies, Serve, Container, Exit
<1>11. CASE UNCHANGED vars
  BY <1>11 DEF vars
<1>12. QED
  BY <1>1, <1>2, <1>3, <1>4, <1>5, <1>6, <1>7, <1>8, <1>9, <1>10, <1>11 DEF Next, RunStep

\* Type correctness of the preemption's, the switcher's and Docker's variables.
THEOREM TypeCorrect == Spec => []TypeOK
<1>1. Init => LocalTypeOK
  BY DEF Init, LocalTypeOK, Pc, Record, Status, Outcome, Container
<1>2. LocalTypeOK /\ Conf!TypeOK => TypeOK
  BY DEF LocalTypeOK, TypeOK
<1>3. QED BY <1>1, <1>2, LocalTypeStep, SwitcherInvariants, PTL DEF Spec

-----------------------------------------------------------------------------
(***************************************************************************)
(* The inductive invariant, said of each run.                              *)
(***************************************************************************)

\* From the dump text to the last inspection.
Phases == {"dump_conf", "dump", "await_dump", "restore_conf", "start", "await_start",
           "inspect"}

\* Where the run is in its switcher's life: ready through both phases if it
\* switches, and never in it if it does not.
SwitcherOf(p) ==
  /\ p \in switching /\ pc[p] \in Phases => stage[p] = "ready"
  /\ p \notin switching => /\ pc[p] \notin {"acquire", "capture", "release"}
                           /\ original[p] = "none" /\ report[p] = {}
  /\ stage[p] = "crashed" => pc[p] = "crashed"

\* Where a failed clean-up is on its way into the record, or has got to.
ConfessedOf(p) ==
  report[p] # {} =>
    \/ pc[p] \in {"release", "crashed"} /\ original[p] # "none"
    \/ pc[p] = "returned" /\ record[p].outcome = "cleanup_failed"

\* What the record says at each place.
MarkedOf(p) ==
  /\ record[p].status = "ok" <=> record[p].outcome = "restored"
  /\ record[p].outcome = "restored" => record[p].checkpoint /\ record[p].restore
  /\ pc[p] \in {"dump", "await_dump", "restore_conf"} => record[p].checkpoint
  /\ pc[p] \in {"start", "await_start", "inspect"}
       => record[p].checkpoint /\ record[p].restore

\* The text under the phase that is being served.
TextOf(p) ==
  p \in switching =>
    /\ pc[p] \in {"dump", "await_dump"} => conf = "dump"
    /\ pc[p] \in {"start", "await_start", "inspect"} => conf = "restore"

\* What the daemon has been asked for, and what an answer of zero stands for.
ServedOf(p) ==
  /\ pc[p] \in {"gate", "acquire", "capture"} \cup (Phases \ {"await_dump", "await_start"})
       => job[p] = "none"
  /\ pc[p] = "await_dump" =>
       \/ job[p] = "dump" /\ reply[p] = "none"
       \/ job[p] = "none" /\ (reply[p] = "zero" => container[p] = "checkpointed")
  /\ pc[p] \in {"restore_conf", "start"} => container[p] = "checkpointed"
  /\ pc[p] = "await_start" =>
       \/ job[p] = "start" /\ reply[p] = "none" /\ container[p] = "checkpointed"
       \/ job[p] = "none" /\ (reply[p] = "zero" => container[p] \in {"restored", "exited"})
  /\ pc[p] = "inspect" => container[p] \in {"restored", "exited"}

InvOf(p) == SwitcherOf(p) /\ ConfessedOf(p) /\ MarkedOf(p) /\ TextOf(p) /\ ServedOf(p)

Inv == \A p \in Proc : InvOf(p)

(***************************************************************************)
(* What a step leaves alone.                                               *)
(***************************************************************************)
\* The switcher's steps of one run change that run's part of it only.
LEMMA SwitcherFrame ==
  ASSUME Conf!TypeOK, NEW p \in Proc, Conf!Moves(p)
  PROVE  \A q \in Proc \ {p} :
           stage'[q] = stage[q] /\ original'[q] = original[q] /\ report'[q] = report[q]
<1> USE DEF Conf!TypeOK, Conf!Enter
<1> DEFINE Frame == \A q \in Proc \ {p} :
             stage'[q] = stage[q] /\ original'[q] = original[q] /\ report'[q] = report[q]
<1>1. ASSUME Conf!LockTaken(p) \/ Conf!LockContended(p) \/ Conf!LockRaises(p) PROVE Frame
  BY <1>1 DEF Conf!LockTaken, Conf!LockContended, Conf!LockRaises
<1>2. ASSUME Conf!CaptureText(p) \/ Conf!CaptureMissing(p) \/ Conf!CaptureFails(p) PROVE Frame
  BY <1>2 DEF Conf!CaptureText, Conf!CaptureMissing, Conf!CaptureFails
<1>3. ASSUME NEW exit, Conf!RestoreOriginal(p, exit) PROVE Frame
  BY <1>3 DEF Conf!RestoreOriginal
<1>4. ASSUME NEW ok \in BOOLEAN, Conf!Release(p, ok) PROVE Frame
  BY <1>4 DEF Conf!Release
<1>5. ASSUME Conf!ProcessExit(p) \/ Conf!Crash(p) PROVE Frame
  BY <1>5 DEF Conf!ProcessExit, Conf!Crash
<1>6. ASSUME NEW phase, NEW exit, Conf!WritePhase(p, phase, exit) PROVE Frame
  BY <1>6 DEF Conf!WritePhase
<1>7. QED BY <1>1, <1>2, <1>3, <1>4, <1>5, <1>6 DEF Conf!Moves, Conf!Protocol

\* Who does not own the lock does not touch the file.
LEMMA OwnerWrites ==
  ASSUME Conf!TypeOK, Runc!LockInv, NEW p \in Proc, lock # p,
         Conf!Moves(p)
  PROVE  conf' = conf
<1> USE DEF Conf!TypeOK, Conf!Stage, Runc!LockInv, Runc!Owned, Runc!CapturedWhenReady
<1>1. ASSUME Conf!LockTaken(p) \/ Conf!LockContended(p) \/ Conf!LockRaises(p)
      PROVE  conf' = conf
  BY <1>1 DEF Conf!LockTaken, Conf!LockContended, Conf!LockRaises
<1>2. ASSUME Conf!CaptureText(p) \/ Conf!CaptureMissing(p) \/ Conf!CaptureFails(p)
      PROVE  conf' = conf
  BY <1>2 DEF Conf!CaptureText, Conf!CaptureMissing, Conf!CaptureFails
<1>3. ASSUME NEW exit, Conf!RestoreOriginal(p, exit) PROVE conf' = conf
  <2>1. original[p] = "none" BY <1>3 DEF Conf!RestoreOriginal
  <2>2. QED BY <1>3, <2>1 DEF Conf!RestoreOriginal
<1>4. ASSUME NEW ok \in BOOLEAN, Conf!Release(p, ok) PROVE conf' = conf
  BY <1>4 DEF Conf!Release
<1>5. ASSUME Conf!ProcessExit(p) \/ Conf!Crash(p) PROVE conf' = conf
  BY <1>5 DEF Conf!ProcessExit, Conf!Crash
<1>6. ASSUME NEW phase, NEW exit, Conf!WritePhase(p, phase, exit) PROVE conf' = conf
  BY <1>6 DEF Conf!WritePhase
<1>7. QED BY <1>1, <1>2, <1>3, <1>4, <1>5, <1>6 DEF Conf!Moves, Conf!Protocol

\* A run's step changes that run's variables only.
LEMMA RunFrame ==
  ASSUME LocalTypeOK, NEW p \in Proc, RunAction(p)
  PROVE  \A q \in Proc \ {p} :
           /\ pc'[q] = pc[q] /\ record'[q] = record[q]
           /\ container'[q] = container[q] /\ job'[q] = job[q] /\ reply'[q] = reply[q]
<1> USE DEF LocalTypeOK, Goto, Finish, ReturnWith, dockerVars
<1>1. CASE \/ Refuse(p) \/ Admit(p) \/ Acquire(p) \/ AcquireContended(p) \/ AcquireRaises(p)
           \/ Capture(p) \/ CaptureFailed(p)
  BY <1>1 DEF Refuse, Admit, Acquire, AcquireContended, AcquireRaises, Capture, CaptureFailed
<1>2. CASE WriteDumpConf(p) \/ KeepDumpConf(p) \/ WriteRestoreConf(p) \/ KeepRestoreConf(p)
  BY <1>2 DEF WriteDumpConf, KeepDumpConf, WriteRestoreConf, KeepRestoreConf,
              MarkCheckpoint, MarkRestore
<1>3. CASE RequestDump(p) \/ RequestStart(p)
  BY <1>3 DEF RequestDump, RequestStart, Request
<1>4. CASE DumpDone(p) \/ DumpFailed(p) \/ StartDone(p) \/ StartFailed(p) \/ Inspect(p)
  BY <1>4 DEF DumpDone, DumpFailed, StartDone, StartFailed, FailedRequest, Inspect
<1>5. CASE FinallyRestoreOriginal(p) \/ FinallyRelease(p) \/ FinallyNothing(p) \/ ProcessExit(p)
  BY <1>5 DEF FinallyRestoreOriginal, FinallyRelease, FinallyNothing, ProcessExit
<1>6. CASE Interrupt(p)
  BY <1>6 DEF Interrupt, BrokenWrite, MarkCheckpoint, MarkRestore
<1>7. CASE Crash(p)
  BY <1>7 DEF Crash
<1>8. QED
  BY <1>1, <1>2, <1>3, <1>4, <1>5, <1>6, <1>7 DEF RunAction, RunStep

\* What the daemon does for one run leaves the other runs' containers alone.
LEMMA DaemonFrame ==
  ASSUME LocalTypeOK, NEW p \in Proc, DaemonAction(p)
  PROVE  \A q \in Proc \ {p} :
           container'[q] = container[q] /\ job'[q] = job[q] /\ reply'[q] = reply[q]
BY DEF LocalTypeOK, DaemonAction, DaemonDumps, DaemonStarts, RuntimeDies, Serve

\* The other runs' part of the invariant survives every step.
LEMMA OthersInv ==
  ASSUME TypeOK, Runc!LockInv, Inv, UNCHANGED switching,
         NEW p \in Proc, RunAction(p) \/ DaemonAction(p), NEW q \in Proc \ {p}
  PROVE  InvOf(q)'
<1>1. LocalTypeOK /\ Conf!TypeOK BY DEF TypeOK, LocalTypeOK
<1>2. InvOf(q) BY DEF Inv
<1>3. /\ pc'[q] = pc[q] /\ record'[q] = record[q]
      /\ container'[q] = container[q] /\ job'[q] = job[q] /\ reply'[q] = reply[q]
  BY <1>1, RunFrame, DaemonFrame, DaemonAloof
<1>4. stage'[q] = stage[q] /\ original'[q] = original[q] /\ report'[q] = report[q]
  <2>1. Conf!Moves(p) \/ UNCHANGED confVars BY RunDrives, DaemonAloof
  <2>2. QED BY <1>1, <2>1, SwitcherFrame DEF confVars
<1>5. q \in switching /\ pc[q] \in Phases => conf' = conf
  <2>1. SUFFICES ASSUME q \in switching, pc[q] \in Phases PROVE conf' = conf
    OBVIOUS
  <2>2. lock = q
    BY <1>2, <2>1 DEF InvOf, SwitcherOf, Runc!LockInv, Runc!Owned
  <2>3. Conf!Moves(p) \/ UNCHANGED confVars BY RunDrives, DaemonAloof
  <2>4. QED BY <1>1, <2>2, <2>3, OwnerWrites DEF confVars
<1>6. QED
  BY <1>2, <1>3, <1>4, <1>5
  DEF InvOf, SwitcherOf, ConfessedOf, MarkedOf, TextOf, ServedOf, Phases

-----------------------------------------------------------------------------
(***************************************************************************)
(* A run's own part of the invariant, action by action.                    *)
(***************************************************************************)

\* The gate and the acquisition of the lock.
LEMMA GateInv ==
  ASSUME TypeOK, NEW p \in Proc, InvOf(p), UNCHANGED switching,
         \/ Refuse(p) \/ Admit(p) \/ Acquire(p) \/ AcquireContended(p) \/ AcquireRaises(p)
         \/ Capture(p) \/ CaptureFailed(p)
  PROVE  InvOf(p)'
<1> USE DEF TypeOK, Conf!TypeOK, Conf!Enter, Goto, Phases, dockerVars,
            InvOf, SwitcherOf, ConfessedOf, MarkedOf, TextOf, ServedOf
<1>1. CASE Refuse(p)
  <2>1. PICK verdict \in Verdicts[(p \in switching)] \ {Proceed} :
          Finish(p, verdict.status, verdict.outcome)
    BY <1>1 DEF Refuse
  <2>2. verdict.status # "ok" /\ verdict.outcome # "restored"
    BY RefusalStatus
  <2>3. PICK status, outcome :
          Finish(p, status, outcome) /\ status # "ok" /\ outcome # "restored"
    BY <2>1, <2>2, Zenon
  <2>4. record'[p].status # "ok" /\ record'[p].outcome # "restored"
    BY <2>3, FinishEffect DEF LocalTypeOK
  <2>5. QED BY <1>1, <2>4 DEF Refuse, confVars
<1>2. CASE Admit(p)
  BY <1>2 DEF Admit, confVars
<1>3. CASE Acquire(p)
  BY <1>3 DEF Acquire, Conf!LockTaken
<1>4. CASE AcquireContended(p)
  BY <1>4 DEF AcquireContended, Conf!LockContended, ReturnWith, Finish, Record
<1>5. CASE AcquireRaises(p)
  BY <1>5 DEF AcquireRaises, Conf!LockRaises
<1>6. CASE Capture(p)
  BY <1>6 DEF Capture, Conf!CaptureText, Conf!CaptureMissing
<1>7. CASE CaptureFailed(p)
  BY <1>7 DEF CaptureFailed, Conf!CaptureFails, ReturnWith, Finish, Record
<1>8. QED BY <1>1, <1>2, <1>3, <1>4, <1>5, <1>6, <1>7

\* A write of a phase's text that succeeded.
LEMMA WrittenText ==
  ASSUME NEW p \in Proc, NEW phase, Conf!WritePhase(p, phase, "zero")
  PROVE  conf' = phase
BY DEF Conf!WritePhase, Conf!AfterWrite

\* The two marks and writes before the requests.
LEMMA WriteInv ==
  ASSUME TypeOK, NEW p \in Proc, InvOf(p), UNCHANGED switching,
         \/ WriteDumpConf(p) \/ KeepDumpConf(p)
         \/ WriteRestoreConf(p) \/ KeepRestoreConf(p)
  PROVE  InvOf(p)'
<1> USE DEF TypeOK, Conf!TypeOK, Goto, Phases, dockerVars, Record, MarkCheckpoint, MarkRestore,
            InvOf, SwitcherOf, ConfessedOf, MarkedOf, TextOf, ServedOf
<1>1. CASE WriteDumpConf(p)
  BY <1>1, WrittenText DEF WriteDumpConf, Conf!WritePhase
<1>2. CASE KeepDumpConf(p)
  BY <1>2 DEF KeepDumpConf, confVars
<1>3. CASE WriteRestoreConf(p)
  BY <1>3, WrittenText DEF WriteRestoreConf, Conf!WritePhase
<1>4. CASE KeepRestoreConf(p)
  BY <1>4 DEF KeepRestoreConf, confVars
<1>5. QED BY <1>1, <1>2, <1>3, <1>4

\* The two requests, their answers, and the inspection.
LEMMA RequestInv ==
  ASSUME TypeOK, NEW p \in Proc, InvOf(p), UNCHANGED switching,
         \/ RequestDump(p) \/ DumpDone(p) \/ DumpFailed(p)
         \/ RequestStart(p) \/ StartDone(p) \/ StartFailed(p) \/ Inspect(p)
  PROVE  InvOf(p)'
<1> USE DEF TypeOK, Goto, Phases, dockerVars, confVars, Record,
            InvOf, SwitcherOf, ConfessedOf, MarkedOf, TextOf, ServedOf
<1>0. LocalTypeOK BY DEF LocalTypeOK
<1>1. CASE RequestDump(p) \/ RequestStart(p)
  BY <1>1 DEF RequestDump, RequestStart, Request
<1>2. CASE DumpDone(p) \/ StartDone(p)
  BY <1>0, <1>2, ClientExitType DEF DumpDone, StartDone
<1>3. ASSUME NEW failed \in {"checkpoint_failed", "restore_failed"},
             ClientExit(p) # "zero", FailedRequest(p, failed),
             UNCHANGED <<confVars, raising, dockerVars>>,
             pc[p] \in {"await_dump", "await_start"}
      PROVE  InvOf(p)'
  <2>1. PICK status \in Status \ {"ok"}, outcome \in Outcome \ {"restored"} :
          ReturnWith(p, status, outcome)
    BY <1>0, <1>3, FailureType DEF FailedRequest
  <2>2. QED BY <1>3, <2>1 DEF ReturnWith, Finish
<1>4. CASE DumpFailed(p) \/ StartFailed(p)
  BY <1>3, <1>4 DEF DumpFailed, StartFailed
<1>5. CASE Inspect(p)
  <2>1. \A exit \in FailedExit : RunCommand(exit) # "ok"
    BY RunCommandStatus DEF FailedExit
  <2>2. CASE ReturnWith(p, "ok", "restored")
    <3>1. /\ record'[p].status = "ok" /\ record'[p].outcome = "restored"
          /\ record'[p].checkpoint = record[p].checkpoint
          /\ record'[p].restore = record[p].restore
      BY <1>0, <2>2, FinishEffect DEF ReturnWith
    <3>2. QED BY <1>5, <2>2, <3>1 DEF Inspect, ReturnWith
  <2>3. ASSUME NEW status, NEW outcome, status # "ok", outcome # "restored",
               ReturnWith(p, status, outcome)
        PROVE  InvOf(p)'
    <3>1. record'[p].status # "ok" /\ record'[p].outcome # "restored"
      BY <1>0, <2>3, FinishEffect DEF ReturnWith
    <3>2. QED BY <1>5, <2>3, <3>1 DEF Inspect, ReturnWith
  <2>4. QED BY <1>5, <2>1, <2>2, <2>3 DEF Inspect
<1>6. QED BY <1>1, <1>2, <1>4, <1>5

\* The finally clause, interruptions and crashes.
LEMMA FinallyInv ==
  ASSUME TypeOK, NEW p \in Proc, InvOf(p), UNCHANGED switching,
         \/ FinallyRestoreOriginal(p) \/ FinallyRelease(p) \/ FinallyNothing(p)
         \/ ProcessExit(p) \/ Interrupt(p) \/ Crash(p)
  PROVE  InvOf(p)'
<1> USE DEF TypeOK, Conf!TypeOK, Conf!Enter, Goto, Phases, dockerVars, Record,
            InvOf, SwitcherOf, ConfessedOf, MarkedOf, TextOf, ServedOf
<1>1. CASE FinallyRestoreOriginal(p)
  BY <1>1 DEF FinallyRestoreOriginal, Conf!RestoreOriginal
<1>2. CASE FinallyRelease(p)
  <2>1. /\ stage[p] = "restored" /\ stage' = [stage EXCEPT ![p] = "done"]
        /\ UNCHANGED <<conf, original>>
    BY <1>2 DEF FinallyRelease, Conf!Release
  <2>2. CASE report'[p] # {}
    <3>1. /\ pc' = [pc EXCEPT ![p] = "returned"]
          /\ record'[p].status = "error" /\ record'[p].outcome = "cleanup_failed"
      BY <1>2, <2>2, FinishEffect DEF FinallyRelease, LocalTypeOK
    <3>2. QED BY <1>2, <2>1, <3>1 DEF FinallyRelease
  <2>3. CASE report'[p] = {}
    BY <1>2, <2>1, <2>3 DEF FinallyRelease
  <2>4. QED BY <2>2, <2>3
<1>3. CASE FinallyNothing(p)
  BY <1>3 DEF FinallyNothing, confVars
<1>4. CASE ProcessExit(p)
  BY <1>4 DEF ProcessExit, Conf!ProcessExit
<1>5. CASE Interrupt(p)
  <2>1. pc[p] \in Body /\ pc'[p] = "cleanup" /\ UNCHANGED dockerVars
    BY <1>5 DEF Interrupt
  <2>2. stage' = stage /\ original' = original /\ report' = report
    BY <1>5, Zenon DEF Interrupt, BrokenWrite, Conf!WritePhase, confVars
  <2>3. /\ record'[p].status = record[p].status /\ record'[p].outcome = record[p].outcome
        /\ record[p].checkpoint => record'[p].checkpoint
        /\ record[p].restore => record'[p].restore
    BY <1>5 DEF Interrupt, BrokenWrite, MarkCheckpoint, MarkRestore
  <2>4. QED BY <2>1, <2>2, <2>3 DEF Body
<1>6. CASE Crash(p)
  BY <1>6 DEF Crash, Conf!Crash, Final, Pc
<1>7. QED BY <1>1, <1>2, <1>3, <1>4, <1>5, <1>6

\* What the daemon does for the run, and its container by itself.
LEMMA DaemonInv ==
  ASSUME TypeOK, NEW p \in Proc, InvOf(p), UNCHANGED switching, DaemonAction(p)
  PROVE  InvOf(p)'
<1> USE DEF TypeOK, Phases, confVars,
            InvOf, SwitcherOf, ConfessedOf, MarkedOf, TextOf, ServedOf
<1>1. CASE DaemonDumps(p)
  BY <1>1 DEF DaemonDumps, Serve
<1>2. CASE DaemonStarts(p)
  BY <1>2 DEF DaemonStarts, Serve
<1>3. CASE RuntimeDies(p)
  BY <1>3 DEF RuntimeDies
<1>4. QED BY <1>1, <1>2, <1>3 DEF DaemonAction

\* Before the gate nothing is recorded and nothing asked of the daemon.
LEMMA InvInit == Init => Inv
BY DEF Init, Conf!Init, Inv, InvOf, SwitcherOf, ConfessedOf, MarkedOf, TextOf, ServedOf, Phases

\* Every step keeps every run's part of the invariant.
LEMMA InvStep ==
  ASSUME TypeOK, Runc!LockInv, Inv, [Next]_vars
  PROVE  Inv'
<1>1. ASSUME NEW p \in Proc, RunAction(p) \/ DaemonAction(p), UNCHANGED switching PROVE Inv'
  <2>1. InvOf(p) BY DEF Inv
  <2>2. InvOf(p)'
    BY <1>1, <2>1, GateInv, WriteInv, RequestInv, FinallyInv, DaemonInv DEF RunAction, RunStep
  <2>3. QED BY <1>1, <2>2, OthersInv DEF Inv
<1>2. CASE UNCHANGED vars
  BY <1>2 DEF vars, confVars, dockerVars, Inv, InvOf, SwitcherOf, ConfessedOf, MarkedOf, TextOf,
              ServedOf
<1>3. QED BY <1>1, <1>2, NextSplit

\* The strengthened invariant behind the theorems that follow.
THEOREM Invariant == Spec => []Inv
BY InvInit, InvStep, TypeCorrect, SwitcherInvariants, PTL DEF Spec

(***************************************************************************)
(* Nothing is recorded before the body is left, and nothing is called      *)
(* skipped but what was never attempted.                                   *)
(***************************************************************************)
NamedOf(p) ==
  /\ record[p].restore => record[p].checkpoint
  /\ record[p].status = "skipped" => record[p].outcome \in {"none", "not_attempted"}
  /\ pc[p] \in {"gate"} \cup Body => record[p].outcome = "none"

Named == \A p \in Proc : NamedOf(p)

\* The record stays in step with the place of the run, action by action.
LEMMA NamedStep ==
  ASSUME TypeOK, Inv, Named, [Next]_vars
  PROVE  Named'
<1> USE DEF LocalTypeOK, Record, Goto, ReturnWith, Body, Final, NamedOf
<1>0. LocalTypeOK BY DEF TypeOK
<1>1. SUFFICES ASSUME NEW p \in Proc PROVE NamedOf(p)'
  BY DEF Named
<1>2. NamedOf(p) /\ MarkedOf(p)
  BY DEF Named, Inv, InvOf
<1>3. CASE UNCHANGED vars
  BY <1>2, <1>3 DEF vars
<1>4. ASSUME NEW q \in Proc, RunAction(q) \/ DaemonAction(q), q # p PROVE NamedOf(p)'
  BY <1>0, <1>2, <1>4, RunFrame, DaemonAloof
<1>5. CASE DaemonAction(p)
  BY <1>2, <1>5, DaemonAloof
<1>6. ASSUME NEW status, NEW outcome, Finish(p, status, outcome),
             pc'[p] \notin {"gate"} \cup Body,
             status = "skipped" => outcome = "not_attempted"
      PROVE  NamedOf(p)'
  BY <1>0, <1>2, <1>6, FinishEffect
<1>7. CASE Refuse(p)
  <2>1. PICK verdict \in Verdicts[(p \in switching)] \ {Proceed} :
          Finish(p, verdict.status, verdict.outcome)
    BY <1>7 DEF Refuse
  <2>2. verdict.status = "skipped" => verdict.outcome = "not_attempted"
    BY RefusalStatus
  <2>3. pc'[p] = "returned" BY <1>0, <1>7 DEF Refuse
  <2>4. QED BY <1>6, <2>1, <2>2, <2>3
<1>8. CASE AcquireContended(p) \/ CaptureFailed(p) \/ FinallyRelease(p)
  <2>1. UNCHANGED record /\ pc'[p] \in Final => NamedOf(p)'
    BY <1>2
  <2>2. QED
    BY <1>0, <1>6, <1>8, <2>1 DEF AcquireContended, CaptureFailed, FinallyRelease
<1>9. CASE DumpFailed(p) \/ StartFailed(p) \/ Inspect(p)
  <2>1. \A exit \in Exit : RunCommand(exit) # "skipped" /\ ClassifyCapability(exit) # "skipped"
    BY DEF Exit, RunCommand, ClassifyCapability
  <2>2. ClientExit(p) \in Exit BY <1>0, ClientExitType
  <2>3. pc'[p] = "cleanup"
    BY <1>0, <1>9 DEF DumpFailed, StartFailed, FailedRequest, Inspect
  <2>4. CASE Inspect(p)
    BY <1>6, <2>1, <2>3, <2>4 DEF Inspect, FailedExit
  <2>5. CASE DumpFailed(p) \/ StartFailed(p)
    BY <1>6, <2>1, <2>2, <2>3, <2>5 DEF DumpFailed, StartFailed, FailedRequest
  <2>6. QED BY <1>9, <2>4, <2>5
<1>10. CASE WriteDumpConf(p) \/ KeepDumpConf(p) \/ WriteRestoreConf(p) \/ KeepRestoreConf(p)
  BY <1>0, <1>2, <1>10
  DEF WriteDumpConf, KeepDumpConf, WriteRestoreConf, KeepRestoreConf, MarkCheckpoint,
      MarkRestore, MarkedOf
<1>11. CASE Interrupt(p)
  <2>1. pc'[p] = "cleanup" /\ (pc[p] = "restore_conf" => record[p].checkpoint)
    BY <1>0, <1>2, <1>11 DEF Interrupt, MarkedOf
  <2>2. \/ record' = record
        \/ record' = MarkCheckpoint(p)
        \/ record' = MarkRestore(p) /\ pc[p] = "restore_conf"
    BY <1>11, Zenon DEF Interrupt, BrokenWrite
  <2>3. QED
    BY <1>0, <1>2, <2>1, <2>2 DEF MarkCheckpoint, MarkRestore
<1>12. CASE \/ Admit(p) \/ Acquire(p) \/ AcquireRaises(p) \/ Capture(p) \/ RequestDump(p)
            \/ DumpDone(p) \/ RequestStart(p) \/ StartDone(p) \/ FinallyRestoreOriginal(p)
            \/ FinallyNothing(p) \/ ProcessExit(p) \/ Crash(p)
  BY <1>0, <1>2, <1>12
  DEF Admit, Acquire, AcquireRaises, Capture, RequestDump, DumpDone, RequestStart, Request,
      StartDone, FinallyRestoreOriginal, FinallyNothing, ProcessExit, Crash
<1>13. QED
  BY <1>3, <1>4, <1>5, <1>7, <1>8, <1>9, <1>10, <1>11, <1>12, NextSplit DEF RunAction, RunStep

\* What is called skipped was never attempted, no outcome is on record before the
\* body is left, and no restore without its checkpoint.
THEOREM NamedInvariant == Spec => []Named
<1>1. Init => Named
  BY DEF Init, Named, NamedOf
<1>2. QED BY <1>1, NamedStep, TypeCorrect, Invariant, PTL DEF Spec

-----------------------------------------------------------------------------
(***************************************************************************)
(* The properties                                                          *)
(***************************************************************************)

\* A lost runc.conf is confessed by a run that switched it, unless that run
\* crashed after its capture: the switcher's honest clean-up gets through the
\* finally clause into the record.
THEOREM HonestRecordHolds == Spec => []HonestRecord
<1>1. TypeOK /\ Runc!HonestCleanup /\ Inv => HonestRecord
  <2> SUFFICES ASSUME TypeOK, Runc!HonestCleanup, Inv, lock = NoProc, conf # SiteText
               PROVE  HonestRecord
    BY DEF HonestRecord
  <2>1. PICK p \in Proc : \/ stage[p] = "crashed" /\ original[p] # "none"
                          \/ report[p] # {}
    BY DEF Runc!HonestCleanup, Runc!Blamed
  <2>2. InvOf(p) BY DEF Inv
  <2>3. p \in switching
    BY <2>1, <2>2 DEF InvOf, SwitcherOf
  <2>4. CASE stage[p] = "crashed" /\ original[p] # "none"
    BY <2>2, <2>3, <2>4 DEF InvOf, SwitcherOf, HonestRecord
  <2>5. CASE report[p] # {}
    BY <2>2, <2>3, <2>5 DEF InvOf, ConfessedOf, HonestRecord
  <2>6. QED BY <2>1, <2>4, <2>5
<1>2. QED BY <1>1, TypeCorrect, SwitcherInvariants, Invariant, PTL

\* Status OK and outcome "restored" come and go together, over both phases.
THEOREM OkMeansRestoredHolds == Spec => []OkMeansRestored
<1>1. Inv => OkMeansRestored
  BY DEF Inv, InvOf, MarkedOf, OkMeansRestored
<1>2. QED BY <1>1, Invariant, PTL

\* criu works under the text of its phase as long as the run waits for it.
THEOREM PhaseTextServedHolds == Spec => PhaseTextServed
<1>1. ASSUME LocalTypeOK, Inv, [Next]_vars, NEW p \in switching,
             job[p] # job'[p], job'[p] = "none", pc[p] \in {"await_dump", "await_start"}
      PROVE  conf = IF job[p] = "dump" THEN "dump" ELSE "restore"
  <2>1. p \in Proc BY <1>1 DEF LocalTypeOK
  <2>2. InvOf(p) BY <1>1, <2>1 DEF Inv
  <2>3. QED BY <1>1, <2>2 DEF InvOf, TextOf, ServedOf
<1>2. LocalTypeOK /\ Inv /\ [Next]_vars
        => [\A p \in switching :
              job[p] # job'[p] /\ job'[p] = "none" /\ pc[p] \in {"await_dump", "await_start"}
                => conf = IF job[p] = "dump" THEN "dump" ELSE "restore"]_vars
  BY <1>1
<1>3. TypeOK => LocalTypeOK BY DEF TypeOK, LocalTypeOK
<1>4. QED BY <1>2, <1>3, TypeCorrect, Invariant, PTL DEF Spec, PhaseTextServed

\* A phase that was attempted stays on record.
LEMMA MarksStay ==
  ASSUME LocalTypeOK, [Next]_vars, NEW p \in Proc
  PROVE  /\ record[p].checkpoint => record'[p].checkpoint
         /\ record[p].restore => record'[p].restore
<1> USE DEF LocalTypeOK, Record, Goto, ReturnWith
<1> DEFINE Stay == /\ record[p].checkpoint => record'[p].checkpoint
                   /\ record[p].restore => record'[p].restore
<1>1. CASE UNCHANGED vars
  BY <1>1 DEF vars
<1>2. ASSUME NEW q \in Proc, RunAction(q) \/ DaemonAction(q), q # p PROVE Stay
  BY <1>2, RunFrame, DaemonAloof
<1>3. CASE DaemonAction(p)
  BY <1>3, DaemonAloof
<1>4. CASE WriteDumpConf(p) \/ KeepDumpConf(p) \/ WriteRestoreConf(p) \/ KeepRestoreConf(p)
  BY <1>4 DEF WriteDumpConf, KeepDumpConf, WriteRestoreConf, KeepRestoreConf, MarkCheckpoint,
              MarkRestore
<1>5. CASE Interrupt(p)
  BY <1>5 DEF Interrupt, BrokenWrite, MarkCheckpoint, MarkRestore
<1>6. ASSUME NEW status, NEW outcome, Finish(p, status, outcome) PROVE Stay
  BY <1>6, FinishEffect
<1>7. CASE \/ Refuse(p) \/ AcquireContended(p) \/ CaptureFailed(p) \/ DumpFailed(p)
           \/ StartFailed(p) \/ Inspect(p) \/ FinallyRelease(p)
  BY <1>6, <1>7 DEF Refuse, AcquireContended, CaptureFailed, DumpFailed, StartFailed,
                    FailedRequest, Inspect, FinallyRelease
<1>8. CASE \/ Admit(p) \/ Acquire(p) \/ AcquireRaises(p) \/ Capture(p) \/ RequestDump(p)
           \/ DumpDone(p) \/ RequestStart(p) \/ StartDone(p) \/ FinallyRestoreOriginal(p)
           \/ FinallyNothing(p) \/ ProcessExit(p) \/ Crash(p)
  BY <1>8 DEF Admit, Acquire, AcquireRaises, Capture, RequestDump, DumpDone, RequestStart,
              Request, StartDone, FinallyRestoreOriginal, FinallyNothing, ProcessExit, Crash
<1>9. QED
  BY <1>1, <1>2, <1>3, <1>4, <1>5, <1>7, <1>8, NextSplit DEF RunAction, RunStep

\* Nothing but the inspection of a running container records "restored".
LEMMA OnlyInspectRestores ==
  ASSUME TypeOK, Inv, NEW p \in Proc, [Next]_vars,
         record'[p].outcome = "restored", record[p].outcome # "restored"
  PROVE  pc[p] = "inspect" /\ container[p] \in {"running", "restored"}
<1>0. LocalTypeOK BY DEF TypeOK, LocalTypeOK
<1>1. PICK q \in Proc : RunAction(q) \/ DaemonAction(q)
  BY NextSplit DEF vars
<1>2. RunAction(p)
  BY <1>0, <1>1, RunFrame, DaemonAloof
<1> USE <1>0 DEF LocalTypeOK, Record
<1>3. ~Refuse(p)
  <2>1. SUFFICES ASSUME Refuse(p) PROVE FALSE OBVIOUS
  <2>2. PICK verdict \in Verdicts[(p \in switching)] \ {Proceed} :
          Finish(p, verdict.status, verdict.outcome)
    BY <2>1 DEF Refuse
  <2>3. verdict.outcome # "restored" BY RefusalStatus
  <2>4. QED BY <2>2, <2>3, FinishEffect
<1>4. ~(DumpFailed(p) \/ StartFailed(p))
  <2>1. ASSUME NEW failed \in {"checkpoint_failed", "restore_failed"},
               ClientExit(p) # "zero", FailedRequest(p, failed)
        PROVE  FALSE
    BY <2>1, FailureType, FinishEffect DEF FailedRequest, ReturnWith
  <2>2. QED BY <2>1 DEF DumpFailed, StartFailed
<1>5. ~(AcquireContended(p) \/ CaptureFailed(p))
  BY FinishEffect DEF AcquireContended, CaptureFailed, ReturnWith
<1>6. ~(WriteDumpConf(p) \/ KeepDumpConf(p) \/ WriteRestoreConf(p) \/ KeepRestoreConf(p))
  BY DEF WriteDumpConf, KeepDumpConf, WriteRestoreConf, KeepRestoreConf, MarkCheckpoint,
         MarkRestore
<1>7. ~(FinallyRelease(p) \/ Interrupt(p))
  BY FinishEffect DEF FinallyRelease, Interrupt, BrokenWrite, MarkCheckpoint, MarkRestore
<1>8. Inspect(p)
  BY <1>2, <1>3, <1>4, <1>5, <1>6, <1>7
  DEF RunAction, RunStep, Admit, Acquire, AcquireRaises, Capture, RequestDump, RequestStart,
      Request, DumpDone, StartDone, FinallyRestoreOriginal, FinallyNothing, ProcessExit, Crash
<1>9. \A exit \in FailedExit :
        (IF exit = "expired" THEN "hung" ELSE "restore_failed") # "restored"
  OBVIOUS
<1>10. QED BY <1>8, <1>9, FinishEffect DEF Inspect, ReturnWith

\* "restored" is recorded of a container that criu brought back, under the
\* lease that the dump was taken under.
THEOREM RestoredUnderLeaseHolds == Spec => RestoredUnderLease
<1>1. ASSUME TypeOK, Runc!LockInv, Inv, [Next]_vars, NEW p \in Proc,
             record'[p].outcome = "restored", record[p].outcome # "restored"
      PROVE  container[p] = "restored" /\ (p \in switching => lock = p /\ conf = "restore")
  <2>1. pc[p] = "inspect" /\ container[p] \in {"running", "restored"}
    BY <1>1, OnlyInspectRestores
  <2>2. InvOf(p) BY <1>1 DEF Inv
  <2>3. container[p] = "restored" BY <2>1, <2>2 DEF InvOf, ServedOf
  <2>4. p \in switching => lock = p /\ conf = "restore"
    BY <1>1, <2>1, <2>2 DEF InvOf, SwitcherOf, TextOf, Phases, Runc!LockInv, Runc!Owned
  <2>5. QED BY <2>3, <2>4
<1>2. TypeOK /\ Runc!LockInv /\ Inv /\ [Next]_vars
        => [\A p \in Proc :
              record'[p].outcome = "restored" /\ record[p].outcome # "restored"
                => /\ container[p] = "restored"
                   /\ p \in switching => lock = p /\ conf = "restore"]_vars
  BY <1>1
<1>3. QED
  BY <1>2, TypeCorrect, SwitcherInvariants, Invariant, PTL DEF Spec, RestoredUnderLease

-----------------------------------------------------------------------------
(***************************************************************************)
(* The lease                                                               *)
(***************************************************************************)

\* The preemption keeps what the switcher promises the host: through RuncConf,
\* whose protocol it follows, it implements ConfLease.
THEOREM LeaseKept == Spec => Runc!LeaseImplemented
<1>1. Runc!RuncConfAssumption
  BY SmokePreemptionAssumption DEF Runc!RuncConfAssumption
<1>2. Runc!Spec => Runc!LeaseImplemented BY <1>1, Runc!ImplementsLease
<1>3. QED BY <1>2, SwitcherProtocolHolds, SameSpec, PTL DEF SwitcherProtocol
=============================================================================
