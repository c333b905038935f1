-------------------------- MODULE ProbeStageProofs --------------------------
(***************************************************************************)
(* Theorems about ProbeStage, for every configuration file and every       *)
(* host: what an OK record of a probe stands for, and what the probes do   *)
(* to what they found.                                                     *)
(***************************************************************************)
EXTENDS ProbeStage, ProbeDataProofs

-----------------------------------------------------------------------------
(***************************************************************************)
(* The statuses of commands                                                *)
(***************************************************************************)
LEMMA CommandStatus ==
  ASSUME NEW exit \in Exit
  PROVE  /\ RunCommand(exit) \in Status \ {"skipped"}
         /\ ClassifyCapability(exit) \in Status \ {"skipped"}
         /\ RunCommand(exit) = "ok" <=> exit = "zero"
         /\ ClassifyCapability(exit) = "ok" <=> exit = "zero"
BY DEF RunCommand, ClassifyCapability, Exit, Status

\* The probes use the same statuses and the same ways a command may end.
LEMMA SameStatus ==
  /\ Integration!Status = Status /\ Integration!Exit = Exit
  /\ \A exit : /\ Integration!RunCommand(exit) = RunCommand(exit)
               /\ Integration!ClassifyCapability(exit) = ClassifyCapability(exit)
  /\ Mps!Status = Status /\ Mps!Exit = Exit
  /\ \A exit : Mps!ClassifyCapability(exit) = ClassifyCapability(exit)
BY Zenon
DEF Integration!Status, Status, Integration!Exit, Exit, Integration!RunCommand, RunCommand,
    Integration!ClassifyCapability, ClassifyCapability, Mps!Status, Mps!Exit, Mps!RunCommand,
    Mps!ClassifyCapability

\* The probe waits for each kind of request at a place of its own.
LEMMA Kinds ==
  /\ Integration!Awaited["run"] = "await_run" /\ Integration!Awaited["dump"] = "await_dump"
  /\ Integration!Awaited["start"] = "await_start" /\ Integration!Awaited["rm"] = "await_rm"
  /\ \A one, other \in Integration!Job :
       Integration!Awaited[one] = Integration!Awaited[other] => one = other
BY DEF Integration!Awaited, Integration!Job

\* What each request makes of the container that the daemon finds.
LEMMA Effects ==
  /\ Integration!Effect["run"].from = {"none"} /\ Integration!Effect["run"].to = "running"
  /\ Integration!Effect["dump"].from = {"running", "restored"}
  /\ Integration!Effect["dump"].to = "checkpointed"
  /\ Integration!Effect["start"].from = {"checkpointed"}
  /\ Integration!Effect["start"].to = "restored"
  /\ Integration!Effect["rm"].to = "none"
BY DEF Integration!Effect

\* What an attempt to copy criu's log makes: an entry that says OK stands over
\* a whole copy.
LEMMA Captured ==
  ASSUME NEW names, NEW there, NEW old \in Integration!Copy,
         NEW attempt \in Integration!CaptureLog("none", names, there, old)
  PROVE  /\ attempt.entry \in Integration!Entry /\ attempt.copy \in Integration!Copy
         /\ attempt.entry = "ok" => attempt.copy = "whole"
<1>1. attempt \in {Integration!Attempt("none", old), Integration!Raise(old),
                   Integration!Attempt("ok", "whole"), Integration!Attempt("error", "torn"),
                   Integration!Attempt("error", "open"), Integration!Attempt("error", old),
                   Integration!Raise("torn"), Integration!Raise("open")}
  BY DEF Integration!CaptureLog, Integration!DirectCopy, Integration!SudoCopy,
         Integration!Written
<1>2. QED
  BY <1>1 DEF Integration!Attempt, Integration!Raise, Integration!Entry, Integration!Copy

-----------------------------------------------------------------------------
(***************************************************************************)
(* The integration probe in the sequence                                   *)
(***************************************************************************)

\* All of the probe's variables but the log's copy, which is also written by
\* the capture at the run's end.
probeVars == <<pc, record, container, jobs, reply, seen, log, tried>>

\* The criu record is there when the integration probe needs it, and entries
\* about criu's log are made at the very end.
SequenceInv ==
  /\ stage \in Stages \cup Final
  /\ criu \in Status \cup {"none"}
  /\ stage = "integration" => criu \in Status
  /\ entry \in Integration!Entry
  /\ entry # "none" => stage \in Final

\* The stages keep their order, whatever a probe does inside its own.
LEMMA SequenceStep ==
  ASSUME SequenceInv, Integration!TypeOK, [Next]_vars
  PROVE  SequenceInv'
<1> USE DEF SequenceInv, Stages, Final
<1>1. CASE CriuVersion
  BY <1>1, CommandStatus DEF CriuVersion, Status
<1>2. CASE CaptureLogs
  BY <1>2, Captured DEF CaptureLogs, Integration!TypeOK
<1>3. CASE Load \/ Begin \/ Hardware \/ DockerVersion \/ RequestCuda \/ CudaReturns
  BY <1>3 DEF Load, Begin, Hardware, DockerVersion, RequestCuda, CudaReturns
<1>4. CASE IntegrationStep \/ IntegrationReturns \/ MpsStep \/ Interrupt
  BY <1>4 DEF IntegrationStep, IntegrationReturns, MpsStep, Interrupt
<1>5. CASE IntegrationDaemonStep \/ CudaDaemonStep \/ MpsHostStep \/ UNCHANGED vars
  BY <1>5 DEF IntegrationDaemonStep, CudaDaemonStep, MpsHostStep, vars
<1>6. QED BY <1>1, <1>2, <1>3, <1>4, <1>5 DEF Next, StageStep

\* A step of the sequence is one of the integration probe, after whatever the
\* criu probe said, or leaves all of it but the copy alone.
LEMMA IntegrationMoves ==
  ASSUME SequenceInv, [Next]_vars
  PROVE  \/ Integration!Next
         \/ UNCHANGED probeVars /\ (UNCHANGED copy \/ CaptureLogs)
<1>1. CASE IntegrationStep
  BY <1>1, SameStatus DEF IntegrationStep, Integration!Next, SequenceInv
<1>2. CASE Interrupt \/ IntegrationDaemonStep
  BY <1>2, Zenon DEF Interrupt, IntegrationDaemonStep, Integration!Next, integrationVars, probeVars
<1>3. CASE CaptureLogs
  BY <1>3 DEF CaptureLogs, probeVars
<1>4. CASE \/ Load \/ Begin \/ Hardware \/ DockerVersion \/ CriuVersion \/ IntegrationReturns
           \/ RequestCuda \/ CudaReturns \/ MpsStep \/ CudaDaemonStep \/ MpsHostStep
           \/ UNCHANGED vars
  <2>1. UNCHANGED integrationVars
    BY <1>4, Zenon DEF Load, Begin, Hardware, DockerVersion, CriuVersion, IntegrationReturns,
                       RequestCuda, CudaReturns, MpsStep, CudaDaemonStep, MpsHostStep, vars
  <2>2. QED BY <2>1 DEF integrationVars, probeVars
<1>5. QED BY <1>1, <1>2, <1>3, <1>4 DEF Next, StageStep

\* How the probe decides a status: at a return, or before the hook.
LEMMA DecidedType ==
  ASSUME Integration!TypeOK, NEW status \in Status, NEW names \in BOOLEAN,
         \/ Integration!Return(status)
         \/ Integration!FailWith(status, names)
  PROVE  record' \in Integration!Record /\ pc' \in {"returned", "hook"}
BY SameStatus
DEF Integration!TypeOK, Integration!Record, Integration!Return, Integration!FailWith

\* Every step keeps the types of the integration probe's part.
LEMMA IntegrationTypeStep ==
  ASSUME Integration!TypeOK, SequenceInv, [Next]_vars
  PROVE  Integration!TypeOK'
<1> USE SameStatus DEF Integration!TypeOK, Integration!Pc, Integration!Final,
        Integration!dockerVars, Integration!captureVars
<1>0. Integration!ClientExit \in Exit
  BY DEF Integration!ClientExit, Exit
<1> DEFINE Decides == \E status \in Status, names \in BOOLEAN :
                        Integration!Return(status) \/ Integration!FailWith(status, names)
<1>1. ASSUME NEW c \in Status, Integration!Prerequisite(c) PROVE Integration!TypeOK'
  BY <1>1, DecidedType DEF Integration!Prerequisite
<1>2. CASE Integration!Help \/ Integration!RunReturns \/ Integration!InspectLabels
  <2>1. \/ Decides
        \/ UNCHANGED record
        \/ record' = [record EXCEPT !.owned = TRUE]
    BY <1>0, <1>2, CommandStatus
    DEF Integration!Help, Integration!RunReturns, Integration!InspectLabels, Status
  <2>2. record' \in Integration!Record
    BY <2>1, DecidedType DEF Integration!Record
  <2>3. QED
    BY <1>2, <2>2
    DEF Integration!Help, Integration!RunReturns, Integration!InspectLabels, Integration!Return
<1>3. CASE Integration!DumpReturns \/ Integration!StartReturns \/ Integration!InspectState
  <2>1. \/ Decides
        \/ UNCHANGED record
        \/ record' = [record EXCEPT !.state =
                        IF container = "restored" THEN "running" ELSE "exited"]
    BY <1>0, <1>3, CommandStatus
    DEF Integration!DumpReturns, Integration!StartReturns, Integration!InspectState,
        Integration!FailedRequest
  <2>2. record' \in Integration!Record
    BY <2>1, DecidedType DEF Integration!Record
  <2>3. QED
    BY <1>3, <2>2
    DEF Integration!DumpReturns, Integration!StartReturns, Integration!InspectState,
        Integration!FailedRequest, Integration!FailWith
<1>4. CASE \/ Integration!RequestRun \/ Integration!RequestDump \/ Integration!RequestStart
           \/ Integration!RequestRm
  BY <1>4 DEF Integration!RequestRun, Integration!RequestDump, Integration!RequestStart,
              Integration!RequestRm, Integration!Request, Integration!Job, Exit
<1>5. CASE Integration!Hook
  BY <1>5, Captured DEF Integration!Hook
<1>6. CASE Integration!RmReturns
  BY <1>0, <1>6, CommandStatus DEF Integration!RmReturns, Integration!Record
<1>7. CASE Integration!Interrupt
  BY <1>7 DEF Integration!Interrupt
<1>8. CASE Integration!DaemonStep
  <2>1. CASE Integration!ContainerDies
    <3>1. seen' \subseteq Integration!Container /\ log' \in BOOLEAN
      BY <2>1 DEF Integration!ContainerDies, Integration!Container
    <3>2. QED BY <2>1, <3>1 DEF Integration!ContainerDies, Integration!Container
  <2>2. ASSUME NEW kind \in Integration!Job, Integration!Serve(kind) PROVE Integration!TypeOK'
    <3>1. container' \in Integration!Container
      BY <2>2, Effects DEF Integration!Serve, Integration!Container, Integration!Job
    <3>2. reply' \in Exit \cup {"none"} /\ log' \in BOOLEAN
      BY <2>2 DEF Integration!Serve, Integration!Answer, Integration!LogAfter, Exit
    <3>3. QED BY <2>2, <3>1, <3>2 DEF Integration!Serve
  <2>3. QED BY <1>8, <2>1, <2>2 DEF Integration!DaemonStep
<1>9. CASE UNCHANGED probeVars /\ (UNCHANGED copy \/ CaptureLogs)
  <2>1. copy' \in Integration!Copy
    <3>1. CASE UNCHANGED copy BY <3>1
    <3>2. CASE CaptureLogs
      <4>1. entry = "none" BY <3>2 DEF CaptureLogs, SequenceInv, Final
      <4>2. QED BY <3>2, <4>1, Captured DEF CaptureLogs
    <3>3. QED BY <1>9, <3>1, <3>2
  <2>2. QED BY <1>9, <2>1 DEF probeVars
<1>10. QED
  BY <1>1, <1>2, <1>3, <1>4, <1>5, <1>6, <1>7, <1>8, <1>9, IntegrationMoves
  DEF Integration!Next, Integration!ProbeStep

-----------------------------------------------------------------------------
(***************************************************************************)
(* The integration probe's inductive invariant                             *)
(***************************************************************************)
Undecided == {"gate", "help", "run", "await_run", "labels", "dump", "await_dump", "start",
              "await_start", "state"}
Owning == {"dump", "await_dump", "start", "await_start", "state", "hook", "rm", "await_rm"}

\* As long as nothing failed, the daemon has at most the request that the
\* probe is waiting for.
PendingInv ==
  record.status = "none" /\ pc \notin Integration!Final =>
    \A kind \in jobs : pc = Integration!Awaited[kind] /\ reply = "none"

\* What is recorded where, and where the two requests that make and remove the
\* container can still be with the daemon.
PlaceInv ==
  /\ pc \in Undecided => record.status = "none"
  /\ pc = "hook" => record.status \notin {"none", "ok"}
  /\ pc = "returned" => record.status # "none"
  /\ pc \in Owning => record.owned
  /\ record.owned => "run" \notin jobs /\ pc \in Owning \cup Integration!Final
  /\ "rm" \in jobs => pc \in {"await_rm"} \cup Integration!Final

\* What the outcome of the removal stands for.
RemovalInv ==
  /\ record.cleanup # "none" => pc = "returned" /\ record.owned
  /\ pc = "returned" /\ record.owned => record.cleanup # "none"
  /\ (pc = "await_rm" /\ reply = "zero") \/ record.cleanup = "ok" => container = "none"

\* What a success on the way stands for.
RoundTripInv ==
  /\ pc \in {"start", "await_start", "state"} \/ (pc = "await_dump" /\ reply = "zero")
       => "checkpointed" \in seen
  /\ pc = "state" \/ (pc = "await_start" /\ reply = "zero") => "restored" \in seen
  /\ (pc \in {"rm", "await_rm"} /\ record.status = "none") \/ record.status = "ok"
       => {"checkpointed", "restored"} \subseteq seen
  /\ record.status = "ok" => record.cleanup = "ok" /\ jobs = {}

\* A log that is named was left by a request that was answered; nothing but
\* the removal is outstanding then, and the hook comes before that.
EvidenceInv ==
  record.names =>
    /\ jobs \subseteq {"rm"} /\ record.status \notin {"none", "ok"}
    /\ pc \in {"rm", "await_rm"} \/ "rm" \in jobs => (log => tried)

IntegrationInv == PendingInv /\ PlaceInv /\ RemovalInv /\ RoundTripInv /\ EvidenceInv

\* Up to the labels: the container is not known to be the probe's yet.
LEMMA BeforeOwning ==
  ASSUME Integration!TypeOK, IntegrationInv,
         \/ \E c \in Status : Integration!Prerequisite(c)
         \/ Integration!Help \/ Integration!RequestRun \/ Integration!RunReturns
         \/ Integration!InspectLabels
  PROVE  IntegrationInv'
<1> USE SameStatus, Kinds
    DEF Integration!TypeOK, Integration!Record, Integration!Job, Integration!Final,
        Integration!dockerVars, Integration!captureVars, Integration!Return,
        IntegrationInv, PendingInv, PlaceInv, RemovalInv, RoundTripInv, EvidenceInv,
        Undecided, Owning
<1>0. Integration!ClientExit \in Exit /\ (Integration!ClientExit = "zero" <=> reply = "zero")
  BY DEF Integration!ClientExit, Exit
<1>1. ASSUME NEW status \in Status \ {"ok"}, Integration!Return(status),
             pc \in {"gate", "help", "await_run", "labels"},
             UNCHANGED <<Integration!dockerVars, Integration!captureVars>>
      PROVE  IntegrationInv'
  <2>1. /\ record'.status = status /\ record'.owned = record.owned
        /\ record'.names = record.names /\ record'.cleanup = record.cleanup
        /\ pc' = "returned"
    BY <1>1
  <2>2. ~record.owned /\ ~record.names BY <1>1
  <2>3. PendingInv' /\ EvidenceInv' BY <2>1, <2>2
  <2>4. UNCHANGED <<container, jobs, reply>> BY <1>1
  <2>5. PlaceInv' BY <1>1, <2>1, <2>2, <2>4 DEF Status
  <2>6. RemovalInv' BY <1>1, <2>1, <2>2, <2>4
  <2>7. RoundTripInv' BY <1>1, <2>1
  <2>8. QED BY <2>3, <2>5, <2>6, <2>7
<1>2. ASSUME NEW c \in Status, Integration!Prerequisite(c) PROVE IntegrationInv'
  BY <1>1, <1>2 DEF Integration!Prerequisite
<1>3. CASE Integration!Help
  BY <1>1, <1>3, CommandStatus DEF Integration!Help
<1>4. CASE Integration!RequestRun
  BY <1>4 DEF Integration!RequestRun, Integration!Request
<1>5. CASE Integration!RunReturns
  BY <1>0, <1>1, <1>5, CommandStatus DEF Integration!RunReturns
<1>6. CASE Integration!InspectLabels
  BY <1>1, <1>6, CommandStatus DEF Integration!InspectLabels, Status
<1>7. QED BY <1>2, <1>3, <1>4, <1>5, <1>6

\* The checkpoint, the restore and their failures.
LEMMA RoundTrip ==
  ASSUME Integration!TypeOK, IntegrationInv,
         \/ Integration!RequestDump \/ Integration!DumpReturns
         \/ Integration!RequestStart \/ Integration!StartReturns
         \/ Integration!InspectState \/ Integration!Hook
  PROVE  IntegrationInv'
<1> USE SameStatus, Kinds
    DEF Integration!TypeOK, Integration!Record, Integration!Job, Integration!Final,
        Integration!dockerVars, Integration!captureVars,
        IntegrationInv, PendingInv, PlaceInv, RemovalInv, RoundTripInv, EvidenceInv,
        Undecided, Owning
<1>0. Integration!ClientExit \in Exit /\ (Integration!ClientExit = "zero" <=> reply = "zero")
  BY DEF Integration!ClientExit, Exit
<1>1. ASSUME NEW status \in Status \ {"ok"}, NEW names \in BOOLEAN,
             Integration!FailWith(status, names), names => jobs = {},
             pc \in {"await_dump", "await_start", "state"},
             UNCHANGED <<Integration!dockerVars, Integration!captureVars>>
      PROVE  IntegrationInv'
  BY <1>1 DEF Integration!FailWith, Status
<1>2. ASSUME pc \in {"await_dump", "await_start"}, reply # "zero",
             Integration!FailedRequest(Integration!ClientExit),
             UNCHANGED <<Integration!dockerVars, Integration!captureVars>>
      PROVE  IntegrationInv'
  BY <1>0, <1>1, <1>2, CommandStatus DEF Integration!FailedRequest, Integration!ClientExit
<1>3. CASE Integration!RequestDump \/ Integration!RequestStart
  BY <1>3 DEF Integration!RequestDump, Integration!RequestStart, Integration!Request
<1>4. CASE Integration!DumpReturns \/ Integration!StartReturns
  BY <1>0, <1>2, <1>4 DEF Integration!DumpReturns, Integration!StartReturns
<1>5. CASE Integration!InspectState
  <2>1. CASE \E exit \in Exit : exit # "zero" /\ Integration!FailWith(RunCommand(exit), FALSE)
    BY <1>1, <1>5, <2>1, CommandStatus DEF Integration!InspectState
  <2>2. CASE /\ record' = [record EXCEPT !.state =
                             IF container = "restored" THEN "running" ELSE "exited"]
             /\ pc' = "rm"
    <3>1. /\ record'.status = record.status /\ record'.owned = record.owned
          /\ record'.names = record.names /\ record'.cleanup = record.cleanup
      BY <2>2
    <3>2. QED BY <1>5, <2>2, <3>1 DEF Integration!InspectState
  <2>3. QED BY <1>5, <2>1, <2>2 DEF Integration!InspectState
<1>6. CASE Integration!Hook
  BY <1>6 DEF Integration!Hook
<1>7. QED BY <1>3, <1>4, <1>5, <1>6

\* The removal, and the ways to leave without it.
LEMMA Removal ==
  ASSUME Integration!TypeOK, IntegrationInv,
         Integration!RequestRm \/ Integration!RmReturns \/ Integration!Interrupt
  PROVE  IntegrationInv'
<1> USE SameStatus, Kinds
    DEF Integration!TypeOK, Integration!Record, Integration!Job, Integration!Final,
        Integration!dockerVars, Integration!captureVars,
        IntegrationInv, PendingInv, PlaceInv, RemovalInv, RoundTripInv, EvidenceInv,
        Undecided, Owning
<1>0. Integration!ClientExit \in Exit /\ (Integration!ClientExit = "zero" <=> reply = "zero")
  BY DEF Integration!ClientExit, Exit
<1>1. CASE Integration!RequestRm
  BY <1>1 DEF Integration!RequestRm, Integration!Request
<1>2. CASE Integration!RmReturns
  BY <1>0, <1>2, CommandStatus DEF Integration!RmReturns, Status
<1>3. CASE Integration!Interrupt
  BY <1>3 DEF Integration!Interrupt
<1>4. QED BY <1>1, <1>2, <1>3

\* The daemon serves or fails a request, whoever still waits for it.
LEMMA Answered ==
  ASSUME NEW kind \in Integration!Job, Integration!Serve(kind)
  PROVE  /\ kind \in jobs /\ jobs' = jobs \ {kind}
         /\ UNCHANGED <<pc, record, tried>> /\ seen' = seen \cup {container'}
         /\ pc # Integration!Awaited[kind] => reply' = reply
         /\ pc = Integration!Awaited[kind] => reply' # "none"
         /\ pc = Integration!Awaited[kind] /\ reply' = "zero" =>
              container' = Integration!Effect[kind].to
         /\ container = "none" /\ kind # "run" => container' = "none"
         /\ log' => log \/ kind \in {"dump", "start"}
BY SameStatus, Effects
DEF Integration!Serve, Integration!Answer, Integration!LogAfter, Integration!captureVars,
    Integration!Job

\* The daemon keeps the invariant when it serves or drops a request, whether the
\* probe still waits for it or has given it up.
LEMMA Served ==
  ASSUME Integration!TypeOK, IntegrationInv, Integration!DaemonStep
  PROVE  IntegrationInv'
<1> USE DEF IntegrationInv
<1>1. CASE Integration!ContainerDies
  <2>1. /\ UNCHANGED <<pc, record, jobs, reply, tried>> /\ seen' = seen \cup {"exited"}
        /\ container \in {"running", "restored"} /\ (log' => log)
    <3>1. log \in BOOLEAN BY DEF Integration!TypeOK
    <3>2. UNCHANGED <<pc, record, jobs, reply, tried>>
      BY <1>1 DEF Integration!ContainerDies, Integration!captureVars
    <3>3. log' => log
      BY <1>1, <3>1, Zenon DEF Integration!ContainerDies
    <3>4. QED BY <1>1, <3>2, <3>3 DEF Integration!ContainerDies
  <2>2. PendingInv' /\ PlaceInv' BY <2>1 DEF PendingInv, PlaceInv
  <2>3. RemovalInv' BY <2>1 DEF RemovalInv
  <2>4. RoundTripInv' BY <2>1 DEF RoundTripInv
  <2>5. EvidenceInv' BY <2>1 DEF EvidenceInv
  <2>6. QED BY <2>2, <2>3, <2>4, <2>5
<1>2. ASSUME NEW kind \in Integration!Job, Integration!Serve(kind) PROVE IntegrationInv'
  <2> USE Kinds, Effects, Answered DEF Integration!Job
  <2>1. PendingInv'
    <3>1. SUFFICES ASSUME record'.status = "none", pc' \notin Integration!Final
                   PROVE  \A k \in jobs' : pc' = Integration!Awaited[k] /\ reply' = "none"
      BY DEF PendingInv
    <3>2. \A k \in jobs : pc = Integration!Awaited[k]
      BY <1>2, <3>1 DEF PendingInv
    <3>3. jobs \subseteq Integration!Job BY DEF Integration!TypeOK
    <3>4. kind \in jobs /\ jobs' = jobs \ {kind} BY <1>2
    <3>5. \A k \in jobs : k = kind BY <3>2, <3>3, <3>4
    <3>6. QED BY <3>4, <3>5
  <2>2. PlaceInv'
    BY <1>2 DEF PlaceInv
  <2>3. RemovalInv'
    BY <1>2 DEF RemovalInv, PlaceInv, Owning
  <2>4. RoundTripInv'
    BY <1>2 DEF RoundTripInv
  <2>5. EvidenceInv'
    BY <1>2 DEF EvidenceInv
  <2>6. QED BY <2>1, <2>2, <2>3, <2>4, <2>5
<1>3. QED BY <1>1, <1>2 DEF Integration!DaemonStep

\* A step of the probe, of the daemon or of the rest of the run keeps the probe's
\* invariant.
LEMMA IntegrationInvStep ==
  ASSUME Integration!TypeOK, SequenceInv, IntegrationInv, [Next]_vars
  PROVE  IntegrationInv'
<1>1. CASE UNCHANGED probeVars
  BY <1>1 DEF probeVars, IntegrationInv, PendingInv, PlaceInv, RemovalInv, RoundTripInv,
              EvidenceInv
<1>2. CASE Integration!Next
  BY <1>2, BeforeOwning, RoundTrip, Removal, Served, SameStatus
  DEF Integration!Next, Integration!ProbeStep
<1>3. QED BY <1>1, <1>2, IntegrationMoves

\* Types, the sequence and the integration probe, by one induction.
THEOREM IntegrationInvariant ==
  Spec => [](Integration!TypeOK /\ SequenceInv /\ IntegrationInv)
<1>1. Init => Integration!TypeOK
  <2>1. Init => record \in Integration!Record
    BY DEF Init, Integration!Init, Integration!Record
  <2>2. Init => copy \in Integration!Copy /\ tried \in BOOLEAN /\ log \in BOOLEAN
    BY DEF Init, Integration!Init, Integration!Copy
  <2>3. QED
    BY <2>1, <2>2 DEF Init, Integration!Init, Integration!TypeOK, Integration!Pc,
                      Integration!Container
<1>2. Init => SequenceInv
  BY DEF Init, SequenceInv, Stages, Final, Integration!Entry
<1>3. Init => IntegrationInv
  BY DEF Init, Integration!Init, IntegrationInv, PendingInv, PlaceInv, RemovalInv, RoundTripInv,
         EvidenceInv, Undecided, Owning, Integration!Final
<1>4. QED
  BY <1>1, <1>2, <1>3, IntegrationTypeStep, SequenceStep, IntegrationInvStep, PTL DEF Spec

\* A container that the probe knew to be its own is gone when it returns, or
\* its record says that the removal failed.
THEOREM NoSilentLeakHolds == Spec => []NoSilentLeak
<1>1. Integration!TypeOK /\ IntegrationInv => NoSilentLeak
  BY DEF IntegrationInv, RemovalInv, NoSilentLeak, Integration!NoSilentLeak, Integration!TypeOK,
         Integration!Record
<1>2. QED BY <1>1, IntegrationInvariant, PTL

\* An OK record stands for a whole round trip of a container that is gone.
THEOREM OkMeansRoundTripHolds == Spec => []OkMeansRoundTrip
<1>1. IntegrationInv => OkMeansRoundTrip
  BY DEF IntegrationInv, RemovalInv, RoundTripInv, OkMeansRoundTrip, Integration!OkMeansRoundTrip
<1>2. QED BY <1>1, IntegrationInvariant, PTL

\* Only the daemon makes or removes the container.
LEMMA ProbeKeepsContainer ==
  ASSUME SequenceInv, [Next]_vars, ~Integration!DaemonStep
  PROVE  container' = container
<1>1. CASE UNCHANGED probeVars
  BY <1>1 DEF probeVars
<1>2. ASSUME \/ \E c \in Integration!Status : Integration!Prerequisite(c)
             \/ Integration!ProbeStep \/ Integration!Interrupt
      PROVE  container' = container
  BY <1>2
  DEF Integration!Prerequisite, Integration!ProbeStep, Integration!Help, Integration!RequestRun,
      Integration!RunReturns, Integration!InspectLabels, Integration!RequestDump,
      Integration!DumpReturns, Integration!RequestStart, Integration!StartReturns,
      Integration!InspectState, Integration!Hook, Integration!RequestRm, Integration!RmReturns,
      Integration!Interrupt, Integration!Request, Integration!dockerVars
<1>3. QED BY <1>1, <1>2, IntegrationMoves DEF Integration!Next

\* criu's log is not removed with the container before the hook had it.
THEOREM EvidenceBeforeRemovalHolds == Spec => EvidenceBeforeRemoval
<1>1. ASSUME Integration!TypeOK, SequenceInv, IntegrationInv, [Next]_vars,
             record.names, log, container # "none", container' = "none"
      PROVE  tried
  <2>1. Integration!DaemonStep
    BY <1>1, ProbeKeepsContainer
  <2>2. PICK kind \in Integration!Job : Integration!Serve(kind)
    BY <1>1, <2>1 DEF Integration!DaemonStep, Integration!ContainerDies
  <2>3. kind \in jobs
    BY <2>2 DEF Integration!Serve
  <2>4. kind = "rm" /\ tried
    BY <1>1, <2>3 DEF IntegrationInv, EvidenceInv
  <2>5. QED BY <2>4
<1>2. Integration!TypeOK /\ SequenceInv /\ IntegrationInv /\ [Next]_vars
        => [record.names /\ log /\ container # "none" /\ container' = "none"
              => tried]_(Integration!vars)
  BY <1>1
<1>3. QED
  BY <1>2, IntegrationInvariant, PTL
  DEF Spec, EvidenceBeforeRemoval, Integration!EvidenceBeforeRemoval

-----------------------------------------------------------------------------
(***************************************************************************)
(* The CUDA and MPS probes, and the capture                                *)
(***************************************************************************)

\* The places where the CUDA probe is still to ask for its container.
BeforeCuda == {"load", "begin", "hardware", "docker", "criu", "integration", "cuda"}

\* An answer says that the container is gone, or never came; while there is
\* none it may be on its way.
CudaInv ==
  /\ stage \in BeforeCuda => cuda = "none" /\ cudaReply = "none"
  /\ stage \in BeforeCuda \cup {"await_cuda"} => cudaStatus = "none"
  /\ cudaReply # "none" \/ cudaStatus = "ok" => cuda = "none"
  /\ cuda \in {"none", "requested", "created", "running"}
  /\ cudaReply \in Exit \cup {"none"}
  /\ cudaStatus \in Status \cup {"none"}

\* The CUDA probe's container and record, step by step.
LEMMA CudaStep ==
  ASSUME CudaInv, [Next]_vars
  PROVE  CudaInv'
<1> USE DEF CudaInv, BeforeCuda
<1>1. CASE RequestCuda
  BY <1>1 DEF RequestCuda, Exit
<1>2. CASE CudaReturns
  <2>1. (IF cudaReply = "none" THEN "expired" ELSE cudaReply) \in Exit
    BY DEF Exit
  <2>2. /\ cudaStatus' \in Status /\ cudaReply' = "none" /\ cuda' = cuda /\ stage' = "mps"
        /\ cudaStatus' = "ok" => cudaReply = "zero"
    BY <1>2, <2>1, CommandStatus DEF CudaReturns
  <2>3. QED BY <2>2
<1>3. CASE CudaDaemonStep
  BY <1>3 DEF CudaDaemonStep, CudaCreated, CudaStarted, CudaEnds, Exit
<1>4. CASE Load \/ Begin \/ Hardware \/ DockerVersion \/ CriuVersion
  BY <1>4 DEF Load, Begin, Hardware, DockerVersion, CriuVersion, cudaVars
<1>5. CASE IntegrationStep \/ IntegrationReturns \/ MpsStep \/ CaptureLogs \/ Interrupt
  BY <1>5 DEF IntegrationStep, IntegrationReturns, MpsStep, CaptureLogs, Interrupt, cudaVars
<1>6. CASE IntegrationDaemonStep \/ MpsHostStep \/ UNCHANGED vars
  BY <1>6 DEF IntegrationDaemonStep, MpsHostStep, vars, cudaVars
<1>7. QED BY <1>1, <1>2, <1>3, <1>4, <1>5, <1>6 DEF Next, StageStep

\* The MPS probe starts a daemon only where it found none, and until it has
\* filed its record no command of its own is left over.
MpsInv ==
  /\ mpsPc \in {"idle", "start"} => daemon # "probe"
  /\ mpsPc # "filed" => late = "none" /\ mpsStatus = "none"
  /\ found => daemon = "site" /\ late # "quit" /\ mpsPc \in {"start", "filed"}
  /\ mpsStatus = "ok" => daemon # "probe" /\ late = "none"

\* The steps that touch the MPS probe's part of the host.
LEMMA MpsMoves ==
  ASSUME [Next]_vars
  PROVE  Mps!MpsStep \/ Mps!HostStep \/ UNCHANGED mpsVars
BY Zenon
DEF Next, StageStep, Load, Begin, Hardware, DockerVersion, CriuVersion, IntegrationStep,
    IntegrationReturns, RequestCuda, CudaReturns, MpsStep, CaptureLogs, Interrupt,
    IntegrationDaemonStep, CudaDaemonStep, MpsHostStep, vars

\* The MPS probe's steps, and those of the host around it.
LEMMA MpsInvStep ==
  ASSUME Mps!MpsTypeOK, MpsInv, [Next]_vars
  PROVE  Mps!MpsTypeOK' /\ MpsInv'
<1> USE SameStatus DEF Mps!MpsTypeOK, MpsInv
<1>1. CASE Mps!Look
  <2>1. \/ Mps!File("unsupported") \/ Mps!File("ok")
        \/ mpsPc' = "start" /\ UNCHANGED mpsStatus
    BY <1>1, Zenon DEF Mps!Look
  <2>2. mpsPc = "idle" /\ found' = (daemon = "site") /\ UNCHANGED <<daemon, pipe, late>>
    BY <1>1 DEF Mps!Look
  <2>3. QED BY <2>1, <2>2 DEF Mps!File, Status
<1>2. CASE Mps!StartDaemon
  <2>1. PICK exit \in Exit :
          /\ Mps!Launch(exit)
          /\ IF exit = "zero" THEN mpsPc' = "quit" /\ UNCHANGED mpsStatus
                              ELSE Mps!File(ClassifyCapability(exit))
    BY <1>2 DEF Mps!StartDaemon
  <2>2. ClassifyCapability(exit) \in Status /\ (ClassifyCapability(exit) = "ok" <=> exit = "zero")
    BY CommandStatus
  <2>3. QED BY <1>2, <2>1, <2>2 DEF Mps!StartDaemon, Mps!Launch, Mps!File
<1>3. CASE Mps!QuitDaemon
  <2>1. PICK exit \in Exit : Mps!Quit(exit) /\ Mps!File(ClassifyCapability(exit))
    BY <1>3 DEF Mps!QuitDaemon
  <2>2. ClassifyCapability(exit) \in Status /\ (ClassifyCapability(exit) = "ok" <=> exit = "zero")
    BY CommandStatus
  <2>3. QED BY <1>3, <2>1, <2>2 DEF Mps!QuitDaemon, Mps!Quit, Mps!File
<1>4. CASE Mps!HostStep
  <2>1. CASE Mps!LateCommand
    BY <2>1 DEF Mps!LateCommand
  <2>2. CASE Mps!SiteStarts
    BY <2>2 DEF Mps!SiteStarts
  <2>3. CASE Mps!DaemonEnds
    BY <2>3 DEF Mps!DaemonEnds
  <2>4. QED BY <1>4, <2>1, <2>2, <2>3 DEF Mps!HostStep
<1>5. CASE UNCHANGED mpsVars
  BY <1>5 DEF mpsVars
<1>6. QED BY <1>1, <1>2, <1>3, <1>4, <1>5, MpsMoves DEF Mps!MpsStep

\* What the CUDA and the MPS probe leave on the host while they run and after: the
\* container of docker run --rm, and the daemon, whoever started it.
THEOREM HostInvariant == Spec => [](CudaInv /\ Mps!MpsTypeOK /\ MpsInv)
<1>1. Init => CudaInv /\ Mps!MpsTypeOK /\ MpsInv
  BY DEF Init, Mps!MpsInit, CudaInv, BeforeCuda, Mps!MpsTypeOK, MpsInv
<1>2. QED BY <1>1, CudaStep, MpsInvStep, PTL DEF Spec

\* What the two probes say is OK leaves nothing of theirs on the host.
THEOREM OkLeavesNothingHolds == Spec => []OkLeavesNothing
<1>1. CudaInv /\ MpsInv => OkLeavesNothing
  BY DEF CudaInv, MpsInv, OkLeavesNothing
<1>2. QED BY <1>1, HostInvariant, PTL

\* A daemon that was there first outlives the MPS probe.
THEOREM FoundDaemonSurvivesHolds == Spec => FoundDaemonSurvives
<1>1. MpsInv /\ MpsInv' /\ [Next]_vars => [found => daemon' = "site" \/ ~found']_vars
  BY DEF MpsInv
<1>2. QED BY <1>1, HostInvariant, PTL DEF Spec, FoundDaemonSurvives

\* An OK entry about criu's log stands over the whole of it.
THEOREM OkEntryIsBackedHolds == Spec => []OkEntryIsBacked
<1>1. ASSUME Integration!TypeOK, SequenceInv, OkEntryIsBacked, [Next]_vars
      PROVE  OkEntryIsBacked'
  <2>1. CASE CaptureLogs
    <3>1. entry = "none" BY <1>1, <2>1 DEF CaptureLogs, SequenceInv, Final
    <3>2. QED BY <1>1, <2>1, <3>1, Captured DEF CaptureLogs, OkEntryIsBacked, Integration!TypeOK
  <2>2. CASE IntegrationStep \/ Interrupt
    <3>1. entry = "none" /\ entry' = entry
      BY <1>1, <2>2 DEF IntegrationStep, Interrupt, SequenceInv, Final
    <3>2. QED BY <3>1 DEF OkEntryIsBacked
  <2>3. CASE IntegrationDaemonStep
    <3>1. UNCHANGED <<entry, copy>>
      BY <2>3 DEF IntegrationDaemonStep, Integration!DaemonStep, Integration!ContainerDies,
                  Integration!Serve, Integration!captureVars
    <3>2. QED BY <1>1, <3>1 DEF OkEntryIsBacked
  <2>4. CASE \/ Load \/ Begin \/ Hardware \/ DockerVersion \/ CriuVersion \/ IntegrationReturns
             \/ RequestCuda \/ CudaReturns \/ MpsStep \/ CudaDaemonStep \/ MpsHostStep
             \/ UNCHANGED vars
    <3>1. entry' = entry /\ UNCHANGED integrationVars
      BY <2>4, Zenon DEF Load, Begin, Hardware, DockerVersion, CriuVersion, IntegrationReturns,
                         RequestCuda, CudaReturns, MpsStep, CudaDaemonStep, MpsHostStep, vars
    <3>2. QED BY <1>1, <3>1 DEF OkEntryIsBacked, integrationVars
  <2>5. QED BY <1>1, <2>1, <2>2, <2>3, <2>4 DEF Next, StageStep
<1>2. Init => OkEntryIsBacked
  BY DEF Init, OkEntryIsBacked
<1>3. QED BY <1>1, <1>2, IntegrationInvariant, PTL DEF Spec

-----------------------------------------------------------------------------
(***************************************************************************)
(* The configuration and the hardware record                               *)
(***************************************************************************)

\* What is loaded is what load_config makes of the file, and what is filed is
\* what the hardware probe makes of the host it runs on; each lasts as long as
\* what it was made of.
DataInv ==
  /\ file \in Files \cup {Absent}
  /\ stage = "load" => file \in Files
  /\ options # Absent => file \in Files /\ options = LoadConfig(file)
  /\ gpus \in Gpus \cup {<<>>}
  /\ stage = "hardware" => gpus \in Gpus
  /\ stage \in {"load", "begin", "hardware"} => hardware = NotFiled
  /\ hardware # NotFiled => gpus \in Gpus /\ hardware \in HardwareRecords(gpus)

\* Only the first four stages touch the configuration and the record.
LEMMA DataStep ==
  ASSUME DataInv, [Next]_vars
  PROVE  DataInv'
<1> USE DEF DataInv
<1>1. CASE Load
  BY <1>1 DEF Load
<1>2. CASE Begin
  BY <1>2 DEF Begin
<1>3. CASE Hardware
  BY <1>3 DEF Hardware, configVars
<1>4. CASE DockerVersion
  BY <1>4 DEF DockerVersion, configVars
<1>5. CASE \/ CriuVersion \/ IntegrationStep \/ IntegrationReturns \/ RequestCuda
           \/ CudaReturns \/ MpsStep \/ CaptureLogs \/ Interrupt
           \/ IntegrationDaemonStep \/ CudaDaemonStep \/ MpsHostStep \/ UNCHANGED vars
  <2>1. UNCHANGED <<configVars, gpus, hardware>>
    BY <1>5, Zenon DEF CriuVersion, IntegrationStep, IntegrationReturns, RequestCuda, CudaReturns,
                       MpsStep, CaptureLogs, Interrupt, IntegrationDaemonStep, CudaDaemonStep,
                       MpsHostStep, vars
  <2>2. stage' \in {"load", "begin", "hardware"} => stage' = stage
    BY <1>5 DEF CriuVersion, IntegrationStep, IntegrationReturns, RequestCuda, CudaReturns,
                MpsStep, CaptureLogs, Interrupt, IntegrationDaemonStep, CudaDaemonStep,
                MpsHostStep, vars
  <2>3. QED BY <2>1, <2>2 DEF configVars
<1>6. QED BY <1>1, <1>2, <1>3, <1>4, <1>5 DEF Next, StageStep

\* The configuration and the record are made of the file and the host they are
\* said to be made of.
THEOREM DataInvariant == Spec => []DataInv
<1>1. Init => DataInv
  BY DEF Init, DataInv
<1>2. QED BY <1>1, DataStep, PTL DEF Spec

\* Every option of an accepted configuration is the one its file, the defaults
\* and the model make at its path.
THEOREM OptionsByPathHolds == Spec => []OptionsByPath
<1>1. ASSUME DataInv PROVE OptionsByPath
  <2>1. ASSUME options.is = "mapping", NEW path \in OptionPaths
        PROVE  At(options, path) = Expected(file, path)
    <3>1. options # Absent BY <2>1 DEF Absent
    <3>2. file \in Files /\ options = LoadConfig(file) BY <1>1, <3>1 DEF DataInv
    <3>3. SectionsAreParts(file) BY <3>2, FilesAssumption DEF SectionsAreParts
    <3>4. QED BY ONLY <2>1, <3>2, <3>3, LoadConfigByPath
  <2>2. QED BY <2>1 DEF OptionsByPath
<1>2. QED BY <1>1, DataInvariant, PTL

\* The video memory on record is the sum over the host's GPUs, or less where
\* the report was cut short, as long as each of them reports a number.
THEOREM VramIsTheSumHolds == Spec => []VramIsTheSum
<1>1. ASSUME DataInv PROVE VramIsTheSum
  <2>1. ASSUME hardware # NotFiled, \A i \in DOMAIN gpus : gpus[i].fb # NotAvailable
        PROVE  /\ hardware.vram <= SumOfFb(gpus)
               /\ hardware.status = "ok" => hardware.vram = SumOfFb(gpus)
    <3>1. gpus \in Gpus /\ hardware \in HardwareRecords(gpus) BY <1>1, <2>1 DEF DataInv
    <3>2. gpus \in Seq([fb : Nat, bar1 : Nat]) BY <3>1, GpusAssumption
    <3>3. QED BY ONLY <2>1, <3>1, <3>2, HardwareRecordIs
  <2>2. QED BY <2>1 DEF VramIsTheSum
<1>2. QED BY <1>1, DataInvariant, PTL

\* Types, the data included: a configuration is a mapping or rejected, and a
\* hardware record has a number, whatever the file and the report hold.
THEOREM TypeCorrect == Spec => []TypeOK
<1>1. ASSUME DataInv, Integration!TypeOK, SequenceInv, CudaInv, Mps!MpsTypeOK
      PROVE  TypeOK
  <2>1. options.is \in {"mapping", "rejected", "absent"}
    <3>1. CASE options = Absent
      BY <3>1 DEF Absent
    <3>2. CASE options # Absent
      <4>1. file \in Files /\ options = LoadConfig(file) BY <1>1, <3>2 DEF DataInv
      <4>2. SectionsAreParts(file) BY <4>1, FilesAssumption DEF SectionsAreParts
      <4>3. LoadConfig(file).is \in {"mapping", "rejected"} BY <4>2, LoadedIs
      <4>4. QED BY <4>1, <4>3
    <3>3. QED BY <3>1, <3>2
  <2>2. hardware \in [status : Status, vram : Nat] \cup {NotFiled}
    <3>1. CASE hardware # NotFiled
      <4>1. gpus \in Gpus /\ hardware \in HardwareRecords(gpus) BY <1>1, <3>1 DEF DataInv
      <4>2. gpus \in Seq([fb : Nat, bar1 : Nat]) BY <4>1, GpusAssumption
      <4>3. hardware \in [status : Status, vram : Nat]
        BY ONLY <4>1, <4>2, HardwareRecordIs
      <4>4. QED BY <4>3
    <3>2. QED BY <3>1
  <2>3. QED BY <1>1, <2>1, <2>2 DEF TypeOK, DataInv, SequenceInv, CudaInv
<1>2. QED BY <1>1, DataInvariant, IntegrationInvariant, HostInvariant, PTL
=============================================================================
