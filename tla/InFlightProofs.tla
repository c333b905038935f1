---------------------------- MODULE InFlightProofs ----------------------------
(***************************************************************************)
(* Theorems about InFlight, whatever the run and its site's runc.conf: the *)
(* preemption inside the sequence is the one SmokePreemptionProofs is      *)
(* about, and the verdict follows from the records that were made.         *)
(***************************************************************************)
EXTENDS InFlight, TLAPS

P == INSTANCE SmokePreemptionProofs WITH Proc <- {Run}, NoSudo <- {}

-----------------------------------------------------------------------------
(***************************************************************************)
(* The preemption in the sequence                                          *)
(***************************************************************************)

\* Smoke and P are instances of the same definitions.
LEMMA SamePreemption ==
  /\ Smoke!Init => P!Init
  /\ Smoke!Next => P!Next
  /\ UNCHANGED Smoke!vars => UNCHANGED P!vars
BY Zenon
DEF    Smoke!vars, P!vars, Smoke!confVars, P!confVars, Smoke!dockerVars, P!dockerVars,
       Smoke!Body, P!Body, Smoke!Final, P!Final, Smoke!Goto, P!Goto, Smoke!Finish,
       P!Finish, Smoke!ReturnWith, P!ReturnWith, Smoke!Input, P!Input, Smoke!Verdict,
       P!Verdict, Smoke!Proceed, P!Proceed, Smoke!Gate, P!Gate, Smoke!Verdicts,
       P!Verdicts, Smoke!Refuse, P!Refuse, Smoke!Admit, P!Admit, Smoke!Acquire,
       P!Acquire, Smoke!AcquireContended, P!AcquireContended, Smoke!AcquireRaises,
       P!AcquireRaises, Smoke!Capture, P!Capture, Smoke!CaptureFailed, P!CaptureFailed,
       Smoke!Request, P!Request, Smoke!Serve, P!Serve, Smoke!DaemonDumps, P!DaemonDumps,
       Smoke!DaemonStarts, P!DaemonStarts, Smoke!ClientExit, P!ClientExit,
       Smoke!FailureOutcome, P!FailureOutcome, Smoke!FailedRequest, P!FailedRequest,
       Smoke!MarkCheckpoint, P!MarkCheckpoint, Smoke!WriteDumpConf, P!WriteDumpConf,
       Smoke!KeepDumpConf, P!KeepDumpConf, Smoke!RequestDump, P!RequestDump,
       Smoke!DumpDone, P!DumpDone, Smoke!DumpFailed, P!DumpFailed, Smoke!MarkRestore,
       P!MarkRestore, Smoke!WriteRestoreConf, P!WriteRestoreConf, Smoke!KeepRestoreConf,
       P!KeepRestoreConf, Smoke!RequestStart, P!RequestStart, Smoke!StartDone,
       P!StartDone, Smoke!StartFailed, P!StartFailed, Smoke!Inspect, P!Inspect,
       Smoke!BrokenWrite, P!BrokenWrite, Smoke!Interrupt, P!Interrupt,
       Smoke!FinallyRestoreOriginal, P!FinallyRestoreOriginal, Smoke!FinallyRelease,
       P!FinallyRelease, Smoke!FinallyNothing, P!FinallyNothing, Smoke!RuntimeDies,
       P!RuntimeDies, Smoke!ProcessExit, P!ProcessExit, Smoke!Crash, P!Crash,
       Smoke!RunStep, P!RunStep, Smoke!Next, P!Next, Smoke!Init, P!Init,
       Smoke!RunCommand, P!RunCommand, Smoke!ClassifyCapability, P!ClassifyCapability,
       Smoke!Exit, P!Exit, Smoke!FailedExit, P!FailedExit, Smoke!Status, P!Status,
       Smoke!Conf!Enter, P!Conf!Enter, Smoke!Conf!Unlocked, P!Conf!Unlocked,
       Smoke!Conf!ReleaseLock, P!Conf!ReleaseLock, Smoke!Conf!Closed, P!Conf!Closed,
       Smoke!Conf!FileExit, P!Conf!FileExit, Smoke!Conf!Exit, P!Conf!Exit,
       Smoke!Conf!Phase, P!Conf!Phase, Smoke!Conf!AfterWrite, P!Conf!AfterWrite,
       Smoke!Conf!AfterRemove, P!Conf!AfterRemove, Smoke!Conf!AfterRestore,
       P!Conf!AfterRestore, Smoke!Conf!LockTaken, P!Conf!LockTaken,
       Smoke!Conf!LockContended, P!Conf!LockContended, Smoke!Conf!LockRaises,
       P!Conf!LockRaises, Smoke!Conf!CaptureText, P!Conf!CaptureText,
       Smoke!Conf!CaptureMissing, P!Conf!CaptureMissing, Smoke!Conf!CaptureFails,
       P!Conf!CaptureFails, Smoke!Conf!WritePhase, P!Conf!WritePhase,
       Smoke!Conf!RestoreOriginal, P!Conf!RestoreOriginal, Smoke!Conf!Release,
       P!Conf!Release, Smoke!Conf!ProcessExit, P!Conf!ProcessExit, Smoke!Conf!Crash,
       P!Conf!Crash, Smoke!Conf!Init, P!Conf!Init

\* Smoke and P have the same types.
LEMMA SameType == P!TypeOK => Smoke!TypeOK
BY Zenon
DEF P!TypeOK, Smoke!TypeOK, P!Conf!TypeOK, Smoke!Conf!TypeOK, P!Conf!Text, Smoke!Conf!Text,
    P!Conf!Stage, Smoke!Conf!Stage, P!Conf!Captured, Smoke!Conf!Captured, P!Pc, Smoke!Pc,
    P!Body, Smoke!Body, P!Final, Smoke!Final, P!Record, Smoke!Record, P!Outcome, Smoke!Outcome,
    P!Container, Smoke!Container, P!Status, Smoke!Status, P!Exit, Smoke!Exit

\* The main thread's steps inside the preemption.
Drive == Preempt \/ Interrupt

\* Every step of the sequence is one of the preemption or leaves it alone.
LEMMA PreemptionStep ==
  ASSUME [Next]_vars
  PROVE  [Smoke!Next]_(Smoke!vars)
<1>1. UNCHANGED smokeVars => UNCHANGED Smoke!vars
  BY DEF smokeVars, Smoke!vars, Smoke!confVars, Smoke!dockerVars
<1>2. ASSUME Drive PROVE Smoke!Next
  <2>1. Smoke!Refuse(Run) \/ Smoke!RunStep(Run) \/ Smoke!Interrupt(Run)
    BY <1>2, Zenon DEF Drive, Preempt, Interrupt
  <2>2. UNCHANGED switching BY <1>2 DEF Drive, Preempt, Interrupt
  <2>3. QED BY <2>1, <2>2, Zenon DEF Smoke!Next, Smoke!RunStep
<1>3. ASSUME Dump \/ Restart \/ ServerDies \/ Crash PROVE Smoke!Next
  <2>1. \/ Smoke!DaemonDumps(Run) \/ Smoke!DaemonStarts(Run)
        \/ Smoke!RuntimeDies(Run) \/ Smoke!Crash(Run)
    BY <1>3, Zenon DEF Dump, Restart, ServerDies, Crash
  <2>2. UNCHANGED switching BY <1>3 DEF Dump, Restart, ServerDies, Crash
  <2>3. QED BY <2>1, <2>2, Zenon DEF Smoke!Next
<1>4. ASSUME \/ IssueRequest \/ InlineReturns \/ WritePlaceholders \/ PreemptionLeft \/ Join
             \/ Unwind \/ PostRestoreProbe \/ Classify \/ WorkerStep \/ ServerAnswers
             \/ UNCHANGED vars
      PROVE  UNCHANGED smokeVars
  BY <1>4, Zenon DEF IssueRequest, InlineReturns, WritePlaceholders, PreemptionLeft, Join, Unwind,
                     PostRestoreProbe, Classify, WorkerStep, ServerAnswers, vars
<1>5. QED BY <1>1, <1>2, <1>3, <1>4 DEF Next, MainStep, Drive

\* InFlight implements SmokePreemption: what is proved and checked of the
\* preemption alone holds of it inside the sequence.
THEOREM PreemptionHolds == Spec => Smoke!Spec
<1>1. Init => Smoke!Init BY DEF Init
<1>2. QED BY <1>1, PreemptionStep, PTL DEF Spec, Smoke!Spec

\* What the theorems of SmokePreemptionProofs assume of the constants.
LEMMA Assumed == P!SmokePreemptionAssumption
BY InFlightAssumption DEF P!SmokePreemptionAssumption

\* What SmokePreemptionProofs proves of a preemption, of this one.
LEMMA PreemptionInvariants == Spec => [](P!TypeOK /\ P!Inv /\ P!Named)
<1>1. P!SmokePreemptionAssumption BY Assumed
<1>2. Smoke!Spec => P!Spec
  BY SamePreemption, PTL DEF Smoke!Spec, P!Spec
<1>3. P!Spec => []P!TypeOK BY <1>1, P!TypeCorrect
<1>4. P!Spec => []P!Inv BY <1>1, P!Invariant
<1>5. P!Spec => []P!Named BY <1>1, P!NamedInvariant
<1>6. QED BY <1>2, <1>3, <1>4, <1>5, PreemptionHolds, PTL

-----------------------------------------------------------------------------
(***************************************************************************)
(* What the preemption's steps make of pc and record                       *)
(***************************************************************************)
LEMMA RunTypes ==
  ASSUME P!TypeOK
  PROVE  /\ P!LocalTypeOK
         /\ pc \in [{Run} -> P!Pc] /\ record \in [{Run} -> P!Record]
         /\ record[Run].status \in Status /\ record[Run].outcome \in P!Outcome
         /\ record[Run].checkpoint \in BOOLEAN /\ record[Run].restore \in BOOLEAN
BY DEF P!TypeOK, P!LocalTypeOK, P!Record, P!Status, Status

\* Outside the preemption the record stays, and only a crash moves pc.
LEMMA RecordFrame ==
  ASSUME P!TypeOK, [Next]_vars, ~Drive
  PROVE  /\ record' = record
         /\ \/ pc' = pc
            \/ Crash /\ pc[Run] \notin {"returned", "raised", "crashed"} /\ pc'[Run] = "crashed"
<1>1. ASSUME Dump \/ Restart \/ ServerDies PROVE record' = record /\ pc' = pc
  BY <1>1 DEF Dump, Restart, ServerDies, Smoke!DaemonDumps, Smoke!DaemonStarts,
              Smoke!RuntimeDies, Smoke!Serve
<1>2. ASSUME Crash
      PROVE  /\ record' = record
             /\ pc[Run] \notin {"returned", "raised", "crashed"} /\ pc'[Run] = "crashed"
  BY <1>2, RunTypes DEF Crash, Smoke!Crash, Smoke!Goto, Smoke!Final
<1>3. ASSUME UNCHANGED smokeVars PROVE record' = record /\ pc' = pc
  BY <1>3 DEF smokeVars
<1>4. ASSUME \/ IssueRequest \/ InlineReturns \/ WritePlaceholders \/ PreemptionLeft \/ Join
             \/ Unwind \/ PostRestoreProbe \/ Classify \/ WorkerStep \/ ServerAnswers
             \/ UNCHANGED vars
      PROVE  UNCHANGED smokeVars
  BY <1>4, Zenon DEF IssueRequest, InlineReturns, WritePlaceholders, PreemptionLeft, Join, Unwind,
                     PostRestoreProbe, Classify, WorkerStep, ServerAnswers, vars
<1>5. QED BY <1>1, <1>2, <1>3, <1>4, Zenon DEF Next, MainStep, Drive

\* A refusal attempts nothing.
LEMMA Refused ==
  ASSUME P!TypeOK, Smoke!Refuse(Run)
  PROVE  /\ pc'[Run] = "returned"
         /\ record'[Run].outcome \in {"not_supported", "not_attempted"}
         /\ record'[Run].checkpoint = record[Run].checkpoint
         /\ record'[Run].restore = record[Run].restore
<1>1. PICK refusal \in P!Verdicts[(Run \in switching)] \ {P!Proceed} :
        P!Finish(Run, refusal.status, refusal.outcome)
  BY Zenon
  DEF Smoke!Refuse, Smoke!Verdicts, P!Verdicts, Smoke!Proceed, P!Proceed, Smoke!Gate, P!Gate,
      Smoke!Input, P!Input, Smoke!Verdict, P!Verdict, Smoke!RunCommand, P!RunCommand,
      Smoke!Status, P!Status, Smoke!Exit, P!Exit, Smoke!Finish, P!Finish
<1>2. \A p \in {Run} : \A v \in P!Verdicts[(p \in switching)] \ {P!Proceed} :
        v.outcome \in {"not_supported", "not_attempted"}
  BY Assumed, P!RefusalStatus
<1>3. refusal.outcome \in {"not_supported", "not_attempted"}
  BY <1>1, <1>2
<1>4. pc'[Run] = "returned"
  BY RunTypes DEF Smoke!Refuse, Smoke!Goto
<1>5. PICK status, outcome :
        P!Finish(Run, status, outcome) /\ outcome \in {"not_supported", "not_attempted"}
  BY <1>1, <1>3, Zenon
<1>6. P!LocalTypeOK BY RunTypes
<1>7. /\ record'[Run].outcome = outcome
      /\ record'[Run].checkpoint = record[Run].checkpoint
      /\ record'[Run].restore = record[Run].restore
  BY <1>5, <1>6, Assumed, P!FinishEffect
<1>8. QED
  BY <1>4, <1>5, <1>7

-----------------------------------------------------------------------------
(***************************************************************************)
(* Types                                                                   *)
(***************************************************************************)

\* The types of what the sequence adds to the preemption.
LocalTypeOK ==
  /\ main \in {"start", "inline", "preempt", "join", "probe", "classify",
               "unwind", "classified", "raised", "crashed"}
  /\ mode \in Mode
  /\ session \in Status
  /\ worker \in {"idle", "queued", "recorded", "waiting", "returned", "done", "raised"}
  /\ server \in {"none", "held", "answered", "lost"}
  /\ request \in JsonLine /\ response \in JsonLine
  /\ phases \in [checkpointStart : Nat, restoreStart : Nat, restoreEnd : Nat]
  /\ clock \in Nat
  /\ verdict \in SmokeClass \cup {"none"}
  /\ answer \in {"none", "ok", "error", "timeout"}
  /\ inFlight \in [sent : Nat, answered : Nat, dumped : BOOLEAN]

\* Whatever the records say, the verdict is one of SmokeClassification.
LEMMA VerdictType ==
  /\ \A status : UnavailableClass(status) \in SmokeClass
  /\ \A preemption, req, resp, stamps :
       Classification(preemption, req, resp, stamps) \in SmokeClass
BY DEF UnavailableClass, Classification, TimingClass, SmokeClass

\* A stamp is taken off a clock that does not run backwards.
LEMMA StampPhasesType ==
  ASSUME LocalTypeOK, StampPhases
  PROVE  /\ clock' \in Nat /\ clock <= clock'
         /\ phases' \in [checkpointStart : Nat, restoreStart : Nat, restoreEnd : Nat]
<1>1. clock' \in Nat /\ clock <= clock'
  BY DEF LocalTypeOK, StampPhases, Tick
<1>2. CASE UNCHANGED phases
  BY <1>1, <1>2 DEF LocalTypeOK
<1>3. CASE phases' = [phases EXCEPT
             !.checkpointStart = IF Starts("checkpoint") THEN clock' ELSE @,
             !.restoreStart    = IF Starts("restore") THEN clock' ELSE @,
             !.restoreEnd      = IF RestoreEnds THEN clock' ELSE @]
  BY <1>1, <1>3, Zenon DEF LocalTypeOK
<1>4. QED BY <1>1, <1>2, <1>3 DEF StampPhases

\* Every step of either thread, of the server or of the daemon keeps the types.
LEMMA LocalTypeStep ==
  ASSUME LocalTypeOK, [Next]_vars
  PROVE  LocalTypeOK'
<1> USE DEF LocalTypeOK
<1>1. CASE WorkerStep
  BY <1>1 DEF WorkerStep, RecordRequest, Send, TransportReturns, RecordResponse, AppendRaises,
              Tick, JsonLine, Status
<1>2. CASE Drive
  BY <1>2, StampPhasesType DEF Drive, Preempt, Interrupt, threadVars
<1>3. CASE Classify
  BY <1>3, VerdictType, Zenon DEF Classify, threadVars
<1>4. CASE WritePlaceholders \/ PostRestoreProbe
  BY <1>4 DEF WritePlaceholders, PostRestoreProbe, Tick, JsonLine, Status
<1>5. CASE IssueRequest \/ InlineReturns \/ PreemptionLeft \/ Join \/ Unwind
  BY <1>5 DEF IssueRequest, InlineReturns, PreemptionLeft, Join, Unwind, threadVars
<1>6. CASE Dump
  <2>1. /\ UNCHANGED <<main, mode, session, worker, server, answer, request, response, phases,
                       clock, verdict>>
        /\ inFlight' \in [sent : Nat, answered : Nat, dumped : BOOLEAN]
    BY <1>6 DEF Dump
  <2>2. QED BY <2>1
<1>7. CASE Restart \/ ServerAnswers \/ ServerDies \/ Crash
  BY <1>7 DEF Restart, ServerAnswers, ServerDies, Crash, threadVars
<1>8. CASE UNCHANGED vars
  BY <1>8 DEF vars, threadVars
<1>9. QED
  BY <1>1, <1>2, <1>3, <1>4, <1>5, <1>6, <1>7, <1>8 DEF Next, MainStep, Drive

\* The types of what the sequence adds to the preemption hold throughout.
LEMMA LocalTypes == Spec => []LocalTypeOK
<1>1. Init => LocalTypeOK
  BY DEF Init, LocalTypeOK, Mode, Status, NoRecord, NoStamp, JsonLine
<1>2. QED BY <1>1, LocalTypeStep, PTL DEF Spec

\* Type correctness of the sequence and of the preemption inside it.
THEOREM TypeCorrect == Spec => []TypeOK
<1>1. LocalTypeOK /\ Smoke!TypeOK => TypeOK
  BY DEF LocalTypeOK, TypeOK
<1>2. QED BY <1>1, LocalTypes, PreemptionInvariants, SameType, PTL

-----------------------------------------------------------------------------
(***************************************************************************)
(* The stamps of the two phases                                            *)
(***************************************************************************)

\* A phase has a stamp exactly when it is on record as attempted; the end of
\* the restore is stamped after both starts, and before "restored" is seen.
StampInv ==
  /\ clock >= 1
  /\ phases.checkpointStart <= clock /\ phases.restoreStart <= clock
  /\ record[Run].checkpoint <=> phases.checkpointStart # NoStamp
  /\ record[Run].restore <=> phases.restoreStart # NoStamp
  /\ phases.restoreEnd # NoStamp =>
       /\ record[Run].restore
       /\ phases.checkpointStart <= phases.restoreEnd
       /\ phases.restoreStart <= phases.restoreEnd
  /\ record[Run].outcome = "restored" => phases.restoreEnd # NoStamp

\* Which stamps one step of the preemption takes, field by field.
LEMMA StampPhasesEffect ==
  ASSUME LocalTypeOK, StampPhases
  PROVE  /\ phases'.checkpointStart = IF Starts("checkpoint") THEN clock'
                                      ELSE phases.checkpointStart
         /\ phases'.restoreStart = IF Starts("restore") THEN clock' ELSE phases.restoreStart
         /\ phases'.restoreEnd = IF RestoreEnds THEN clock' ELSE phases.restoreEnd
<1>1. CASE Starts("checkpoint") \/ Starts("restore") \/ RestoreEnds
  BY <1>1, Zenon DEF LocalTypeOK, StampPhases
<1>2. CASE ~(Starts("checkpoint") \/ Starts("restore") \/ RestoreEnds)
  BY <1>2, Zenon DEF StampPhases
<1>3. QED BY <1>1, <1>2

\* A step that marks a phase stamps it, and no other step touches the stamps.
LEMMA StampStep ==
  ASSUME P!TypeOK, P!Inv, P!Named, P!TypeOK', P!Inv', P!Named', LocalTypeOK, LocalTypeOK',
         StampInv, [Next]_vars
  PROVE  StampInv'
<1> USE DEF StampInv, NoStamp
<1>1. /\ clock \in Nat /\ clock' \in Nat
      /\ phases.checkpointStart \in Nat /\ phases.restoreStart \in Nat
      /\ phases.restoreEnd \in Nat
  BY DEF LocalTypeOK
<1>2. CASE Drive
  <2>1. StampPhases BY <1>2 DEF Drive, Preempt, Interrupt
  <2>2. clock <= clock' BY <2>1, StampPhasesType
  <2>3. /\ record[Run].checkpoint \in BOOLEAN /\ record[Run].restore \in BOOLEAN
        /\ record'[Run].checkpoint \in BOOLEAN /\ record'[Run].restore \in BOOLEAN
    BY DEF P!TypeOK, P!Record
  <2>4. /\ record[Run].checkpoint => record'[Run].checkpoint
        /\ record[Run].restore => record'[Run].restore
    <3>1. [P!Next]_(P!vars) BY PreemptionStep, SamePreemption
    <3>2. P!LocalTypeOK BY RunTypes
    <3>3. QED BY <3>1, <3>2, Assumed, P!MarksStay
  <2>5. /\ record[Run].restore => record[Run].checkpoint
        /\ record'[Run].restore => record'[Run].checkpoint
    BY DEF P!Named, P!NamedOf
  <2>6. record'[Run].outcome = "restored" /\ record[Run].outcome # "restored" => RestoreEnds
    <3>1. SUFFICES ASSUME record'[Run].outcome = "restored", record[Run].outcome # "restored"
                   PROVE  RestoreEnds
      OBVIOUS
    <3>2. [P!Next]_(P!vars) BY PreemptionStep, SamePreemption
    <3>3. pc[Run] = "inspect" BY <3>1, <3>2, Assumed, P!OnlyInspectRestores
    <3>4. record[Run].outcome = "none" BY <3>3 DEF P!Named, P!NamedOf, P!Body
    <3>5. record'[Run].restore BY <3>1 DEF P!Inv, P!InvOf, P!MarkedOf
    <3>6. QED BY <3>1, <3>3, <3>4, <3>5 DEF RestoreEnds
  <2>7. RestoreEnds => record'[Run].restore BY DEF RestoreEnds
  <2>8. QED
    BY <1>1, <2>1, <2>2, <2>3, <2>4, <2>5, <2>6, <2>7, StampPhasesEffect DEF Starts
<1>3. CASE ~Drive
  <2>1. record' = record BY <1>3, RecordFrame
  <2>2. phases' = phases /\ clock <= clock'
    BY <1>1, <1>3
    DEF Next, MainStep, Drive, WorkerStep, RecordRequest, Send, TransportReturns, RecordResponse,
        AppendRaises, IssueRequest, InlineReturns, WritePlaceholders, PreemptionLeft, Join,
        Unwind, PostRestoreProbe, Classify, Dump, Restart, ServerAnswers, ServerDies, Crash,
        Tick, vars
  <2>3. QED BY <1>1, <2>1, <2>2
<1>4. QED BY <1>2, <1>3

\* The stamps tell which phases were attempted, in every reachable state.
LEMMA StampInvariant == Spec => []StampInv
<1>1. Init => StampInv
  BY DEF Init, StampInv, NoStamp, Smoke!Init
<1>2. QED BY <1>1, StampStep, PreemptionInvariants, LocalTypes, PTL DEF Spec

-----------------------------------------------------------------------------
(***************************************************************************)
(* Where the two threads are, and what their records are                   *)
(***************************************************************************)

\* After the join.
Joined == {"probe", "classify", "classified"}

PlaceInv ==
  /\ mode # "placeholder" => session = "ok"
  /\ mode = "placeholder" \/ main = "start" => worker = "idle"
  /\ mode = "inline" /\ main \in {"preempt", "join"} \cup Joined => worker = "done"
  /\ mode = "concurrent" /\ main \in Joined => worker = "done"
  /\ main \in {"join"} \cup Joined => pc[Run] = "returned"

\* A preemption that the gate refuses attempts nothing.
RefusedInv ==
  mode = "inline" \/ session # "ok" =>
    /\ pc[Run] \in {"gate", "returned", "crashed"}
    /\ ~record[Run].checkpoint
    /\ record[Run].outcome \notin {"restored"} \cup Failures

\* The records are those of the one request, stamp for stamp.
EvidenceInv ==
  /\ worker \in {"recorded", "waiting", "returned", "done"}
       => request = [status |-> "ok", at |-> inFlight.sent]
  /\ worker = "done" => response = [status |-> answer, at |-> inFlight.answered]
  /\ mode = "placeholder" => response.status # "ok"

\* The verdict stays the one of the records it was made from.
VerdictInv ==
  verdict = IF main # "classified" THEN "none"
            ELSE IF session # "ok" THEN UnavailableClass(session)
            ELSE Classification(record[Run], request, response, phases)

\* base_url ends in /v1 already, so the probe polls /v1/v1/models.
LEMMA NeverReady == ~PostRestoreReady
<1>1. Len(ModelsUrl(BaseUrl)) = 3 /\ Len(ServedModels) = 2
  BY DEF ModelsUrl, BaseUrl, ServedModels
<1>2. QED BY <1>1 DEF PostRestoreReady

\* Neither the mode nor the session's status changes.
LEMMA Fixed ==
  ASSUME [Next]_vars
  PROVE  mode' = mode /\ session' = session
BY DEF Next, MainStep, WorkerStep, IssueRequest, InlineReturns, WritePlaceholders, Preempt,
       Interrupt, PreemptionLeft, Join, Unwind, PostRestoreProbe, Classify, Dump, Restart, ServerAnswers,
       ServerDies, Crash, vars

\* Neither thread gets past the other.
LEMMA PlaceStep ==
  ASSUME P!TypeOK, LocalTypeOK, PlaceInv, [Next]_vars
  PROVE  PlaceInv'
<1> USE DEF PlaceInv, Joined
<1>1. mode' = mode /\ session' = session BY Fixed
<1>2. mode \in Mode /\ pc \in [{Run} -> P!Pc] BY DEF LocalTypeOK, P!TypeOK
<1>3. CASE Drive
  BY <1>1, <1>3 DEF Drive, Preempt, Interrupt, threadVars
<1>4. CASE ~Drive
  <2>1. pc' = pc \/ (Crash /\ main' = "crashed" /\ worker' = worker)
    <3>1. Crash => main' = "crashed" /\ worker' = worker
      BY DEF Crash, threadVars
    <3>2. QED BY <1>4, <3>1, RecordFrame
  <2>2. CASE WorkerStep
    BY <1>1, <2>1, <2>2 DEF WorkerStep, RecordRequest, Send, TransportReturns, RecordResponse,
                            AppendRaises
  <2>3. CASE \/ IssueRequest \/ InlineReturns \/ WritePlaceholders \/ PreemptionLeft
             \/ Join \/ Unwind \/ PostRestoreProbe \/ Classify
    BY <1>1, <1>2, <2>1, <2>3
    DEF IssueRequest, InlineReturns, WritePlaceholders, PreemptionLeft, Join, Unwind,
        PostRestoreProbe, Classify, threadVars, smokeVars, Mode
  <2>4. CASE Dump \/ Restart \/ ServerAnswers \/ ServerDies \/ Crash \/ UNCHANGED vars
    BY <1>1, <2>1, <2>4 DEF Dump, Restart, ServerAnswers, ServerDies, Crash, threadVars, vars
  <2>5. QED BY <1>4, <2>2, <2>3, <2>4 DEF Next, MainStep, Drive
<1>5. QED BY <1>3, <1>4

\* A preemption that is refused never gets past the gate.
LEMMA RefusedStep ==
  ASSUME P!TypeOK, RefusedInv, [Next]_vars
  PROVE  RefusedInv'
<1> USE DEF RefusedInv
<1>1. mode' = mode /\ session' = session BY Fixed
<1>2. CASE Drive
  <2>1. mode = "inline" \/ session # "ok" => Smoke!Refuse(Run)
    BY <1>2 DEF Drive, Preempt, Interrupt, Smoke!Interrupt, Smoke!Body
  <2>2. QED BY <1>1, <2>1, Refused DEF Failures
<1>3. CASE ~Drive
  BY <1>1, <1>3, RecordFrame
<1>4. QED BY <1>2, <1>3

\* The worker's records keep its own stamps, whatever the server does.
LEMMA EvidenceStep ==
  ASSUME LocalTypeOK, PlaceInv, EvidenceInv, [Next]_vars
  PROVE  EvidenceInv'
<1> USE DEF EvidenceInv
<1>1. mode' = mode BY Fixed
<1>2. CASE WorkerStep
  BY <1>1, <1>2 DEF WorkerStep, RecordRequest, Send, TransportReturns, RecordResponse,
                    AppendRaises, LocalTypeOK, PlaceInv
<1>3. CASE WritePlaceholders
  BY <1>1, <1>3 DEF WritePlaceholders, PlaceInv
<1>4. CASE PostRestoreProbe
  <2>1. UNCHANGED <<worker, answer, inFlight, request, response>>
    BY <1>4, NeverReady DEF PostRestoreProbe
  <2>2. QED BY <1>1, <2>1
<1>5. CASE Dump
  <2>1. UNCHANGED <<worker, answer, request, response>>
        /\ inFlight'.sent = inFlight.sent /\ inFlight'.answered = inFlight.answered
    BY <1>5 DEF Dump, LocalTypeOK
  <2>2. QED BY <1>1, <2>1
<1>6. CASE IssueRequest
  BY <1>1, <1>6 DEF IssueRequest
<1>7. CASE \/ InlineReturns \/ Drive \/ PreemptionLeft \/ Join \/ Unwind \/ Classify
           \/ Restart \/ ServerAnswers \/ ServerDies \/ Crash \/ UNCHANGED vars
  BY <1>1, <1>7 DEF InlineReturns, Drive, Preempt, Interrupt, PreemptionLeft, Join, Unwind, Classify, Restart,
                    ServerAnswers, ServerDies, Crash, threadVars, vars
<1>8. QED
  BY <1>2, <1>3, <1>4, <1>5, <1>6, <1>7 DEF Next, MainStep, Drive

\* Nothing that comes after the verdict changes what it was made from.
LEMMA VerdictStep ==
  ASSUME P!TypeOK, LocalTypeOK, PlaceInv, VerdictInv, [Next]_vars
  PROVE  VerdictInv'
<1>1. session' = session BY Fixed
<1>2. CASE Classify
  BY <1>1, <1>2 DEF Classify, VerdictInv, smokeVars, threadVars
<1>3. CASE main # "classified" /\ ~Classify
  <2>1. main' # "classified" /\ verdict' = verdict
    BY <1>3 DEF Next, MainStep, WorkerStep, IssueRequest, InlineReturns, WritePlaceholders,
                Preempt, Interrupt, PreemptionLeft, Join, Unwind, PostRestoreProbe, Dump, Restart,
                ServerAnswers, ServerDies, Crash, vars
  <2>2. QED BY <1>3, <2>1 DEF VerdictInv
<1>4. CASE main = "classified"
  <2>1. pc[Run] = "returned" /\ worker \in {"idle", "done"}
    BY <1>4 DEF PlaceInv, Joined, LocalTypeOK, Mode
  <2>2. ~WorkerStep
    BY <2>1 DEF WorkerStep, RecordRequest, Send, TransportReturns, RecordResponse, AppendRaises
  <2>3. ~MainStep
    BY <1>4 DEF MainStep, IssueRequest, InlineReturns, WritePlaceholders, Preempt,
                PreemptionLeft, Join, Unwind, PostRestoreProbe, Classify
  <2>4. ~Drive /\ ~Crash
    BY <1>4, <2>1 DEF Drive, Preempt, Interrupt, Crash, Smoke!Crash, Smoke!Final
  <2>5. record' = record BY <2>4, RecordFrame
  <2>6. UNCHANGED <<main, verdict, request, response, phases>>
    BY <2>2, <2>3, <2>4 DEF Next, Drive, Dump, Restart, ServerAnswers, ServerDies, threadVars, vars
  <2>7. QED BY <1>1, <1>4, <2>5, <2>6 DEF VerdictInv
<1>5. QED BY <1>2, <1>3, <1>4

\* The inductive invariant behind the theorems that follow.
SequenceInv == StampInv /\ PlaceInv /\ RefusedInv /\ EvidenceInv /\ VerdictInv

\* The five parts hold together in every state of a run, so that a verdict can be
\* traced back from the records to the steps that made them.
THEOREM Invariant == Spec => []SequenceInv
<1>1. Init => PlaceInv /\ RefusedInv /\ EvidenceInv /\ VerdictInv
  BY DEF Init, PlaceInv, Joined, RefusedInv, Failures, EvidenceInv, VerdictInv, NoRecord,
         Smoke!Init
<1>2. QED
  BY <1>1, StampInvariant, PlaceStep, RefusedStep, EvidenceStep, VerdictStep,
     PreemptionInvariants, LocalTypes, PTL
  DEF Spec, SequenceInv

-----------------------------------------------------------------------------
(***************************************************************************)
(* The properties                                                          *)
(***************************************************************************)

\* The pass verdict: the records leave no other run that could have made it.
THEOREM CompletedByTheRecordsHolds == Spec => []CompletedByTheRecords
<1>1. P!TypeOK /\ P!Inv /\ LocalTypeOK /\ SequenceInv => CompletedByTheRecords
  <2> SUFFICES ASSUME P!TypeOK, P!Inv, LocalTypeOK, SequenceInv,
                      verdict = "completed_after_restore"
               PROVE  /\ mode = "concurrent" /\ worker = "done" /\ answer = "ok"
                      /\ record[Run].status = "ok" /\ record[Run].outcome = "restored"
                      /\ inFlight.sent <= phases.checkpointStart
                      /\ phases.checkpointStart <= phases.restoreEnd
                      /\ phases.restoreEnd <= inFlight.answered
    BY DEF CompletedByTheRecords
  <2> USE DEF SequenceInv
  <2>1. /\ main = "classified" /\ session = "ok"
        /\ Classification(record[Run], request, response, phases) = "completed_after_restore"
    BY DEF VerdictInv, UnavailableClass
  <2>2. /\ record[Run].status = "ok"
        /\ CompletedAfterRestore(response, phases) /\ StartedBeforeCheckpoint(request, phases)
    <3>1. record[Run].status \in Status BY RunTypes
    <3>2. QED BY <2>1, <3>1 DEF Classification, TimingClass, Status
  <2>3. record[Run].outcome = "restored" /\ record[Run].checkpoint
    BY <2>2 DEF P!Inv, P!InvOf, P!MarkedOf
  <2>4. mode = "concurrent" /\ worker = "done"
    BY <2>1, <2>2, <2>3 DEF RefusedInv, PlaceInv, Joined, EvidenceInv, CompletedAfterRestore,
                            LocalTypeOK, Mode
  <2>5. /\ request = [status |-> "ok", at |-> inFlight.sent]
        /\ response = [status |-> answer, at |-> inFlight.answered]
    BY <2>4 DEF EvidenceInv
  <2>6. phases.checkpointStart # NoStamp BY <2>3 DEF StampInv
  <2>7. QED
    BY <2>2, <2>3, <2>4, <2>5, <2>6
    DEF CompletedAfterRestore, StartedBeforeCheckpoint, StampInv, LocalTypeOK
<1>2. QED BY <1>1, PreemptionInvariants, LocalTypes, Invariant, PTL

\* A request that survived gets the pass verdict.
THEOREM SurvivorCompletesHolds == Spec => []SurvivorCompletes
<1>1. P!TypeOK /\ P!Inv /\ LocalTypeOK /\ SequenceInv => SurvivorCompletes
  <2> SUFFICES ASSUME P!TypeOK, P!Inv, LocalTypeOK, SequenceInv, main = "classified", Survived
               PROVE  verdict = "completed_after_restore"
    BY DEF SurvivorCompletes
  <2> USE DEF SequenceInv, Survived, LocalTypeOK
  <2>1. verdict = Classification(record[Run], request, response, phases)
    BY DEF VerdictInv, PlaceInv
  <2>2. record[Run].status = "ok" /\ record[Run].checkpoint /\ record[Run].restore
    BY DEF P!Inv, P!InvOf, P!MarkedOf
  <2>3. /\ request = [status |-> "ok", at |-> inFlight.sent]
        /\ response = [status |-> "ok", at |-> inFlight.answered]
    BY DEF EvidenceInv, PlaceInv, Joined
  <2>4. /\ phases.checkpointStart # NoStamp /\ phases.restoreEnd # NoStamp
        /\ phases.restoreStart <= phases.restoreEnd
    BY <2>2 DEF StampInv
  <2>5. TimingClass("restored", request, response, phases) = "completed_after_restore"
    BY <2>3, <2>4 DEF TimingClass, CompletedBeforeRestore, CompletedAfterRestore,
                      StartedBeforeCheckpoint, NoStamp
  <2>6. QED BY <2>1, <2>2, <2>5 DEF Classification
<1>2. QED BY <1>1, PreemptionInvariants, LocalTypes, Invariant, PTL

\* An attempt that failed is reported as a failure.
THEOREM AttemptedFailureIsNamedHolds == Spec => []AttemptedFailureIsNamed
<1>1. P!TypeOK /\ P!Inv /\ P!Named /\ SequenceInv => AttemptedFailureIsNamed
  <2> SUFFICES ASSUME P!TypeOK, P!Inv, P!Named, SequenceInv, main = "classified",
                      record[Run].checkpoint, record[Run].outcome \in Failures
               PROVE  verdict \in {"failed_restore", "runtime_failed", "hung", "not_supported"}
    BY DEF AttemptedFailureIsNamed
  <2>1. verdict = Classification(record[Run], request, response, phases)
    BY DEF SequenceInv, VerdictInv, RefusedInv
  <2>2. record[Run].status \in Status \ {"ok", "skipped"}
    BY RunTypes DEF P!Inv, P!InvOf, P!MarkedOf, P!Named, P!NamedOf, Failures
  <2>3. QED BY <2>1, <2>2 DEF Classification, Failures, Status
<1>2. QED BY <1>1, PreemptionInvariants, Invariant, PTL

-----------------------------------------------------------------------------
(***************************************************************************)
(* What the preemption promises, with a request in flight                  *)
(***************************************************************************)

\* The preemption's records are as honest in the sequence as alone, and its
\* phases are served under their texts and its lease: neither the request's
\* thread nor a server that dies or a second request takes anything of that away.
THEOREM PreemptionPromises ==
  Spec => /\ []Smoke!HonestRecord
          /\ []Smoke!OkMeansRestored
          /\ Smoke!PhaseTextServed
          /\ Smoke!RestoredUnderLease
<1>1. Spec => P!Spec
  BY SamePreemption, PreemptionHolds, PTL DEF Smoke!Spec, P!Spec
<1>2. P!SmokePreemptionAssumption BY Assumed
<1>3. P!Spec => []P!HonestRecord BY <1>2, P!HonestRecordHolds
<1>4. P!Spec => []P!OkMeansRestored BY <1>2, P!OkMeansRestoredHolds
<1>5. P!Spec => P!PhaseTextServed BY <1>2, P!PhaseTextServedHolds
<1>6. P!Spec => P!RestoredUnderLease BY <1>2, P!RestoredUnderLeaseHolds
<1>7. P!HonestRecord => Smoke!HonestRecord
  BY DEF P!HonestRecord, Smoke!HonestRecord
<1>8. P!OkMeansRestored => Smoke!OkMeansRestored
  BY DEF P!OkMeansRestored, Smoke!OkMeansRestored
<1>9. P!PhaseTextServed => Smoke!PhaseTextServed
  <2>1. UNCHANGED P!vars => UNCHANGED Smoke!vars
    BY DEF P!vars, Smoke!vars, P!confVars, Smoke!confVars, P!dockerVars, Smoke!dockerVars
  <2>2. QED BY <2>1, PTL DEF P!PhaseTextServed, Smoke!PhaseTextServed
<1>10. P!RestoredUnderLease => Smoke!RestoredUnderLease
  <2>1. UNCHANGED P!vars => UNCHANGED Smoke!vars
    BY DEF P!vars, Smoke!vars, P!confVars, Smoke!confVars, P!dockerVars, Smoke!dockerVars
  <2>2. QED BY <2>1, PTL DEF P!RestoredUnderLease, Smoke!RestoredUnderLease
<1>11. QED
  BY <1>1, <1>3, <1>4, <1>5, <1>6, <1>7, <1>8, <1>9, <1>10, PTL

\* And so is the host's runc.conf: of three refinements, the sequence's of the
\* preemption, the preemption's of the switcher and the switcher's of the
\* lease, the whole sequence implements ConfLease.
THEOREM SequenceKeepsLease == Spec => P!Runc!LeaseImplemented
<1>1. Spec => P!Spec
  BY SamePreemption, PreemptionHolds, PTL DEF Smoke!Spec, P!Spec
<1>2. P!SmokePreemptionAssumption BY Assumed
<1>3. P!Spec => P!Runc!LeaseImplemented BY <1>2, P!LeaseKept
<1>4. QED BY <1>1, <1>3, PTL
=============================================================================
