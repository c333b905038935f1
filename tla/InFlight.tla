------------------------------- MODULE InFlight -------------------------------
(***************************************************************************)
(* The middle of _run_real_sequence (v0_orchestrator.py): one chat request *)
(* sent from a worker thread while the main thread checkpoints and         *)
(* restores the container that serves it (SmokePreemption), then the join, *)
(* the post-restore probe and the classification.                          *)
(*                                                                         *)
(* Every record carries a monotonic stamp taken by the thread that makes   *)
(* it, when that thread gets to run; what the server and the container did *)
(* in the meantime is not stamped by anybody.                              *)
(***************************************************************************)
EXTENDS ProbeStatus, SmokeValidation, Sequences

CONSTANTS Run, NoProc, SiteText

ASSUME InFlightAssumption == NoProc # Run /\ SiteText \in {"absent", "site"}

VARIABLES
  switching, conf, lock, handle, stage, original, report, pc, record, raising,  \* of SmokePreemption
  container, job, reply,
  main,        \* place of the main thread
  mode,        \* how the request is issued
  session,     \* status of the runtime session
  worker,      \* place of the request thread
  server,      \* where the request is on the server's side
  request,     \* last line of smoke_request.jsonl
  response,    \* last line of smoke_response.jsonl
  phases,      \* stamps of the preemption record
  clock,       \* time.monotonic_ns
  verdict,     \* classification in smoke_validation.json
  answer,      \* what the transport gave the worker
  inFlight     \* history of that one request: its two stamps, and whether
               \* the server held it when criu dumped the container

smokeVars  == <<switching, conf, lock, handle, stage, original, report, pc, record, raising,
                container, job, reply>>
threadVars == <<worker, server, answer, request, response, inFlight>>
vars == <<smokeVars, main, mode, session, threadVars, phases, clock, verdict>>

Smoke == INSTANCE SmokePreemption WITH Proc <- {Run}, NoSudo <- {}

Up == container[Run] \in {"running", "restored"}

NoRecord == [status |-> "none", at |-> NoStamp]
JsonLine == [status : Status \cup {"none"}, at : Nat]

\* "concurrent": the integration probe was OK and the session names a
\* container, so the request goes to a thread.  "inline": it is sent before
\* the preemption.  "placeholder": the session is not OK or no model is set.
Mode == {"concurrent", "inline", "placeholder"}

TypeOK ==
  /\ Smoke!TypeOK
  /\ main \in {"start", "inline", "preempt", "join", "probe", "classify",
               "unwind", "classified", "raised", "crashed"}
  /\ mode \in Mode
  /\ session \in Status
  /\ worker \in {"idle", "queued", "recorded", "waiting", "returned", "done", "raised"}
  /\ server \in {"none", "held", "answered", "lost"}
  /\ request \in JsonLine /\ response \in JsonLine
  /\ phases \in [checkpointStart : Nat, restoreStart : Nat, restoreEnd : Nat]
  /\ clock \in Nat
  /\ verdict \in SmokeClass \cup {"none"}
  /\ answer \in {"none", "ok", "error", "timeout"}
  /\ inFlight \in [sent : Nat, answered : Nat, dumped : BOOLEAN]

Init ==
  /\ Smoke!Init
  /\ container[Run] = "running"
  /\ main = "start"
  /\ mode \in Mode
  /\ session \in IF mode = "placeholder" THEN {"ok", "unsupported", "timeout"} ELSE {"ok"}
  /\ worker = "idle"
  /\ server = "none"
  /\ request = NoRecord /\ response = NoRecord
  /\ phases = [checkpointStart |-> NoStamp, restoreStart |-> NoStamp, restoreEnd |-> NoStamp]
  /\ clock = 1
  /\ verdict = "none"
  /\ answer = "none"
  /\ inFlight = [sent |-> NoStamp, answered |-> NoStamp, dumped |-> FALSE]

\* Reads the clock, which may or may not have advanced since the last reading.
Tick == clock' \in {clock, clock + 1}

(***************************************************************************)
(* The request thread: LLMSmokeClient.send_smoke_request                   *)
(***************************************************************************)

\* The request record is stamped and appended before anything is sent.
RecordRequest ==
  /\ worker = "queued"
  /\ Tick
  /\ request' = [status |-> "ok", at |-> clock']
  /\ inFlight' = [inFlight EXCEPT !.sent = clock']
  /\ worker' = "recorded"
  /\ UNCHANGED <<server, answer, response>>

\* self.transport: the server takes the request, or refuses the connection.
Send ==
  /\ worker = "recorded"
  /\ IF Up THEN worker' = "waiting" /\ server' = "held" /\ UNCHANGED answer
           ELSE worker' = "returned" /\ answer' = "error" /\ UNCHANGED server
  /\ UNCHANGED <<clock, request, response, inFlight>>

\* Mutant: the request is sent without timeout_s.
TransportReturnsNoTimeout ==
  /\ worker = "waiting"
  /\ server # "held"
  /\ answer' = IF server = "answered" THEN "ok" ELSE "error"
  /\ worker' = "returned"
  /\ UNCHANGED <<clock, server, request, response, inFlight>>

\* The transport returns the answer, or raises: a connection broken by the
\* dump, an unusable answer, a server that is gone, or timeout_s.
TransportReturns ==
  /\ worker = "waiting"
  /\ answer' \in {"ok", "error", "timeout"}
  /\ answer' = "ok" => server = "answered"
  /\ worker' = "returned"
  /\ UNCHANGED <<clock, server, request, response, inFlight>>

\* The response record is stamped when the thread runs again.
RecordResponse ==
  /\ worker = "returned"
  /\ Tick
  /\ response' = [status |-> answer, at |-> clock']
  /\ inFlight' = [inFlight EXCEPT !.answered = clock']
  /\ worker' = "done"
  /\ UNCHANGED <<server, answer, request>>

\* append_jsonl fails; send_smoke_request only guards the transport.
AppendRaises ==
  /\ worker \in {"queued", "returned"}
  /\ worker' = "raised"
  /\ UNCHANGED <<clock, server, answer, request, response, inFlight>>

WorkerStep ==
  /\ main # "crashed"
  /\ RecordRequest \/ Send \/ TransportReturns \/ RecordResponse \/ AppendRaises
  /\ UNCHANGED <<smokeVars, main, mode, session, phases, verdict>>

(***************************************************************************)
(* The main thread up to the preemption                                    *)
(***************************************************************************)
IssueRequest ==
  /\ main = "start"
  /\ mode # "placeholder"
  /\ worker' = "queued"
  /\ main' = IF mode = "concurrent" THEN "preempt" ELSE "inline"
  /\ UNCHANGED <<smokeVars, mode, session, server, answer, request, response, inFlight,
                 phases, clock, verdict>>

\* send_smoke_request called directly: the main thread waits for it.
InlineReturns ==
  /\ main = "inline"
  /\ worker \in {"done", "raised"}
  /\ main' = IF worker = "done" THEN "preempt" ELSE "raised"
  /\ UNCHANGED <<smokeVars, mode, session, threadVars, phases, clock, verdict>>

\* _write_smoke_placeholder_records: the session's status, or SKIPPED when
\* the session is ready and no model is configured.
WritePlaceholders ==
  /\ main = "start"
  /\ mode = "placeholder"
  /\ Tick
  /\ LET line == [status |-> IF session = "ok" THEN "skipped" ELSE session, at |-> clock']
     IN  request' = line /\ response' = line
  /\ main' = "preempt"
  /\ UNCHANGED <<smokeVars, mode, session, worker, server, answer, inFlight, phases, verdict>>

(***************************************************************************)
(* collect_smoke_preemption, with the stamps of _mark_phase_start and      *)
(* _mark_phase_end, and what it does to the request the server holds       *)
(***************************************************************************)
Starts(phase) == record'[Run][phase] /\ ~record[Run][phase]

\* The restore phase ends where its outcome is decided; the finally clause
\* that may rewrite the outcome later stamps nothing.
RestoreEnds ==
  /\ record'[Run].restore
  /\ record[Run].outcome = "none" /\ record'[Run].outcome # "none"
  /\ pc[Run] # "release"

StampPhases ==
  IF Starts("checkpoint") \/ Starts("restore") \/ RestoreEnds
    THEN /\ Tick
         /\ phases' = [phases EXCEPT
              !.checkpointStart = IF Starts("checkpoint") THEN clock' ELSE @,
              !.restoreStart    = IF Starts("restore") THEN clock' ELSE @,
              !.restoreEnd      = IF RestoreEnds THEN clock' ELSE @]
    ELSE UNCHANGED <<phases, clock>>

\* An inline request means the integration probe was not OK or there is no
\* container: the gate refuses, as it does for a session that is not OK.
Preempt ==
  /\ main = "preempt"
  /\ pc[Run] \notin Smoke!Final
  /\ IF mode = "inline" \/ session # "ok" THEN Smoke!Refuse(Run) ELSE Smoke!RunStep(Run)
  /\ StampPhases
  /\ UNCHANGED <<switching, main, mode, session, threadVars, verdict>>

\* An exception in the preemption's body; nobody can count on one.
Interrupt ==
  /\ main = "preempt"
  /\ Smoke!Interrupt(Run)
  /\ StampPhases
  /\ UNCHANGED <<switching, main, mode, session, threadVars, verdict>>

\* The image holds whatever the server held.
Dump ==
  /\ Smoke!DaemonDumps(Run)
  /\ inFlight' = [inFlight EXCEPT !.dumped =
                    @ \/ (container'[Run] = "checkpointed" /\ server = "held")]
  /\ UNCHANGED <<switching, main, mode, session, worker, server, answer, request, response,
                 phases, clock, verdict>>

Restart ==
  /\ Smoke!DaemonStarts(Run)
  /\ UNCHANGED <<switching, main, mode, session, threadVars, phases, clock, verdict>>

\* The model answers; a stopped container does not.
ServerAnswers ==
  /\ server = "held"
  /\ Up
  /\ server' = "answered"
  /\ UNCHANGED <<smokeVars, main, mode, session, worker, answer, request, response, inFlight,
                 phases, clock, verdict>>

ServerDies ==
  /\ Smoke!RuntimeDies(Run)
  /\ server' = IF server = "held" THEN "lost" ELSE server
  /\ UNCHANGED <<switching, main, mode, session, worker, answer, request, response, inFlight,
                 phases, clock, verdict>>

Crash ==
  /\ Smoke!Crash(Run)
  /\ main' = "crashed"
  /\ UNCHANGED <<switching, mode, session, threadVars, phases, clock, verdict>>

(***************************************************************************)
(* The main thread after the preemption                                    *)
(***************************************************************************)
PreemptionLeft ==
  /\ main = "preempt"
  /\ pc[Run] \in {"returned", "raised"}
  /\ main' = IF pc[Run] = "returned" THEN "join" ELSE "unwind"
  /\ UNCHANGED <<smokeVars, mode, session, threadVars, phases, clock, verdict>>

\* smoke_request_future.result(), when there is a future.
Join ==
  /\ main = "join"
  /\ mode = "concurrent" => worker \in {"done", "raised"}
  /\ main' = IF mode = "concurrent" /\ worker = "raised" THEN "unwind" ELSE "probe"
  /\ UNCHANGED <<smokeVars, mode, session, threadVars, phases, clock, verdict>>

\* An exception waits for the thread in executor.shutdown(wait=True).
Unwind ==
  /\ main = "unwind"
  /\ worker \in {"idle", "done", "raised"}
  /\ main' = "raised"
  /\ UNCHANGED <<smokeVars, mode, session, threadVars, phases, clock, verdict>>

\* URLs as sequences of path segments.  Both adapters hand out a base_url
\* that ends in /v1, and the servers serve /v1/models.
BaseUrl == <<"v1">>
ServedModels == <<"v1", "models">>

\* Mutant: the segment base_url already has is not repeated.
ModelsUrlOnce(base) == base \o <<"models">>

\* _probe_post_restore_readiness: f"{base_url}/v1/models".
ModelsUrl(base) == base \o <<"v1", "models">>

\* The probe polls until the model list is served or its deadline has passed;
\* after a good poll a second request appends to the same two files.  What the
\* poll does not catch, or a failing append, ends the run.
PostRestoreReady == Up /\ ModelsUrl(BaseUrl) = ServedModels

PostRestoreProbe ==
  /\ main = "probe"
  /\ \E enabled \in BOOLEAN :
       IF /\ enabled /\ record[Run].outcome = "restored"
          /\ mode # "placeholder" /\ PostRestoreReady
         THEN /\ Tick
              /\ request' = [status |-> "ok", at |-> clock']
              /\ \E status \in {"ok", "error"} : response' = [status |-> status, at |-> clock']
         ELSE UNCHANGED <<clock, request, response>>
  /\ main' \in {"classify", "raised"}
  /\ UNCHANGED <<smokeVars, mode, session, worker, server, answer, inFlight, phases, verdict>>

\* classify_smoke_validation on the last line of each file.  The annotation
\* made before it stores the same comparisons in the preemption record.
Classify ==
  /\ main = "classify"
  /\ verdict' = IF session # "ok" THEN UnavailableClass(session)
                ELSE Classification(record[Run], request, response, phases)
  /\ main' = "classified"
  /\ UNCHANGED <<smokeVars, mode, session, threadVars, phases, clock>>

MainStep ==
  \/ IssueRequest \/ InlineReturns \/ WritePlaceholders \/ Preempt
  \/ PreemptionLeft \/ Join \/ Unwind \/ PostRestoreProbe \/ Classify

Next ==
  \/ MainStep \/ Interrupt \/ WorkerStep
  \/ Dump \/ Restart \/ ServerAnswers \/ ServerDies \/ Crash

Spec == Init /\ [][Next]_vars

\* Both threads run, and every call they block in has a timeout.  Nothing is
\* assumed of the Docker daemon, and of the model server only that it does not
\* send its answer a few bytes at a time: urlopen's timeout is per read.
FairSpec == Spec /\ WF_vars(MainStep) /\ WF_vars(WorkerStep)

-----------------------------------------------------------------------------
(***************************************************************************)
(* Properties                                                              *)
(***************************************************************************)

\* The pass verdict is only given to a run whose preemption returned
\* "restored" and whose own in-flight request was stamped before the
\* checkpoint and answered OK after the restore.
CompletedByTheRecords ==
  verdict = "completed_after_restore" =>
    /\ mode = "concurrent" /\ worker = "done" /\ answer = "ok"
    /\ record[Run].status = "ok" /\ record[Run].outcome = "restored"
    /\ inFlight.sent <= phases.checkpointStart
    /\ phases.checkpointStart <= phases.restoreEnd
    /\ phases.restoreEnd <= inFlight.answered

\* A request that was on record before the checkpoint, survived it and was
\* answered OK after the restore does get the pass verdict: no later step of
\* the run replaces its evidence.
Survived ==
  /\ mode = "concurrent" /\ record[Run].outcome = "restored" /\ answer = "ok"
  /\ inFlight.sent <= phases.checkpointStart
  /\ inFlight.answered >= phases.restoreEnd

SurvivorCompletes ==
  main = "classified" /\ Survived => verdict = "completed_after_restore"

Failures == {"checkpoint_failed", "restore_failed", "runtime_failed", "hung", "cleanup_failed"}

\* A preemption that got as far as its checkpoint phase and failed, hung or
\* could not clean up is never reported as a success or as never attempted.
AttemptedFailureIsNamed ==
  main = "classified" /\ record[Run].checkpoint /\ record[Run].outcome \in Failures
    => verdict \in {"failed_restore", "runtime_failed", "hung", "not_supported"}

\* The main thread always gets to a verdict or leaves by an exception: it can
\* hang neither in the preemption, with a daemon that never answers, nor in the
\* join, with a server that never does.  Nor does it keep the next run from the
\* host's runc.conf: the lock it waited under is given back by then, with the
\* rest of the run still to come, or its report says that release failed.
RunIsClassified ==
  <>(/\ main \in {"classified", "raised", "crashed"}
     /\ lock = Run => "release" \in report[Run])

\* README.md, verification layers: "The request was already in flight before
\* checkpoint/restore timing and produced a successful response after restore
\* completion."  The server held the request when the container was dumped.
CompletedWasInFlight == verdict = "completed_after_restore" => inFlight.dumped
=============================================================================
