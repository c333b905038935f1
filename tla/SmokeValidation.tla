--------------------------- MODULE SmokeValidation ---------------------------
(***************************************************************************)
(* classify_smoke_validation (validation/smoke.py): the final verdict of a *)
(* run, from the preemption record and from where the time stamps of the   *)
(* last request and response records fall among those of the two phases.   *)
(***************************************************************************)
EXTENDS Naturals

\* schemas.py SmokeClassification, without its common prefix.
SmokeClass == {"completed_after_restore", "replayed", "failed_restore",
               "runtime_failed", "hung", "not_supported", "not_attempted"}

\* monotonic_ns of an event that was not recorded.
NoStamp == 0

\* Mutant: only UNSUPPORTED is mapped.
UnavailableClassRaw(status) ==
  IF status = "unsupported" THEN "not_supported" ELSE status

\* runtime_adapters/base.py _UNAVAILABLE_CLASSIFICATION: the verdict a session
\* that never became ready brings with it.
UnavailableClass(status) ==
  IF status = "unsupported" THEN "not_supported" ELSE "not_attempted"

(***************************************************************************)
(* _smoke_response_evidence.  A request or response record is              *)
(* [status, at]; "phases" holds the stamps of the preemption record.       *)
(***************************************************************************)
StartedBeforeCheckpoint(request, phases) ==
  /\ request.status = "ok"
  /\ LET mark == IF phases.checkpointStart # NoStamp THEN phases.checkpointStart
                                                     ELSE phases.restoreStart
     IN  mark # NoStamp /\ request.at <= mark

CompletedBeforeRestore(response, phases) ==
  /\ response.status = "ok"
  /\ phases.restoreStart # NoStamp
  /\ response.at < phases.restoreStart

\* Mutant: the restore phase's start is taken for its end.
CompletedAfterRestoreStart(response, phases) ==
  /\ response.status = "ok"
  /\ phases.restoreStart # NoStamp
  /\ response.at >= phases.restoreStart

CompletedAfterRestore(response, phases) ==
  /\ response.status = "ok"
  /\ phases.restoreEnd # NoStamp
  /\ response.at >= phases.restoreEnd

\* An OK preemption is judged by its timing alone.
TimingClass(outcome, request, response, phases) ==
  IF \/ CompletedBeforeRestore(response, phases)
     \/ ~CompletedAfterRestore(response, phases)
     \/ ~StartedBeforeCheckpoint(request, phases)  THEN "not_attempted"
  ELSE IF outcome = "replayed"                     THEN "replayed"
  ELSE "completed_after_restore"

\* Mutant: an ERROR whose outcome is not one of the known ones counts as a
\* preemption that was not attempted.
ClassificationKnownOutcomes(preemption, request, response, phases) ==
  IF preemption.status = "error" /\ preemption.outcome = "runtime_failed" THEN "runtime_failed"
  ELSE IF preemption.outcome \in {"checkpoint_failed", "restore_failed"}   THEN "failed_restore"
  ELSE IF preemption.status = "timeout"                                    THEN "hung"
  ELSE IF preemption.status # "ok"                                         THEN "not_attempted"
  ELSE TimingClass(preemption.outcome, request, response, phases)

\* The early returns of classify_smoke_validation in their order, for a run
\* whose session was ready; `preemption` is [status, outcome, checkpoint,
\* restore], the last two telling whether the phase was attempted.
Classification(preemption, request, response, phases) ==
  IF preemption.status = "unsupported" \/ preemption.outcome = "not_supported"
    THEN "not_supported"
  ELSE IF \/ preemption.status = "skipped"
          \/ preemption.outcome = "not_attempted"
          \/ ~preemption.checkpoint /\ ~preemption.restore
    THEN "not_attempted"
  ELSE IF preemption.status = "timeout" \/ preemption.outcome = "hung" THEN "hung"
  ELSE IF preemption.status = "error"
    THEN IF preemption.outcome = "runtime_failed" THEN "runtime_failed" ELSE "failed_restore"
  ELSE TimingClass(preemption.outcome, request, response, phases)
=============================================================================
