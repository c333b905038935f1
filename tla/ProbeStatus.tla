----------------------------- MODULE ProbeStatus -----------------------------
(***************************************************************************)
(* The status vocabulary every record of the harness shares (schemas.py)   *)
(* and what utils/command.py run_command makes of a subprocess that        *)
(* finished, failed or was abandoned.  run_command never raises: each way  *)
(* a subprocess can end becomes one of four statuses.                      *)
(***************************************************************************)

\* schemas.py ProbeStatus.
Status == {"ok", "unsupported", "error", "skipped", "timeout"}

\* How a subprocess ends: exit 0; another exit code or an OSError, with
\* ("incapable") or without ("nonzero") one of the texts that tell "this host
\* cannot do it" from "it failed"; killed at timeout_s; executable missing.
Exit == {"zero", "nonzero", "incapable", "expired", "missing"}

\* Only a zero exit is evidence that a command's effect took place.
FailedExit == Exit \ {"zero"}

\* run_command: the status of the CommandResult.
RunCommand(exit) ==
  CASE exit = "zero"    -> "ok"
    [] exit = "expired" -> "timeout"
    [] exit = "missing" -> "unsupported"
    [] OTHER            -> "error"

\* _classify_result(capability_sensitive=True): an error whose text names a
\* capability this host lacks becomes UNSUPPORTED.  Without the flag the
\* command's own status stands.
ClassifyCapability(exit) ==
  IF exit = "incapable" THEN "unsupported" ELSE RunCommand(exit)
=============================================================================
