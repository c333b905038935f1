----------------------------- MODULE DebugCapture -----------------------------
(***************************************************************************)
(* debug_capture.py: what becomes of a CRIU log that the text of a failed  *)
(* command names, when capture_criu_logs_for_record copies it into the run *)
(* directory.  Redaction and the 256 KiB bound change the copy's text and  *)
(* nothing that is said here.                                              *)
(***************************************************************************)
EXTENDS ProbeStatus

\* The log's copy under criu_logs/: "torn" is one that a failed write left,
\* "open" one that was written but could not be made private.
Copy == {"none", "torn", "open", "whole"}

\* details.diagnostics.criu_logs: absent, or the status of its entry.
Entry == {"none", "ok", "error"}

\* An attempt: the entry it makes, the copy it leaves, and whether an
\* exception left it, in which case nothing is said in the record.
Attempt(entry, copy) == [entry |-> entry, copy |-> copy, raised |-> FALSE]
Raise(copy) == [entry |-> "none", copy |-> copy, raised |-> TRUE]

\* Mutant: the entry says OK as soon as the log was read.
WrittenUnchecked == {Attempt("ok", "whole"), Attempt("ok", "torn")}

\* write_text_artifact over what has been copied: the text, then chmod.
Written == {Attempt("ok", "whole"), Attempt("error", "torn"), Attempt("error", "open")}

\* shutil.copyfile and the handlers of its OSError.  A source that is not
\* there is noticed before the copy is opened.
DirectCopy(there, copy) == IF there THEN Written ELSE {Attempt("error", copy)}

\* A PermissionError: `sudo -n cat` if the path is a trusted one.  Its text is
\* written outside the try, so a failing write leaves the function.
SudoCopy(there, copy) ==
  {Attempt("error", copy)} \cup
  IF there THEN {Attempt("ok", "whole"), Raise("torn"), Raise("open")} ELSE {}

\* capture_criu_logs_for_record: nothing to do for a record that has its
\* entries or names no log; otherwise the capture directory is made first.
CaptureLog(entry, names, there, copy) ==
  IF entry # "none" \/ ~names
    THEN {Attempt(entry, copy)}
    ELSE {Raise(copy)} \cup DirectCopy(there, copy) \cup SudoCopy(there, copy)
=============================================================================
