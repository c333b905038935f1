------------------------------- MODULE MpsProbe -------------------------------
(***************************************************************************)
(* collect_mps_probe (env_probe/mps.py): finds the MPS control binary and, *)
(* if it is allowed to, starts and quits the host's MPS control daemon,    *)
(* unless the control pipe says that somebody's daemon is already there.   *)
(*                                                                         *)
(* The host has at most one daemon: `nvidia-cuda-mps-control -d` fails     *)
(* beside a running one, and `quit` goes to whichever runs.                *)
(***************************************************************************)
EXTENDS ProbeStatus

VARIABLES
  mpsPc,       \* place in the probe
  mpsStatus,   \* status of its record, "none" until there is one
  daemon,      \* whose MPS daemon runs: the site's (or another run's), the probe's
  pipe,        \* the configured control_pipe_path exists
  late,        \* a command whose client was killed and that may still work
  found        \* history: the daemon that ran when the probe looked still runs

mpsVars == <<mpsPc, mpsStatus, daemon, pipe, late, found>>

MpsTypeOK ==
  /\ mpsPc \in {"idle", "start", "quit", "filed"}
  /\ mpsStatus \in Status \cup {"none"}
  /\ daemon \in {"none", "site", "probe"}
  /\ pipe \in BOOLEAN
  /\ late \in {"none", "start", "quit"}
  /\ found \in BOOLEAN

\* A daemon of the site's makes no pipe at control_pipe_path if the path is
\* misconfigured, and a pipe may be left from a daemon that died.
MpsInit ==
  /\ mpsPc = "idle"
  /\ mpsStatus = "none"
  /\ daemon \in {"none", "site"}
  /\ pipe \in BOOLEAN
  /\ late = "none"
  /\ found = FALSE

File(status) ==
  /\ mpsStatus' = status
  /\ mpsPc' = "filed"

\* shutil.which and the pipe's existence, looked at once, then the three
\* records that touch nothing.
Look ==
  /\ mpsPc = "idle"
  /\ found' = (daemon = "site")
  /\ \E binary, allowed \in BOOLEAN :
       CASE ~binary                     -> File("unsupported")
         [] binary /\ (~allowed \/ pipe) -> File("ok")
         [] OTHER                       -> mpsPc' = "start" /\ UNCHANGED mpsStatus
  /\ UNCHANGED <<daemon, pipe, late>>

\* What `-d` leaves behind.  A client killed at its timeout may have left the
\* daemon to come.
Launch(exit) ==
  \/ /\ exit = "zero" /\ daemon = "none"
     /\ daemon' = "probe" /\ pipe' = TRUE /\ UNCHANGED late
  \/ /\ exit = "expired"
     /\ late' \in {"none", "start"}
     /\ UNCHANGED <<daemon, pipe>>
  \/ /\ exit \in {"nonzero", "incapable", "missing"}
     /\ UNCHANGED <<daemon, pipe, late>>

\* Mutant: what is started is quit on every path, however the start went.
StartDaemonAlwaysQuit ==
  /\ mpsPc = "start"
  /\ \E exit \in Exit : Launch(exit)
  /\ mpsPc' = "quit"
  /\ UNCHANGED <<mpsStatus, found>>

StartDaemon ==
  /\ mpsPc = "start"
  /\ \E exit \in Exit :
       /\ Launch(exit)
       /\ IF exit = "zero" THEN mpsPc' = "quit" /\ UNCHANGED mpsStatus
                           ELSE File(ClassifyCapability(exit))
  /\ UNCHANGED found

\* run_mps_control_command("quit").
Quit(exit) ==
  \/ /\ exit = "zero" /\ daemon # "none"
     /\ daemon' = "none" /\ pipe' = FALSE /\ UNCHANGED late
  \/ /\ exit = "expired"
     /\ late' \in {"none", "quit"}
     /\ UNCHANGED <<daemon, pipe>>
  \/ /\ exit \in {"nonzero", "incapable", "missing"}
     /\ UNCHANGED <<daemon, pipe, late>>

\* Mutant: the result of quit is not classified.
QuitDaemonUnclassified ==
  /\ mpsPc = "quit"
  /\ \E exit \in Exit : Quit(exit)
  /\ File("ok")
  /\ UNCHANGED found

QuitDaemon ==
  /\ mpsPc = "quit"
  /\ \E exit \in Exit : Quit(exit) /\ File(ClassifyCapability(exit))
  /\ UNCHANGED found

MpsStep == Look \/ StartDaemon \/ QuitDaemon

\* A command that outlived its client takes effect.
LateCommand ==
  /\ late # "none"
  /\ late' = "none"
  /\ IF late = "start"
       THEN /\ daemon' = IF daemon = "none" THEN "probe" ELSE daemon
            /\ pipe' = TRUE
       ELSE daemon' = "none" /\ pipe' = FALSE
  /\ UNCHANGED <<mpsPc, mpsStatus, found>>

\* The site, or another run's probe, starts its daemon.
SiteStarts ==
  /\ daemon = "none"
  /\ daemon' = "site"
  /\ pipe' \in {pipe, TRUE}
  /\ UNCHANGED <<mpsPc, mpsStatus, late, found>>

\* The daemon is quit by somebody else, or dies and leaves its pipe.
DaemonEnds ==
  /\ daemon # "none"
  /\ daemon' = "none"
  /\ pipe' \in {pipe, FALSE}
  /\ found' = FALSE
  /\ UNCHANGED <<mpsPc, mpsStatus, late>>

HostStep == LateCommand \/ SiteStarts \/ DaemonEnds
=============================================================================
