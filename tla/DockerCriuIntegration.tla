------------------------ MODULE DockerCriuIntegration ------------------------
(***************************************************************************)
(* collect_docker_criu_integration (docker_criu/probe.py): the probe that  *)
(* starts a BusyBox container of its own, checkpoints it, restores it and  *)
(* removes it.  Its record is the prerequisite of every runtime preemption *)
(* (Gate in SmokePreemption).                                              *)
(*                                                                         *)
(* The Docker daemon finishes, or drops, a request whether or not the      *)
(* client is still there; the container's name carries a random token, so  *)
(* nobody else uses it.                                                    *)
(***************************************************************************)
EXTENDS DebugCapture

VARIABLES
  pc,          \* place in the probe
  record,      \* its docker_criu_integration record
  container,   \* the smoke container
  jobs,        \* the daemon's unfinished requests for it
  reply,       \* the answer to the request the probe waits for
  seen,        \* history: the states the container has been in
  log,         \* a failed request left criu's log beside the running task
  copy,        \* that log's copy in the run directory
  tried        \* history: the hook had the log before it

dockerVars == <<container, jobs, reply, seen, log>>
captureVars == <<copy, tried>>
vars == <<pc, record, dockerVars, captureVars>>

Final == {"returned", "raised", "crashed"}
Pc == {"gate", "help", "run", "await_run", "labels", "dump", "await_dump",
       "start", "await_start", "state", "hook", "rm", "await_rm"} \cup Final

\* "created": docker run made it and could not start it.
Container == {"none", "created", "running", "checkpointed", "restored", "exited"}
Job == {"run", "dump", "start", "rm"}

\* status: "none" until a step decides it.  owned: the labels were read and
\* are the experiment's.  state: extracted.container_state.  names: the text
\* of a failed command names criu's log.  cleanup: what became of docker rm -f.
Record == [status : Status \cup {"none"}, owned : BOOLEAN,
           state : {"none", "running", "exited"}, names : BOOLEAN,
           cleanup : {"none", "ok", "failed"}]

TypeOK ==
  /\ pc \in Pc
  /\ record \in Record
  /\ container \in Container
  /\ jobs \subseteq Job
  /\ reply \in Exit \cup {"none"}
  /\ seen \subseteq Container
  /\ log \in BOOLEAN
  /\ copy \in Copy
  /\ tried \in BOOLEAN

Init ==
  /\ pc = "gate"
  /\ record = [status |-> "none", owned |-> FALSE, state |-> "none", names |-> FALSE,
               cleanup |-> "none"]
  /\ container = "none"
  /\ jobs = {}
  /\ reply = "none"
  /\ seen = {}
  /\ log = FALSE
  /\ copy = "none"
  /\ tried = FALSE

(***************************************************************************)
(* The Docker client and daemon                                            *)
(***************************************************************************)

\* A client without a docker executable exits at once.
Request(kind, next) ==
  /\ \/ jobs' = jobs \cup {kind} /\ reply' = "none"
     \/ jobs' = jobs /\ reply' = "missing"
  /\ pc' = next
  /\ UNCHANGED <<record, container, seen, log, captureVars>>

Awaited == [run |-> "await_run", dump |-> "await_dump",
            start |-> "await_start", rm |-> "await_rm"]

\* What a request does to the container when it succeeds: from, to.
Effect == [run   |-> [from |-> {"none"},                to |-> "running"],
           dump  |-> [from |-> {"running", "restored"}, to |-> "checkpointed"],
           start |-> [from |-> {"checkpointed"},        to |-> "restored"],
           rm    |-> [from |-> Container,               to |-> "none"]]

\* Nobody reads the answer to a request that was given up.
Answer(kind, exits) ==
  reply' \in IF pc = Awaited[kind] THEN exits ELSE {reply}

\* criu's log goes with the container, and is written by a criu that fails.
LogAfter(kind, served) ==
  log' \in CASE served /\ kind = "rm"                   -> {FALSE}
             [] ~served /\ kind \in {"dump", "start"}    -> {log, TRUE}
             [] OTHER                                    -> {log}

Serve(kind) ==
  /\ kind \in jobs
  /\ jobs' = jobs \ {kind}
  /\ \/ /\ container \in Effect[kind].from
        /\ container' = Effect[kind].to
        /\ Answer(kind, {"zero"})
        /\ LogAfter(kind, TRUE)
     \/ /\ container' \in IF kind = "run" /\ container = "none" THEN {"none", "created"}
                                                                ELSE {container}
        /\ Answer(kind, {"nonzero", "incapable"})
        /\ IF container = "none" THEN UNCHANGED log ELSE LogAfter(kind, FALSE)
  /\ seen' = seen \cup {container'}
  /\ UNCHANGED <<pc, record, captureVars>>

\* The loop in the container ends: it is killed, or criu restored it badly.
\* containerd may remove the directory of its task.
ContainerDies ==
  /\ container \in {"running", "restored"}
  /\ container' = "exited"
  /\ seen' = seen \cup {"exited"}
  /\ log' \in {log, FALSE}
  /\ UNCHANGED <<pc, record, jobs, reply, captureVars>>

ClientExit == IF reply = "none" THEN "expired" ELSE reply

(***************************************************************************)
(* Before the container exists                                             *)
(***************************************************************************)
Return(status) ==
  /\ record' = [record EXCEPT !.status = status]
  /\ pc' = "returned"

\* The status of the criu_check record decides first.
Prerequisite(criu) ==
  /\ pc = "gate"
  /\ IF criu = "ok" THEN pc' = "help" /\ UNCHANGED record ELSE Return(criu)
  /\ UNCHANGED <<dockerVars, captureVars>>

\* Mutant: the record is finalized without the result's classification.
HelpUnclassified ==
  /\ pc = "help"
  /\ \E exit \in Exit : IF exit = "zero" THEN pc' = "run" /\ UNCHANGED record
                                         ELSE Return(exit)
  /\ UNCHANGED <<dockerVars, captureVars>>

\* docker checkpoint --help.
Help ==
  /\ pc = "help"
  /\ \E exit \in Exit : IF exit = "zero" THEN pc' = "run" /\ UNCHANGED record
                                         ELSE Return(ClassifyCapability(exit))
  /\ UNCHANGED <<dockerVars, captureVars>>

RequestRun == pc = "run" /\ Request("run", "await_run")

RunReturns ==
  /\ pc = "await_run"
  /\ IF ClientExit = "zero" THEN pc' = "labels" /\ UNCHANGED record
                            ELSE Return(RunCommand(ClientExit))
  /\ UNCHANGED <<dockerVars, captureVars>>

\* docker inspect of the labels, their parsing and
\* ensure_experiment_owned_container; `labels` FALSE stands for text that does
\* not parse or is not an experiment's.
InspectLabels ==
  /\ pc = "labels"
  /\ \E exit \in Exit, labels \in BOOLEAN :
       IF exit = "zero" /\ labels
         THEN record' = [record EXCEPT !.owned = TRUE] /\ pc' = "dump"
         ELSE Return(IF exit = "zero" THEN "error" ELSE RunCommand(exit))
  /\ UNCHANGED <<dockerVars, captureVars>>

(***************************************************************************)
(* Checkpoint, restore and removal                                         *)
(***************************************************************************)

\* Mutant: the hook is left out of the failure branches.
FailWithoutHook(status, names) ==
  /\ record' = [record EXCEPT !.status = status, !.names = names]
  /\ pc' = "rm"

\* The status of a failed step stands; _run_debug_capture_hook and
\* _cleanup_owned_container come before the return.
FailWith(status, names) ==
  /\ record' = [record EXCEPT !.status = status, !.names = names]
  /\ pc' = "hook"

\* A docker checkpoint create or docker start that was not OK.  Only an answer
\* of the daemon can name a log; a killed client printed nothing.
FailedRequest(exit) ==
  \E names \in BOOLEAN :
    /\ names => exit \in {"nonzero", "incapable"}
    /\ FailWith(ClassifyCapability(exit), names)

RequestDump == pc = "dump" /\ Request("dump", "await_dump")

\* Mutant: a failed checkpoint returns like a failed docker run.
DumpReturnsKeepingContainer ==
  /\ pc = "await_dump"
  /\ IF ClientExit = "zero" THEN pc' = "start" /\ UNCHANGED record
                            ELSE Return(ClassifyCapability(ClientExit))
  /\ UNCHANGED <<dockerVars, captureVars>>

DumpReturns ==
  /\ pc = "await_dump"
  /\ IF ClientExit = "zero" THEN pc' = "start" /\ UNCHANGED record
                            ELSE FailedRequest(ClientExit)
  /\ UNCHANGED <<dockerVars, captureVars>>

RequestStart == pc = "start" /\ Request("start", "await_start")

\* Mutant: docker start --checkpoint is run without a timeout.
StartReturnsNoTimeout ==
  /\ pc = "await_start"
  /\ reply # "none"
  /\ IF reply = "zero" THEN pc' = "state" /\ UNCHANGED record
                       ELSE FailedRequest(reply)
  /\ UNCHANGED <<dockerVars, captureVars>>

StartReturns ==
  /\ pc = "await_start"
  /\ IF ClientExit = "zero" THEN pc' = "state" /\ UNCHANGED record
                            ELSE FailedRequest(ClientExit)
  /\ UNCHANGED <<dockerVars, captureVars>>

\* docker inspect of State.Status; the state is recorded, whatever it is.
InspectState ==
  /\ pc = "state"
  /\ \E exit \in Exit :
       IF exit = "zero"
         THEN /\ record' = [record EXCEPT !.state =
                              IF container = "restored" THEN "running" ELSE "exited"]
              /\ pc' = "rm"
         ELSE FailWith(RunCommand(exit), FALSE)
  /\ UNCHANGED <<dockerVars, captureVars>>

\* The hook gets a record of its own, finalized over a copy of the details: the
\* copied log stays in the run directory, the entry about it is lost with that
\* record.  What the hook raises is caught.
Hook ==
  /\ pc = "hook"
  /\ \E attempt \in CaptureLog("none", record.names, log, copy) : copy' = attempt.copy
  /\ tried' = log
  /\ pc' = "rm"
  /\ UNCHANGED <<record, dockerVars>>

RequestRm == pc = "rm" /\ Request("rm", "await_rm")

\* Mutant: every path shares the last return, which looks at docker rm alone.
RmReturnsLastWord ==
  /\ pc = "await_rm"
  /\ record' = [record EXCEPT !.cleanup = IF ClientExit = "zero" THEN "ok" ELSE "failed",
                              !.status = RunCommand(ClientExit)]
  /\ pc' = "returned"
  /\ UNCHANGED <<dockerVars, captureVars>>

\* The status of a failed step stands; otherwise docker rm decides.
RmReturns ==
  /\ pc = "await_rm"
  /\ record' = [record EXCEPT
       !.cleanup = IF ClientExit = "zero" THEN "ok" ELSE "failed",
       !.status = IF record.status = "none" THEN RunCommand(ClientExit) ELSE @]
  /\ pc' = "returned"
  /\ UNCHANGED <<dockerVars, captureVars>>

\* There is no finally clause: an exception leaves the container where it is.
Interrupt ==
  /\ pc \notin Final
  /\ pc' \in {"raised", "crashed"}
  /\ UNCHANGED <<record, dockerVars, captureVars>>

\* What the probe does once its prerequisite has been looked at.
ProbeStep ==
  \/ Help \/ RequestRun \/ RunReturns \/ InspectLabels
  \/ RequestDump \/ DumpReturns \/ RequestStart \/ StartReturns \/ InspectState
  \/ Hook \/ RequestRm \/ RmReturns

DaemonStep == ContainerDies \/ \E kind \in Job : Serve(kind)

Next == (\E criu \in Status : Prerequisite(criu)) \/ ProbeStep \/ Interrupt \/ DaemonStep

Spec == Init /\ [][Next]_vars

-----------------------------------------------------------------------------
(***************************************************************************)
(* Properties                                                              *)
(***************************************************************************)

\* Once the probe knows the container is its own, it does not return over a
\* surviving container without saying so: the removal it records as OK is
\* final even when a dump or a start it gave up on is still with the daemon.
NoSilentLeak ==
  pc = "returned" /\ record.owned /\ container # "none" => record.cleanup = "failed"

\* Status OK, the prerequisite of the runtime preemption, means one complete
\* round trip: the container was dumped, came back from the dump, is removed,
\* and the daemon has nothing left to do for it.
OkMeansRoundTrip ==
  record.status = "ok" =>
    /\ {"checkpointed", "restored"} \subseteq seen
    /\ container = "none" /\ jobs = {}

\* A log that the record names is not deleted with the container before the
\* probe has tried to save it: in every failure branch, whichever client or
\* daemon is late, the hook comes first.
EvidenceBeforeRemoval ==
  [][record.names /\ log /\ container # "none" /\ container' = "none" => tried]_vars
=============================================================================
