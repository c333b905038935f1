---------------------------- MODULE RuntimeAdapter ----------------------------
(***************************************************************************)
(* start and stop of VLLMRuntimeAdapter and LlamaCppRuntimeAdapter, called *)
(* from _run_real_sequence: the server an experiment run talks to, and the *)
(* container it runs in.  The adapters differ in what they put on the      *)
(* command line, in the prefix and the component label by which they know  *)
(* a container of theirs, and in that llama.cpp has no second docker run.  *)
(*                                                                         *)
(* Several runs share one Docker daemon, which knows containers by name.   *)
(* A name may be configured (docker_server.container_name), so two runs    *)
(* may use the same one, and a configured name need not have the prefix    *)
(* without which stop refuses to remove it.  Only the labels tell whose a  *)
(* container is, and they are read for "an experiment's with this          *)
(* adapter", not for "this run's".                                         *)
(***************************************************************************)
EXTENDS ProbeStatus

CONSTANTS
  Run,         \* experiment runs
  Setups,      \* the ways their adapters may be configured
  Name,        \* container names
  Nobody,      \* the creator of no container
  Stranger,    \* creator of containers without experiment labels
  Occupied,    \* names that a stranger's container has
  Prefixed,    \* of each adapter: the names that begin with its
               \* EXPERIMENT_CONTAINER_NAME_PREFIX
  GpuFallback  \* the runs whose gpu_mode, if they are vLLM's, makes them retry
               \* docker run with the nvidia runtime

\* The adapters, which are also the components on the containers' labels.
Adapter == {"vllm", "llama_cpp"}

ASSUME RuntimeAdapterAssumption ==
  /\ Setups \subseteq [Run -> Adapter]
  /\ Nobody \notin Run /\ Stranger \notin Run /\ Nobody # Stranger
  /\ Occupied \subseteq Name
  /\ Prefixed \in [Adapter -> SUBSET Name]
  /\ Prefixed["vllm"] \cap Prefixed["llama_cpp"] = {}
  /\ GpuFallback \subseteq Run

VARIABLES
  adapter,     \* each run's adapter; never changes, nor does named
  named,       \* the container name each run is configured for or generated
  pc,          \* place of each run
  session,     \* the RuntimeSession that start returned
  teardown,    \* status of the runtime_teardown record, "none" without one
  creator,     \* who created the container of that name
  alive,       \* is it running?
  jobs,        \* the daemon's unfinished requests: <<run, "run" or "rm">>
  reply        \* the answer to the request each run waits for

configVars == <<adapter, named>>
dockerVars == <<creator, alive, jobs, reply>>
vars == <<configVars, pc, session, teardown, dockerVars>>

\* "raised": left by an exception; "done": left after stop.
Pc == {"start", "image", "pull", "run", "await_run", "retry", "await_retry", "ready",
       "use", "stop", "rm", "await_rm", "done", "raised", "crashed"}
Final == {"done", "raised", "crashed"}

Mode == {"external_server", "docker_server", "skipped"}

\* status "none": start has not returned.
NoSession == [mode |-> "skipped", status |-> "none"]
Session == [mode : Mode, status : Status \cup {"none"}]

TypeOK ==
  /\ adapter \in [Run -> Adapter]
  /\ named \in [Run -> Name]
  /\ pc \in [Run -> Pc]
  /\ session \in [Run -> Session]
  /\ teardown \in [Run -> Status \cup {"none"}]
  /\ creator \in [Name -> Run \cup {Nobody, Stranger}]
  /\ alive \in [Name -> BOOLEAN]
  /\ jobs \subseteq Run \X {"run", "rm"}
  /\ reply \in [Run -> Exit \cup {"none"}]

Init ==
  /\ adapter \in Setups
  /\ named \in [Run -> Name]
  /\ pc = [r \in Run |-> "start"]
  /\ session = [r \in Run |-> NoSession]
  /\ teardown = [r \in Run |-> "none"]
  /\ creator = [n \in Name |-> IF n \in Occupied THEN Stranger ELSE Nobody]
  /\ alive = [n \in Name |-> n \in Occupied]
  /\ jobs = {}
  /\ reply = [r \in Run |-> "none"]

Goto(r, next) == pc' = [pc EXCEPT ![r] = next]

\* start returns a session; the body of the try block begins.
Return(r, mode, status) ==
  /\ session' = [session EXCEPT ![r] = [mode |-> mode, status |-> status]]
  /\ Goto(r, "use")
  /\ UNCHANGED <<configVars, teardown, dockerVars>>

Continue(r, next) ==
  /\ Goto(r, next)
  /\ UNCHANGED <<configVars, session, teardown, dockerVars>>

(***************************************************************************)
(* The Docker daemon                                                       *)
(***************************************************************************)

\* A client without a docker executable exits at once.
Request(r, kind, next) ==
  /\ \/ jobs' = jobs \cup {<<r, kind>>} /\ reply' = [reply EXCEPT ![r] = "none"]
     \/ jobs' = jobs /\ reply' = [reply EXCEPT ![r] = "missing"]
  /\ Goto(r, next)
  /\ UNCHANGED <<configVars, session, teardown, creator, alive>>

\* Nobody reads the answer to a request that was given up.
Answer(r, kind, exits) ==
  \E exit \in exits :
    reply' = IF pc[r] \in (IF kind = "run" THEN {"await_run", "await_retry"} ELSE {"await_rm"})
               THEN [reply EXCEPT ![r] = exit] ELSE reply

\* docker run: refused when the name is taken; a container that cannot be
\* started keeps its name.
ServeRun(r) ==
  LET n == named[r] IN
  /\ <<r, "run">> \in jobs
  /\ jobs' = jobs \ {<<r, "run">>}
  /\ \/ /\ creator[n] = Nobody
        /\ creator' = [creator EXCEPT ![n] = r]
        /\ \/ alive' = [alive EXCEPT ![n] = TRUE] /\ Answer(r, "run", {"zero"})
           \/ alive' = alive /\ Answer(r, "run", {"nonzero"})
     \/ /\ UNCHANGED <<creator, alive>>
        /\ Answer(r, "run", {"nonzero"})
  /\ UNCHANGED <<configVars, pc, session, teardown>>

\* docker rm -f, by name.
ServeRm(r) ==
  LET n == named[r] IN
  /\ <<r, "rm">> \in jobs
  /\ jobs' = jobs \ {<<r, "rm">>}
  /\ \/ /\ creator' = [creator EXCEPT ![n] = Nobody]
        /\ alive' = [alive EXCEPT ![n] = FALSE]
        /\ Answer(r, "rm", {"zero"})
     \/ /\ UNCHANGED <<creator, alive>>
        /\ Answer(r, "rm", {"nonzero"})
  /\ UNCHANGED <<configVars, pc, session, teardown>>

ServerDies(n) ==
  /\ alive[n]
  /\ alive' = [alive EXCEPT ![n] = FALSE]
  /\ UNCHANGED <<configVars, pc, session, teardown, creator, jobs, reply>>

ClientExit(r) == IF reply[r] = "none" THEN "expired" ELSE reply[r]

(***************************************************************************)
(* start                                                                   *)
(***************************************************************************)

\* An external server, a Docker server, an incomplete Docker configuration
\* (no model), or nothing configured.
Start(r) ==
  /\ pc[r] = "start"
  /\ \/ /\ session' = [session EXCEPT ![r].mode = "external_server"]
        /\ Goto(r, "ready")
        /\ UNCHANGED <<configVars, teardown, dockerVars>>
     \/ /\ session' = [session EXCEPT ![r].mode = "docker_server"]
        /\ Goto(r, "image")
        /\ UNCHANGED <<configVars, teardown, dockerVars>>
     \/ Return(r, "docker_server", "error")
     \/ Return(r, "skipped", "skipped")

\* docker image inspect; whatever is not UNSUPPORTED or OK leads to a pull.
InspectImage(r) ==
  /\ pc[r] = "image"
  /\ \E exit \in Exit :
       IF exit = "zero" THEN Continue(r, "run")
       ELSE IF ClassifyCapability(exit) = "unsupported"
         THEN Return(r, "docker_server", "unsupported")
       ELSE Continue(r, "pull")

\* Mutant: the session gets how docker pull ended instead of its status.
PullUnclassified(r) ==
  /\ pc[r] = "pull"
  /\ \E exit \in Exit : IF exit = "zero" THEN Continue(r, "run")
                                         ELSE Return(r, "docker_server", exit)

Pull(r) ==
  /\ pc[r] = "pull"
  /\ \E exit \in Exit : IF exit = "zero" THEN Continue(r, "run")
                        ELSE Return(r, "docker_server", ClassifyCapability(exit))

RequestRun(r) == pc[r] = "run" /\ Request(r, "run", "await_run")

\* Mutant: a name that is in use is taken for a server that is already up.
RunReturnsReusing(r) ==
  /\ pc[r] \in {"await_run", "await_retry"}
  /\ IF \/ ClientExit(r) = "zero"
        \/ ClientExit(r) = "nonzero" /\ creator[named[r]] # Nobody
       THEN Continue(r, "ready")
       ELSE Return(r, "docker_server", RunCommand(ClientExit(r)))

\* llama_cpp.py has no second docker run.
Retries(r) == r \in GpuFallback /\ adapter[r] = "vllm"

\* A first run that failed with the CDI "no known GPU vendor" text is retried
\* under the same name; the last result counts.  The text is the daemon's: only
\* a client that it answered, and that so exits by itself, has it.
RunReturns(r) ==
  /\ pc[r] \in {"await_run", "await_retry"}
  /\ \/ ClientExit(r) = "zero" /\ Continue(r, "ready")
     \/ /\ pc[r] = "await_run" /\ Retries(r)
        /\ ClientExit(r) = "nonzero"
        /\ Continue(r, "retry")
     \/ /\ ClientExit(r) # "zero"
        /\ Return(r, "docker_server", RunCommand(ClientExit(r)))

RequestRetry(r) == pc[r] = "retry" /\ Request(r, "run", "await_retry")

\* Mutant: the readiness poll has no deadline.
ReadyNoDeadline(r) ==
  /\ pc[r] = "ready"
  /\ session[r].mode = "external_server" \/ \E n \in Name : alive[n]
  /\ Return(r, session[r].mode, "ok")

\* readiness_probe polls a port, which any server on the host may answer,
\* until its deadline.
Ready(r) ==
  /\ pc[r] = "ready"
  /\ \/ /\ session[r].mode = "external_server" \/ \E n \in Name : alive[n]
        /\ Return(r, session[r].mode, "ok")
     \/ Return(r, session[r].mode, "timeout")

\* int() of a configured port, an http.client exception that the poll does not
\* catch (a server that breaks off its answer while it comes up), or
\* KeyboardInterrupt: start does not return, so there is no session to stop.
StartRaises(r) ==
  /\ pc[r] \in {"start", "image", "pull", "run", "await_run", "retry", "await_retry", "ready"}
  /\ Goto(r, "raised")
  /\ UNCHANGED <<configVars, session, teardown, dockerVars>>

(***************************************************************************)
(* stop, from the finally clause of _run_real_sequence                     *)
(***************************************************************************)

\* The body ended, by itself or by an exception.
Use(r) == pc[r] = "use" /\ Continue(r, "stop")

Finish(r, status) ==
  /\ teardown' = [teardown EXCEPT ![r] = status]
  /\ Goto(r, "done")
  /\ UNCHANGED <<configVars, session, dockerVars>>

NothingToStop(r) ==
  /\ pc[r] = "stop"
  /\ session[r].mode # "docker_server"
  /\ Continue(r, "done")

\* is_experiment_owned_*_container: the labels of any experiment run with the
\* same adapter will do, under a name with the adapter's prefix.
Owned(r, n) ==
  /\ n \in Prefixed[adapter[r]]
  /\ creator[n] \in {q \in Run : adapter[q] = adapter[r]}

\* Mutant: only the name's prefix is looked at.
InspectLabelsByName(r) ==
  /\ pc[r] = "stop"
  /\ session[r].mode = "docker_server"
  /\ \/ /\ creator[named[r]] # Nobody /\ named[r] \in Prefixed[adapter[r]]
        /\ Continue(r, "rm")
     \/ \E exit \in FailedExit : Finish(r, RunCommand(exit))

\* Mutant: labels that cannot be read mean there is nothing to stop.
InspectLabelsLenient(r) ==
  /\ pc[r] = "stop"
  /\ session[r].mode = "docker_server"
  /\ \/ Owned(r, named[r]) /\ Continue(r, "rm")
     \/ /\ creator[named[r]] # Nobody /\ ~Owned(r, named[r])
        /\ Finish(r, "error")
     \/ Finish(r, "ok")

\* docker inspect of the labels, which fails for a name nobody has.
InspectLabels(r) ==
  /\ pc[r] = "stop"
  /\ session[r].mode = "docker_server"
  /\ \/ Owned(r, named[r]) /\ Continue(r, "rm")
     \/ /\ creator[named[r]] # Nobody /\ ~Owned(r, named[r])
        /\ Finish(r, "error")
     \/ \E exit \in FailedExit : Finish(r, RunCommand(exit))

RequestRm(r) == pc[r] = "rm" /\ Request(r, "rm", "await_rm")

RmReturns(r) == pc[r] = "await_rm" /\ Finish(r, RunCommand(ClientExit(r)))

\* KeyboardInterrupt inside the finally clause, or the stage event that is
\* appended before stop is called (a full disk).
StopRaises(r) ==
  /\ pc[r] \in {"stop", "rm", "await_rm"}
  /\ Continue(r, "raised")

Crash(r) ==
  /\ pc[r] \notin Final
  /\ Continue(r, "crashed")

RunStep(r) ==
  \/ Start(r) \/ InspectImage(r) \/ Pull(r) \/ RequestRun(r) \/ RunReturns(r)
  \/ RequestRetry(r) \/ Ready(r)
  \/ Use(r) \/ NothingToStop(r) \/ InspectLabels(r) \/ RequestRm(r) \/ RmReturns(r)

Next ==
  \/ \E r \in Run : \/ RunStep(r) \/ StartRaises(r) \/ StopRaises(r) \/ Crash(r)
                    \/ ServeRun(r) \/ ServeRm(r)
  \/ \E n \in Name : ServerDies(n)

Spec == Init /\ [][Next]_vars

\* Commands and polls have timeouts, and the body is shown to end in InFlight.
FairSpec == Spec /\ \A r \in Run : WF_vars(RunStep(r))

-----------------------------------------------------------------------------
(***************************************************************************)
(* Properties                                                              *)
(***************************************************************************)

\* No other run is configured for the name.
Unshared(r) == \A q \in Run \ {r} : named[q] # named[r]

\* A container without experiment labels is never removed, although it may
\* hold the very name a run is configured for.
StrangerUntouched ==
  [][\A n \in Name : creator[n] = Stranger => creator'[n] = Stranger]_vars

(***************************************************************************)
(* A run that retries may remove what its first docker run left and get a  *)
(* container from the second later; of it, and of a run that shares its    *)
(* name, the contract says nothing about containers.                       *)
(***************************************************************************)
Sole == {r \in Run : Unshared(r) /\ ~Retries(r)}

ContractPhase(r) == CASE pc[r] \in Final                             -> "left"
                      [] pc[r] \in {"use", "stop", "rm", "await_rm"} -> "open"
                      [] OTHER                                       -> "idle"

ContractSession(r) == IF session[r].status = "none" THEN "none"
                      ELSE IF session[r].mode = "docker_server" THEN "docker"
                      ELSE "other"

Holds(r) == /\ r \in Sole /\ ContractPhase(r) # "idle"
            /\ creator[named[r]] = r \/ <<r, "run">> \in jobs

Contract == INSTANCE RuntimeContract WITH
  phase   <- [r \in Run |-> ContractPhase(r)],
  session <- [r \in Run |-> ContractSession(r)],
  held    <- [r \in Run |-> Holds(r)]

\* The adapters keep the contract V0Orchestrator is written over: a teardown
\* recorded as OK leaves nothing of the run behind, nor anything that Docker
\* could still create for it, whatever it is late with; and what is left
\* unstopped is left by a session that says so, or by an exception.
ContractKept == Contract!ContractSpec

\* start returns an OK Docker session only over a container that this run's
\* own docker run created, also after the retry with the other runtime.
ReadyOverOwnContainer ==
  [][\A r \in Run :
       (/\ session[r].status = "none"
        /\ session'[r] = [mode |-> "docker_server", status |-> "ok"]
        /\ Unshared(r))
         => creator[named[r]] = r]_vars

\* Every run is left, whatever the daemon and the server do.
RunEnds == \A r \in Run : <>(pc[r] \in Final)

\* runtime_adapters/base.py, stop: "Stop runtime resources if this adapter
\* created them."  A container goes only when its own run asked for that.
OnlyOwnContainerStopped ==
  [][\A n \in Name :
       creator[n] \in Run /\ creator'[n] # creator[n]
         => <<creator[n], "rm">> \in jobs /\ <<creator[n], "rm">> \notin jobs']_vars

\* README.md: the probe "always tears down its experiment-owned Docker runtime
\* before exit".  A run whose docker run was answered OK and that ends over its
\* own container has at least a teardown record.
TornDownBeforeExit ==
  \A r \in Run :
    pc[r] \in {"done", "raised"} /\ reply[r] = "zero" /\ creator[named[r]] = r
      => teardown[r] # "none"
=============================================================================
