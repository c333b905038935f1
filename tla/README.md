# AI-RAN V0 experiment harness: TLA+ models, checks and proofs

The repository's program is the V0 experiment harness under
`src/experiments/`: a Python package (`ai_runtime_experiments`, called *PKG*
below) that starts an inference server in a Docker container, sends it one chat
request, checkpoints and restores the container with CRIU while the request is
in flight, and files what happened as JSON records.  The harness is small, but
its subject is not: it drives a host-wide configuration file, a Docker daemon
that goes on working when its client has given up, a thread whose evidence is
judged by time stamps, and clean-up that must hold on every way out.

This directory models that core in TLA+, checks it with TLC and proves with
TLAPS every safety property that it checks.

## 1. Inventory

### Components

| Component | Source (PKG/...) | State | Operations |
|---|---|---|---|
| command runner, status vocabulary | `utils/command.py`, `schemas.py` | none | `run_command`, `_classify_result` |
| runc.conf phase switcher | `criu_config.py` | `/etc/criu/runc.conf`, the flock, captured original | `acquire`, `write_phase`, `restore_original`, `release` |
| smoke preemption | `preemption/smoke.py` | its record; the runtime container | `collect_smoke_preemption` |
| request client | `workload/llm_client.py` | two JSONL files | `send_smoke_request` |
| smoke validation | `validation/smoke.py` | none | `classify_smoke_validation` |
| Docker/CRIU integration probe | `docker_criu/probe.py`, `safety.py` | its record; a BusyBox container | `collect_docker_criu_integration` |
| runtime adapters | `runtime_adapters/*.py` | `RuntimeSession`; the server container | `start`, `stop` |
| orchestrator | `v0_orchestrator.py`, `artifacts.py`, `utils/paths.py` | run directory, records, metadata | `run_v0_orchestrator`, `_run_real_sequence` |
| environment probes | `env_probe/hardware.py`, `docker.py`, `cuda.py` | their records; the CUDA probe's container | `collect_*_probe` |
| MPS probe | `env_probe/mps.py` | its record; the host's MPS daemon | `collect_mps_probe` |
| configuration | `config.py` | the loaded configuration | `load_config`, `_deep_merge` |
| debug capture | `debug_capture.py` | copies of criu's logs, entries in records | `capture_criu_logs_for_record` |
| git and time helpers | `utils/git_info.py`, `utils/time.py` | none | read-only |
| scripts | `src/experiments/scripts/` | host directories; runc.conf, unlocked | CLI entry points, `run_v0_full_debug.sh` |

### How they interact

The orchestrator makes the run directory, runs the probes one after the other,
asks an adapter for a session, and then has two threads: a worker that sends
the request (if the integration probe was OK and the session names a
container) and the main thread, which runs the preemption.  The preemption
calls the switcher around `docker checkpoint create` and `docker start
--checkpoint`.  The threads join, the validation reads the last lines of the
two JSONL files and the preemption record, and the adapter's `stop` runs in a
`finally` clause.  Records are written at the very end.

Between processes the shared state is the host's: `runc.conf` and its lock
file, the Docker daemon and its container names, and output directories.

### What is hard here

* **A file shared by processes.**  runc.conf is switched under an advisory
  lock that only cooperating code takes; writes go through `sudo tee` and may
  fail half-way; a process may die between the write and the restore.
* **A finally clause that returns.**  It replaces the body's record and
  swallows its exception.
* **Timeouts do not cancel.**  `run_command` kills the docker *client*; the
  daemon finishes, or drops, the request later.
* **Evidence by time stamps.**  A stamp is taken by the thread that writes it,
  when that thread runs; the events it stands for are elsewhere.
* **Names.**  Containers are removed by name; names may be configured, shared,
  or taken.
* **Other people's daemons.**  One MPS daemon per host, found by a path that
  may be wrong, started and quit by commands that outlive their clients.
* **Evidence that goes with its container.**  criu's log is inside what the
  clean-up removes.
* **Partial failure.**  Every step of a run may raise; what was started must
  still be stopped, and what was not must be told.

### What makes each component correct

* switcher: the file is only touched by the lock's owner, a lost original is
  never silent, the lock is always freed;
* preemption: "restored" means restored, under one lease, each phase under its
  own text; the record tells a failed clean-up; it always ends;
* request, preemption and validation together: the pass verdict is covered by
  the records, a survivor gets it, a failure is never reported as a pass or as
  not attempted, a verdict is always reached;
* integration probe: OK means a complete round trip, no silent leak, it ends;
* debug capture: the log is tried for before its container goes, an OK entry
  stands over a whole copy;
* environment and MPS probes: an OK record leaves nothing behind, a daemon that
  was there survives, the sum of the video memory is the sum;
* configuration: each option is the file's, else the default, whatever else the
  file sets;
* adapters: an OK teardown leaves nothing, a stranger's container is safe, a
  ready session stands over the run's own container;
* orchestrator: completed means complete, one writer per directory, a left
  container is told.

`PROJECT.json` lists the hazards line by line, each with the properties that
would catch it going wrong or the reason why none does yet.

## 2. Modules

```
ProbeStatus            statuses, ways a subprocess ends        (no state)
  RuncConf             the switcher, several processes
    ConfLease          what the switcher promises the host     (abstract)
    RuncConfProofs     theorems about RuncConf                 (TLAPS)
    SmokePreemption    the preemption; INSTANCE RuncConf for the file and lock
      SmokePreemptionProofs  theorems about SmokePreemption    (TLAPS)
      InFlight         request thread + preemption + verdict; INSTANCE SmokePreemption
        InFlightProofs theorems about InFlight                 (TLAPS)
SmokeValidation        the classification                      (operators, used by InFlight)

Config                 load_config                             (operators)
HardwareProbe          the hardware record                     (operators)
DebugCapture           what becomes of criu's log              (operators)
  DockerCriuIntegration  the integration probe
MpsProbe               the MPS probe and the host's MPS daemon
  ProbeStage           configuration, six probes, log capture; INSTANCE of the two above
    ProbeStageProofs   theorems about ProbeStage               (TLAPS)
  ProbeDataProofs      theorems about Config and HardwareProbe (TLAPS, used by ProbeStageProofs)

RuntimeContract        what start and stop promise             (abstract)
  RuntimeAdapter       start and stop of both adapters, several runs
    RuntimeAdapterProofs  theorems about RuntimeAdapter        (TLAPS)
  V0Orchestrator       life of a run directory, several processes; INSTANCE RuntimeContract
    V0OrchestratorProofs  theorems about V0Orchestrator        (TLAPS)
MC*                    constants for TLC
```

**ProbeStatus.**  `Exit` is how a subprocess ends (exit 0, an error, an error
whose text names a missing capability, killed at its timeout, no executable);
`RunCommand` and `ClassifyCapability` are what the code makes of it.  Every
module takes its inputs from `Exit`, so each command in each model may end in
each of these ways.

**RuncConf.**  One action per branch of `acquire` (`LockTaken`,
`LockContended`, `LockRaises`, `CaptureText`, `CaptureMissing`,
`CaptureFails`), `WritePhase`, `RestoreOriginal`, `Release`, and the process's
exit or crash, at which the kernel drops the flock (`Closed`).  `handle` are the
processes whose switcher has a `_lock_handle`: `release` (`ReleaseLock`) does
nothing without one, and when `LOCK_UN` or the close after it raises, the handle
is kept and the lock is free or not.  `report` has those of `restore_original`
and `release` that returned an error.  `Protocol(p)` is what the only caller
makes sure of, `Moves(p)` all that a process does.  The file's text is one of
five values; a write that fails may have left it alone, torn, or written after
all (`AfterWrite`).  `original` packs `_cleanup_enabled`, `original_exists` and
`original_text`.  A process in `NoSudo` was told to use sudo on a host without
it: its capture takes the FileNotFoundError of the missing executable for a
missing file.

**SmokePreemption.**  `pc` is the place in `collect_smoke_preemption`.  The
early returns before the `try` are one operator (`Gate`) whose verdicts over
all inputs a run can get; from there there is an action per step, per failing
result and per part of the finally clause.  `Interrupt` is an exception
anywhere in the body, including one that breaks a write (`BrokenWrite`).  The
daemon has a pending request per run (`job`) and an answer (`reply`) that a
client who gave up never reads.  Memory and storage telemetry is left out.

**SmokeValidation.**  The early returns of `classify_smoke_validation` and the
three comparisons of `_smoke_response_evidence`, over records `[status, at]`.

**InFlight.**  The main thread and the worker, with the preemption's own steps
inside (`Smoke!RunStep`); an exception in the preemption's body is an action of
its own, `Interrupt`, so that no fairness can bring one about.  `clock` is the monotonic clock: every stamp may or
may not advance it, so equal stamps, where `<=` and `<` matter, occur.
`inFlight` is a history variable: what the worker's own two stamps were and
whether the server held the request when the container was dumped.  URLs are
sequences of path segments, because the post-restore probe's URL is one of the
things that decides which request the verdict is about: `base_url` ends in
`/v1` and the probe appends `/v1/models`, so in the code as it stands its
readiness poll never succeeds and the second request is never sent.

**DockerCriuIntegration.**  Each of the probe's commands as a request and a
return; `jobs` are the daemon's unfinished requests, `seen` a history of the
container's states.  A failing branch of the probe calls the debug hook before
it removes the container: `log` is criu's log in the container's directory,
`copy` the file in the run directory, `tried` a history of the attempt.

**DebugCapture.**  The outcomes of one capture as a set of attempts (entry,
copy, exception): the direct copy, the copy through sudo, and the capture
directory that cannot be made.  A copy may be torn, whole, or whole but still
`open`: its chmod failed, which is an error too.  Captures are made at two
places: in the hook, whose record is thrown away, and at the end of the run.

**MpsProbe.**  The probe looks once at the control pipe, starts the daemon and
quits it.  `late` is a command that survived its client.  The site, or another
run, may start or end a daemon at any time; the pipe's path may be
misconfigured.

**HardwareProbe.**  The worst-of-four status, and the sum of the video memory
read line by line off a report that may stop anywhere when its command failed.

**Config.**  A YAML tree of values and mappings, and what there is `At` a path
of keys; `DeepMerge` is the code's recursion, as a recursive function of the path
whose step is `MergeItem`, `Expected` the reference, said path by path and
without recursion.

**ProbeStage.**  One run from its configuration file to the MPS probe, and the
capture of criu's logs after the runtime's clean-up (the steps in between touch
nothing that is modelled here).  It composes the modules above: the record of
`criu --version` is the integration probe's prerequisite, the record that probe
files is what the capture reads.  Two things are dropped once nobody reads
them, to keep the state space small: the options at `Begin`, the hardware
record at `DockerVersion`.

**RuntimeContract.**  What `start` and `stop` promise of a run's container:
`start` returns or raises, a session that is not of a Docker server holds
nothing, `stop` returns a record or nothing, OK only over nothing held, and
whatever is held can only be lost after that.

**RuntimeAdapter.**  Runs share a daemon that knows containers by name.  The
adapters differ in what they put on the command line, in the name prefix and the
component label by which they know a container of theirs (`Prefixed`, `Owned`),
and in that llama.cpp has no retry of `docker run` (`Retries`, over the runs
whose `gpu_mode` asks for one, `GpuFallback`).  `Setups` are the combinations of
adapters the runs may have.  The CDI text that leads to the retry is the
daemon's, so it is only seen by a client whose request was answered.  `ContractKept` is the
refinement of RuntimeContract: `ContractPhase`, `ContractSession` and `Holds`
are the mapping.

**V0Orchestrator.**  The run directory's maker, files and metadata.  The last
two records of a dry run come in the other order (`LastRecords`).  The
runtime's part of every step is an action of RuntimeContract, so what is shown
here holds over anything that keeps the contract.  The whole of InFlight is one
step, `Body`, that may stop anywhere.

## 3. Runs

All bounds are the constants below; no other state constraint is used, except
that `clock` in InFlight only moves when a stamp is taken, so it is bounded by
the number of stamps of one run.

| Run | Instance | Shows |
|---|---|---|
| `runc_conf` | 3 processes, one of them without sudo | TypeOK, HonestCleanup, OnlyHolderTouchesConf, LeaseImplemented, LockFreed |
| `smoke_preemption` | 2 runs, symmetric, each switching or not | TypeOK, HonestRecord, OkMeansRestored, SwitcherProtocol, PhaseTextServed, RestoredUnderLease |
| `dump_under_compat` | the same | violation of NeverDumpUnderCompat |
| `in_flight` | 1 run, switching or not | TypeOK, CompletedByTheRecords, SurvivorCompletes, AttemptedFailureIsNamed, RunIsClassified |
| `completed_was_in_flight` | the same | violation of CompletedWasInFlight |
| `probe_stage` | 1 run; files with all shapes of the runtime options; hosts of up to 2 GPUs | TypeOK, NoSilentLeak, OkMeansRoundTrip, OptionsByPath, VramIsTheSum, OkLeavesNothing, OkEntryIsBacked, EvidenceBeforeRemoval, FoundDaemonSurvives, StageEnds |
| `saved_is_on_record` | the same | violation of SavedIsOnRecord |
| `runtime_adapter` | 2 runs (vLLM's, which retries, and one with either adapter), 3 names (two with vLLM's prefix, of which one is taken, one with llama.cpp's) | TypeOK, ContractKept, StrangerUntouched, ReadyOverOwnContainer, RunEnds |
| `only_own_container_stopped` | the same | violation of OnlyOwnContainerStopped |
| `torn_down_before_exit` | the same | violation of TornDownBeforeExit |
| `v0_orchestrator` | 2 processes, 2 directories, started by hand | TypeOK, CompletedIsWhole, LeftoverIsTold, OnlyMakerWrites |
| `refused_for_another_run` | a process started by the script | violation of RefusedForAnotherRun |

Why these are enough to be interesting:

* Lock races need a winner, a loser and someone who comes after: three
  processes in `runc_conf`.  The preemption has two, because its new
  interleavings are between one lease and one other run; its safety properties
  and the lease are proved for any number.  Whether a run switches is a variable, so two
  switching runs, two others and one of each are all in one instance.
* `LeaseImplemented` and `HonestCleanup` see a process die inside its lease and
  the next one take the phase text for the original: the abstract lease starts
  again from what the file then holds, and the first process is blamed.
* In `runtime_adapter` the two runs' names range over all nine assignments and
  the second run has either adapter, so shared, taken and unprefixed names all
  occur, and containers under a run's name that are another run's with the same
  adapter, with the other one, or a stranger's.
* In `probe_stage` a file sets both options of a server, one, or none, or has a
  null or a text where a section belongs, for either server: every way two
  mappings can meet in the merge, at each of its three levels.  Two GPUs are
  needed for a block of one to be taken for the next one's, a total of 0 stands
  for `N/A`.
* InFlight has one run: everything another run could do to it goes through
  runc.conf and the daemon, which SmokePreemption covers with two.

Deadlock checking is off in all runs: every process comes to an end (returned,
raised, gone, crashed), after which the system really has nothing to do.

**Fairness.**  Only the harness's own threads are assumed to run: weak fairness
of `Protocol(p)`, `RunStep(r)`, `StageStep`, `MainStep`, `WorkerStep`.  The code
justifies it because every command goes through `run_command` with a
`timeout_s` and each poll has a deadline; the action that takes a client's
answer is enabled without one, as a timeout.  The Docker and MPS daemons and the
model server have no fairness at all: they may never answer.  One assumption is
weaker than it looks: `urlopen`'s timeout is per read, so a server that drips
its answer byte by byte is outside `RunIsClassified`.  Crashes,
exceptions that have an alternative, and, in RuncConf, the end of the process
and another write of it are never required.

### Properties that need a word

* *HonestCleanup*, *HonestRecord*: whenever nobody holds the lock and the file
  is not the site's, somebody crashed or reported it.  A crash only excuses a
  lost file when it came after that process had captured the original: one that
  died before, or never had the lock, cannot have touched the file.  The second
  says it of the preemption's own record, through the finally clause that
  overrides returns and swallows exceptions.
* *OnlyHolderTouchesConf* is about everything a process does (`Moves`), its
  `WritePhase` included, whose guard is a place in the protocol and not the lock.
* *LockFreed*: every holder comes to give the lock back itself, or to a report
  that says that `release` failed.  The process need not end for it: a harness
  process goes on after its preemption with the rest of the run.  A finally
  clause that leaves before `release` when the restore failed is the mutant.
* *RunIsClassified* says the same of the whole sequence: a verdict, an exception
  or a crash, and by then the lock is given back or the failure reported, also
  over a Docker daemon that never answers.  The mutants are a request and a
  `docker checkpoint create` without their timeouts.
* *SwitcherProtocol*: SmokePreemption implements RuncConf's specification, so
  what is proved of RuncConf carries over to it (section 4).
* *CompletedByTheRecords* and *SurvivorCompletes* are the two directions of the
  pass verdict, stated about the worker's own request and not about the last
  line of a file.  The second depends on the unsatisfied readiness poll: if the
  URL is corrected alone, the post-restore request takes the place of the
  in-flight one and a survivor is classified `not_attempted`; this is the
  mutant of that property.
* *ContractKept* says nothing of what is held by a run that retries `docker
  run`: if the first call times out and its container appears, the retry may
  still be with the daemon when `stop` removes that container, and a second one
  appears after the OK teardown.  Nor does it by runs that share a name.  Both
  are cases the code does not handle, and no document says that it does.
* *EvidenceBeforeRemoval* is about trying: a hook that fails loses the log.
* *FoundDaemonSurvives* holds although the pipe is looked at once: `-d` fails
  beside a running daemon, and a failed start is never followed by a quit.  A
  daemon that comes between the probe's start and its quit is not one that was
  found.
* *VramIsTheSum* is silent about a GPU that reports `N/A`: its block then stays
  open and takes the total of the BAR1 block that follows (section 5).
* *NoSilentLeak* speaks of probes that have read the labels: a probe whose
  `docker run` or label inspection failed returns without removing anything
  and its record has nothing to say about it.

### Disagreements with the documentation

1. `dump_under_compat`.  The phase-switch plan
   (`src/docs/superpowers/plans/2026-06-10-v0-cdi-criu-phase-switch.md:23`)
   wants `mntns-compat-mode` "only ... for restore, never dump".  A run with
   no `criu_config_mode`, and every integration probe, checkpoints without the
   lock and may do so under another run's restore text.
2. `completed_was_in_flight`.  `src/experiments/README.md:191` reads the pass
   verdict as "already in flight before checkpoint/restore timing".  The
   request is stamped before it is sent and its answer when the thread runs
   again: a request that was sent only after the restore passes as well.
3. `only_own_container_stopped`.  `stop` is documented as "Stop runtime
   resources if this adapter created them" (`runtime_adapters/base.py:30`).
   It removes by name what any experiment run created, also when its own
   `docker run` was refused or never issued.
4. `torn_down_before_exit`.  `src/experiments/README.md:21` says the probe
   "always tears down its experiment-owned Docker runtime before exit".  An
   exception out of `start` after `docker run` leaves no session to stop.
5. `refused_for_another_run`.  `run_v0_full_debug.sh` makes the artifact
   directory (line 71) and then starts `run_v0_probe.py` with it (line 196),
   which refuses a directory that exists.
6. `saved_is_on_record`.  The plan of the automatic capture
   (`src/docs/superpowers/plans/2026-06-09-auto-criu-log-capture.md:7`) wants
   its diagnostics in `details.diagnostics.criu_logs`.  The hook copies the log
   in time, but writes the entry into a copy of the record's details that
   nobody files; the capture at the end of the run finds no log and files an
   error.

## 4. Proofs

Each theorem holds for every value of the constants that its module's
assumptions admit; the runs check the same properties, and the assumptions, on
small instances.  The strengthened invariants were checked on those instances
before they were proved.  From module to module the proofs follow the
composition: each detailed specification is shown to implement the one it is
built on, and what is proved there is used here.

`RuncConfProofs` proves about `RuncConf`, for every set `Proc`, every
`NoSudo` and either `SiteText`, from the single assumption
`RuncConfAssumption` (the free lock's owner is not a process, `NoSudo` are
processes, the site's file is present or absent):

| Theorem | States |
|---|---|
| `TypeCorrect` | `Spec => []TypeOK` |
| `LockInvariant` | `Spec => []LockInv`, the inductive invariant |
| `CleanupIsHonest` | `Spec => []HonestCleanup` |
| `HolderWritesAlone` | `Spec => OnlyHolderTouchesConf`, of every action of a process |
| `ImplementsLease` | `Spec => LeaseImplemented`: the refinement of ConfLease |

`HonestCleanup` is not inductive: whether a `Release` leaves the site's text
depends on what the process captured, how its restore went, and that no one
else wrote in between.  `LockInv` says so in four parts:

* `Owned`: a process between flock and release owns the lock as long as it has
  something to give back, and only a process still in the protocol, with
  a handle, owns it;
* `CapturedWhenReady`: something is captured exactly from the end of `acquire`;
* `ReturnedOrReported`: a switcher past `restore_original` that reported
  nothing put its original back, and one that still owns the lock after
  `release` reported that;
* `SiteKnown`: as long as nobody is to blame the file is the site's, except
  between a holder's capture and its `restore_original`, and that holder knows
  the site's text, or has no sudo and cannot have changed the file.

The processes without sudo are the delicate case: they capture "absent" over
any file but can never write, so their restore either fails (and is reported)
or is not attempted.  The refinement maps the lease's base text to the captured
original, and to the file itself while nothing has been captured or the owner
has no sudo.

`RuntimeAdapterProofs` proves about `RuntimeAdapter`, for every set of runs and
names, whichever names coincide, are taken or lack the prefix, and whichever
adapter each run has and whichever retry, from `RuntimeAdapterAssumption`:

| Theorem | States |
|---|---|
| `TypeCorrect` | `Spec => []TypeOK` |
| `StrangerUntouchedHolds` | `Spec => StrangerUntouched` |
| `ReadyOverOwnContainerHolds` | `Spec => ReadyOverOwnContainer` |
| `ContractKeptHolds` | `Spec => ContractKept`: the refinement of RuntimeContract |

A stranger's container is safe because the labels are read before `docker rm`
is asked for and a name that is in use does not change hands (`RmNotStranger`).
The other two need `Inv`, said of each run in four parts:

* `PlacedOf`: what `start` has made of the session at each place;
* `CreatesOf`: a run has no container before its `docker run` or without a
  Docker session, and at most one, of its name;
* `RemovesOf`: a run that calls `docker run` once has nothing left to come when
  its container is there, so over a name of its own a `docker rm` that exited 0
  leaves nothing: this is where an OK teardown gets its meaning;
* `ReadyOf`: a `docker run` that was answered OK left a container that nobody
  has removed, for no removal is asked for before `stop`.

The refinement is by one lemma about each kind of step: what a run does moves
its own part of the contract (`RunContract`) and no other's
(`OthersContract`), and the daemon can only take away (`ServeContract`).

`V0OrchestratorProofs` proves about `V0Orchestrator`, for every set of
processes and directories, from `V0OrchestratorAssumption`:

| Theorem | States |
|---|---|
| `TypeCorrect` | `Spec => []TypeOK` |
| `OnlyMakerWritesHolds` | `Spec => OnlyMakerWrites`, from `MakerWorks` |
| `CompletedIsWholeHolds` | `Spec => []CompletedIsWhole`, from `Progress` |
| `LeftoverIsToldHolds` | `Spec => []LeftoverIsTold`, from `MakerWorks`, `Holding`, `Completed` |
| `ContractFollowed` | `Spec => Runtime!ContractSpec`: the orchestrators drive their runtimes by RuntimeContract |

`MakerWorks`: past its mkdir a process works only in a directory it made.
`Progress`: how far records and artifacts have come at each place, with the
lemma that files only grow.  `Holding` and `Completed`: where a run stands with
its container at each place, and that once the metadata say "completed" the
container can only be lost.  `ContractFollowed` and `ContractKeptHolds` are the
two sides of RuntimeContract: what the orchestrator asks of a runtime and what
the adapters do are behaviours of one specification, so `LeftoverIsTold` is
about the adapters' containers, of the runs the contract speaks of.

`SmokePreemptionProofs` proves about `SmokePreemption`, for every set of runs,
switching or not, with or without sudo, from `SmokePreemptionAssumption` (that
of RuncConf):

| Theorem | States |
|---|---|
| `SwitcherProtocolHolds` | `Spec => SwitcherProtocol`: the refinement of RuncConf |
| `TypeCorrect` | `Spec => []TypeOK` |
| `Invariant`, `NamedInvariant` | `Spec => []Inv`, `Spec => []Named` |
| `HonestRecordHolds` | `Spec => []HonestRecord` |
| `OkMeansRestoredHolds` | `Spec => []OkMeansRestored` |
| `PhaseTextServedHolds` | `Spec => PhaseTextServed` |
| `RestoredUnderLeaseHolds` | `Spec => RestoredUnderLease` |
| `LeaseKept` | `Spec => Runc!LeaseImplemented`: the preemption implements ConfLease |

The refinement comes first, because it brings the switcher's types, `LockInv`
and `HonestCleanup` into the preemption (`SwitcherInvariants`; the module's
instance of RuncConf and the proofs' are the same definitions, `SameSpec`).  The
four properties need `Inv`, said of each run in five parts:

* `SwitcherOf`: between the dump text and the inspection a switching run's
  switcher is "ready", which in `LockInv` means that it owns the lock; a run
  that does not switch has no part in it;
* `ConfessedOf`: a failed clean-up is on its way through the finally clause, or
  has got into the record, or its run crashed after the capture;
* `MarkedOf`: status and outcome agree, and the record has the marks of the
  phases that were entered;
* `TextOf`: the text under a phase that is asked for or served.  That no other
  run changes it is `OwnerWrites`: who does not own the lock leaves the file
  alone;
* `ServedOf`: what the daemon may still be asked for at each place, and what an
  answer of zero says of the container.  A request that was given up is only
  pending after the run has left its body.

`Named` adds what the verdict in InFlight needs: a skipped record was never
attempted, and no outcome is on record before the body is left.

`InFlightProofs` proves about `InFlight`, for every run and either `SiteText`,
from `InFlightAssumption` (the free lock's owner is not the run):

| Theorem | States |
|---|---|
| `PreemptionHolds` | `Spec => Smoke!Spec`: the refinement of SmokePreemption |
| `TypeCorrect` | `Spec => []TypeOK` |
| `Invariant` | `Spec => []SequenceInv` |
| `CompletedByTheRecordsHolds` | `Spec => []CompletedByTheRecords` |
| `SurvivorCompletesHolds` | `Spec => []SurvivorCompletes` |
| `AttemptedFailureIsNamedHolds` | `Spec => []AttemptedFailureIsNamed` |
| `PreemptionPromises` | the four properties of SmokePreemption, of the preemption inside |
| `SequenceKeepsLease` | `Spec => P!Runc!LeaseImplemented`: the sequence implements ConfLease |

By `PreemptionHolds` everything proved about the preemption is true of it in the
sequence: its properties, by `PreemptionPromises`, and `Inv` and `Named`.  The
lease comes through three refinements, one module at a time: InFlight of
SmokePreemption, SmokePreemption of RuncConf, RuncConf of ConfLease.
`SequenceInv` adds:

* `StampInv`: a phase has a stamp exactly when the record has its mark, and the
  stamps are in the order of the steps; it rests on two lemmas about the
  preemption, that marks are never taken back and that only the inspection
  records "restored";
* `PlaceInv`: neither thread passes the other, so that the worker is done and
  the preemption has returned when the verdict is made;
* `RefusedInv`: without a session, or in line, the gate refuses and nothing is
  attempted;
* `EvidenceInv`: the last lines of the two JSONL files are the worker's, stamp
  for stamp;
* `VerdictInv`: the verdict stays the classification of the records as they are.

`EvidenceInv` is where the readiness poll's URL matters: the lemma `NeverReady`
computes that `/v1/v1/models` is not what is served, so no second request
replaces the evidence.  With the URL corrected alone the lemma is false, and
`SurvivorCompletes` with it.

`ProbeStageProofs` proves about `ProbeStage`, for every set of configuration
files and hosts, from two assumptions: `GpusAssumption` (a host's report is a
sequence of GPUs whose totals are numbers, or `N/A`) and `FilesAssumption` (what
a file has at one of the five sections above the options is nothing, a scalar
or list, or a mapping; of the rest of the file nothing is assumed, and the
program's own checks decide whether it is accepted):

| Theorem | States |
|---|---|
| `IntegrationInvariant` | types of the integration probe, `SequenceInv`, `IntegrationInv` |
| `NoSilentLeakHolds` | `Spec => []NoSilentLeak` |
| `OkMeansRoundTripHolds` | `Spec => []OkMeansRoundTrip` |
| `EvidenceBeforeRemovalHolds` | `Spec => EvidenceBeforeRemoval` |
| `HostInvariant` | `CudaInv`, types of the MPS probe, `MpsInv` |
| `OkLeavesNothingHolds` | `Spec => []OkLeavesNothing` |
| `FoundDaemonSurvivesHolds` | `Spec => FoundDaemonSurvives` |
| `OkEntryIsBackedHolds` | `Spec => []OkEntryIsBacked` |
| `DataInvariant` | `Spec => []DataInv` |
| `OptionsByPathHolds` | `Spec => []OptionsByPath` |
| `VramIsTheSumHolds` | `Spec => []VramIsTheSum` |
| `TypeCorrect` | `Spec => []TypeOK`, from all of the above |

`IntegrationInv` says, whatever the daemon is late with:

* `PendingInv`: as long as nothing failed, the only request pending is the one
  the probe waits for, so a success is not overtaken by something given up;
* `PlaceInv`: where a status is recorded, from where on the container is known
  to be the probe's, and where `docker run` and `docker rm` can still be pending;
* `RemovalInv`: a removal that was answered with zero is final, because no `docker
  run` is pending any more and a dump or a start makes no container;
* `RoundTripInv`: what each success on the way has seen of the container;
* `EvidenceInv`: while the record names criu's log only the removal can be
  pending, and when it is the log has been tried for.

`CudaInv` and `MpsInv` are about commands that outlive their clients: an answer
says that the container is gone, and until its record is filed no command of the
MPS probe is left over.

`DataInv` carries what is loaded and filed through the sequence: the options are
`LoadConfig` of the run's file and the record is one of the `HardwareRecords` of
the host it ran on, each for as long as what it was made of.  The rest is about
the two algorithms themselves, in `ProbeDataProofs`, which knows no state:

| Theorem | States |
|---|---|
| `VramOfReport` | the first n lines of a report sum up to at most the GPUs' video memory, all of them to exactly that, if each GPU reports a number |
| `HardwareRecordIs` | so does a hardware record, which has a status and a natural number whatever was reported |
| `LoadConfigByPath` | at each option's path an accepted configuration has what is expected there |

Both are inductions over data.  They are carried out with sets: `Least` takes
the least element of a set of numbers from the library's theorem on minimal
elements, and `Induct` is the principle for a set, applied to the set of the
numbers for which a claim holds.  A recursive function is a CHOOSE until
it is shown to exist, so each of them begins with that (`SumExists`,
`ReadingExists`, `WalkExists`, `MergeExists`), and goes on with its one-step
equation (`SumsStep`, `ReadingStep`, `WalkStep`, `DeepMergeIs`).

* The report.  `KnownAfter` is the invariant of the reading loop inside the block
  of one GPU: before the video memory's total the sum is what the GPUs before it
  have, after it that and this one's, and the block's header is behind exactly
  on the line in between, so that the BAR1 total, which looks the same, is not
  taken.  That is where the hypothesis enters: a GPU that reports `N/A` leaves
  the block open.  A prefix of a report is a prefix of its lines, and sums only
  grow.
* The merge.  Its recursion is over every path there is, and none of them is the
  shortest to begin with: it is well defined because the defaults end after
  three keys, and `MergeItem` looks below a path only where the defaults have a
  mapping (`MergeDepends`).  So `MergeExists` makes the function from the
  unfolding of depth four, and `MergedPath` walks it down the
  three keys, with the three cases of `MergeItem` at each.  `ModelPut` adds the
  configured model: `Put` changes one option and no other, so that of one
  server leaves the other's.

Only model-checked: liveness (`LockFreed`, `RunIsClassified`, `StageEnds`,
`RunEnds`), which is out of the prover's reach.

## 5. Not modelled

* The git and time helpers and the single-probe scripts: read-only, or argument
  parsing around one probe.
* `run_v0_full_debug.sh` beyond the directory it makes.  It writes runc.conf
  without the lock and removes every container with the experiment's labels;
  beside it none of what SmokePreemption and RuntimeAdapter are shown to keep
  holds, and no document says that it may run beside another run.
* Ports.  Readiness is answered by any server on the port, which the model
  allows; that llama.cpp on the host network listens on 8080 whatever port is
  configured (`runtime_adapters/llama_cpp.py:344`) is not in it.
* A `checkpoint_dir` that several runs share, with its one checkpoint name.
* Single facts read off command outputs (driver versions, product names), and
  the sum of the video memory beside a GPU that reports `N/A`: the reader then
  takes that GPU's BAR1 total, which no document rules out.
* Redaction and truncation of copied logs and the debug bundle's contents: they
  change text and decide nothing.
* Formats of single configuration values; `probe_options` and `workload`, which
  go through the same merge as the options that are modelled.
* Memory and storage telemetry in the preemption: adds to the record only.
* CRLF normalisation of the captured original, and a `tee` that outlives its
  timeout by more than one step: the file's text is one of five values, and a
  failed write settles at once on one of them.
* Strangers' containers that come and go: they are there from the start.

## 6. Plan

Done: the core, `RuncConf` and `SmokePreemption` first, because the shared
file and the preemption are where a mistake would damage the host or the
result; then what gives the result its meaning (`InFlight`); then the owners of
containers and directories, joined by `RuntimeContract`; then the probes,
the configuration and the capture of evidence, composed in `ProbeStage`.  The
proofs followed the same order: the lease, the adapters and the orchestrator,
then the preemption, the verdict and the probes, and last the two
algorithms whose results the probes file.

Next: what RuntimeContract could promise a run that retries `docker run` (that at
most one container of its name is left), proved of the adapters; and an abstract
specification of the verdict that InFlight implements.
