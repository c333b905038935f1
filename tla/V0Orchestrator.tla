---------------------------- MODULE V0Orchestrator ----------------------------
(***************************************************************************)
(* run_v0_orchestrator and the outer part of _run_real_sequence            *)
(* (v0_orchestrator.py): the life of a run directory.  Records are kept in *)
(* memory and written at the end, one artifact at a time; the metadata say *)
(* "running" from the beginning and "completed" after the last artifact.   *)
(*                                                                         *)
(* Several processes may be started for one output directory, by hand or   *)
(* by run_v0_full_debug.sh.  Of the runtime adapter RuntimeContract is all *)
(* that is known here.  The request, the preemption and the verdict        *)
(* (InFlight) are one step.                                                *)
(***************************************************************************)
EXTENDS ProbeStatus, Integers, Sequences

CONSTANTS
  Proc,       \* orchestrator processes
  Dir,        \* output directories
  Nobody,     \* the maker of a directory that does not exist
  Script,     \* the maker of a directory that run_v0_full_debug.sh made
  Scripted    \* the processes started by that script

ASSUME V0OrchestratorAssumption ==
  /\ Nobody \notin Proc /\ Script \notin Proc /\ Nobody # Script
  /\ Scripted \subseteq Proc

VARIABLES
  dirOf,      \* config.output_dir of each process
  dry,        \* config.dry_run
  pc,         \* place of each process
  records,    \* the records it has in memory
  phase, session, held, teardown,  \* of RuntimeContract
  maker,      \* who made each directory
  files,      \* the artifacts in it
  metadata    \* status and cleanup in run_metadata.json

Runtime == INSTANCE RuntimeContract WITH Run <- Proc

procVars    == <<dirOf, dry>>
runtimeVars == <<phase, session, held, teardown>>
dirVars     == <<maker, files, metadata>>
vars == <<procVars, pc, records, runtimeVars, dirVars>>

\* "refused": FileExistsError.  "raised": any later exception.
Final == {"done", "refused", "raised", "crashed"}
Pc == {"check_dir", "make_dir", "config", "running", "collect", "runtime", "body", "teardown",
       "unwind", "bundle", "write", "complete", "verify"} \cup Final

EarlyProbes == {"hardware", "docker", "criu_check", "docker_criu_integration",
                "cuda_check", "mps_check"}
LateRecords == {"smoke_preemption", "post_restore_probe", "smoke_validation"}
SmokeLines  == {"smoke_request", "smoke_response"}
RecordNames == EarlyProbes \cup {"runtime_check"} \cup LateRecords

\* REQUIRED_V0_ARTIFACTS.
Required == RecordNames \cup SmokeLines \cup {"stage_events", "run_metadata", "config"}

NoMetadata == [status |-> "none", cleanup |-> "none"]
Metadata == [status : {"none", "running", "completed"}, cleanup : Status \cup {"none"}]

TypeOK ==
  /\ dirOf \in [Proc -> Dir]
  /\ dry \in [Proc -> BOOLEAN]
  /\ pc \in [Proc -> Pc]
  /\ records \in [Proc -> SUBSET RecordNames]
  /\ Runtime!ContractTypeOK
  /\ maker \in [Dir -> Proc \cup {Nobody, Script}]
  /\ files \in [Dir -> SUBSET Required]
  /\ metadata \in [Dir -> Metadata]

\* The script makes the directory before it starts the probe with it.
Init ==
  /\ dirOf \in [Proc -> Dir]
  /\ dry \in [Proc -> BOOLEAN]
  /\ pc = [p \in Proc |-> "check_dir"]
  /\ records = [p \in Proc |-> {}]
  /\ Runtime!ContractInit
  /\ maker = [d \in Dir |-> IF \E p \in Scripted : dirOf[p] = d THEN Script ELSE Nobody]
  /\ files = [d \in Dir |-> {}]
  /\ metadata = [d \in Dir |-> NoMetadata]

Goto(p, next) == pc' = [pc EXCEPT ![p] = next]

Collect(p, names) == records' = [records EXCEPT ![p] = @ \cup names]

Write(p, names) == files' = [files EXCEPT ![dirOf[p]] = @ \cup names]

(***************************************************************************)
(* The directory and its first artifacts                                   *)
(***************************************************************************)

\* ensure_run_dir: run_dir.exists() ...
CheckDir(p) ==
  /\ pc[p] = "check_dir"
  /\ Goto(p, IF maker[dirOf[p]] = Nobody THEN "make_dir" ELSE "refused")
  /\ UNCHANGED <<procVars, records, runtimeVars, dirVars>>

\* Mutant: mkdir(parents=True, exist_ok=True).
MakeDirExistOk(p) ==
  /\ pc[p] = "make_dir"
  /\ maker' = [maker EXCEPT ![dirOf[p]] = IF @ = Nobody THEN p ELSE @]
  /\ Goto(p, "config")
  /\ UNCHANGED <<procVars, records, runtimeVars, files, metadata>>

\* ... then run_dir.mkdir(exist_ok=False), which another process may have won.
MakeDir(p) ==
  /\ pc[p] = "make_dir"
  /\ IF maker[dirOf[p]] = Nobody
       THEN maker' = [maker EXCEPT ![dirOf[p]] = p] /\ Goto(p, "config")
       ELSE UNCHANGED maker /\ Goto(p, "refused")
  /\ UNCHANGED <<procVars, records, runtimeVars, files, metadata>>

DumpConfig(p) ==
  /\ pc[p] = "config"
  /\ Write(p, {"stage_events", "config"})
  /\ Goto(p, "running")
  /\ UNCHANGED <<procVars, records, runtimeVars, maker, metadata>>

WriteRunning(p) ==
  /\ pc[p] = "running"
  /\ Write(p, {"run_metadata"})
  /\ metadata' = [metadata EXCEPT ![dirOf[p]] = [status |-> "running", cleanup |-> "none"]]
  /\ Goto(p, "collect")
  /\ UNCHANGED <<procVars, records, runtimeVars, maker>>

(***************************************************************************)
(* The records                                                             *)
(***************************************************************************)

\* Mutant: the artifact contract gained a file that the dry run forgot.
DryRecordsStale == RecordNames \ {"post_restore_probe"}

\* _dry_run_probe_records.
DryRecords == RecordNames

DryRun(p) ==
  /\ pc[p] = "collect" /\ dry[p]
  /\ Write(p, SmokeLines)
  /\ Collect(p, DryRecords)
  /\ Goto(p, "bundle")
  /\ UNCHANGED <<procVars, runtimeVars, maker, metadata>>

Probe(p) ==
  /\ pc[p] = "collect" /\ ~dry[p]
  /\ Collect(p, EarlyProbes)
  /\ Goto(p, "runtime")
  /\ UNCHANGED <<procVars, runtimeVars, dirVars>>

\* runtime_adapter.start.
StartRuntime(p) ==
  /\ pc[p] = "runtime"
  /\ \/ Runtime!StartReturns(p) /\ Collect(p, {"runtime_check"}) /\ Goto(p, "body")
     \/ Runtime!StartRaises(p) /\ Goto(p, "unwind") /\ UNCHANGED records
  /\ UNCHANGED <<procVars, dirVars>>

\* Request, preemption, post-restore probe and classification, up to wherever
\* they raise.
Body(p) ==
  /\ pc[p] = "body"
  /\ \/ /\ Write(p, SmokeLines)
        /\ Collect(p, LateRecords)
        /\ Goto(p, "teardown")
     \/ /\ \E lines \in SUBSET SmokeLines : Write(p, lines)
        /\ Goto(p, "unwind")
        /\ UNCHANGED records
  /\ UNCHANGED <<procVars, runtimeVars, maker, metadata>>

\* Mutant: the cleanup record is only kept when it is OK.
StopForgetsError(p) ==
  /\ pc[p] \in {"teardown", "unwind"}
  /\ IF phase[p] = "open"
       THEN \/ Runtime!StopReturns(p) /\ teardown'[p] \in {"ok", "none"}
            \/ Runtime!Abandon(p)
       ELSE UNCHANGED runtimeVars
  /\ Goto(p, IF pc[p] = "teardown" THEN "bundle" ELSE "raised")
  /\ UNCHANGED <<procVars, records, dirVars>>

\* The finally clause: stop is called when start returned a session.
StopRuntime(p) ==
  /\ pc[p] \in {"teardown", "unwind"}
  /\ IF phase[p] = "open" THEN Runtime!StopReturns(p) ELSE UNCHANGED runtimeVars
  /\ Goto(p, IF pc[p] = "teardown" THEN "bundle" ELSE "raised")
  /\ UNCHANGED <<procVars, records, dirVars>>

(***************************************************************************)
(* The end of the run                                                      *)
(***************************************************************************)

\* Mutant: debug_bundle.json goes next to the artifacts, not under debug/.
BundleAtTopLevel(p) ==
  /\ pc[p] = "bundle"
  /\ Write(p, {"debug_bundle"})
  /\ Goto(p, "write")
  /\ UNCHANGED <<procVars, records, runtimeVars, maker, metadata>>

\* CRIU logs and the debug bundle; a failing bundle is recorded and ignored.
Bundle(p) ==
  /\ pc[p] = "bundle"
  /\ Goto(p, "write")
  /\ UNCHANGED <<procVars, records, runtimeVars, dirVars>>

\* The order in which the records came in; the dry run makes the last two the
\* other way round.
LastRecords(p) == IF dry[p] THEN <<"smoke_validation", "post_restore_probe">>
                            ELSE <<"post_restore_probe", "smoke_validation">>

RecordOrder(p) ==
  <<"hardware", "docker", "criu_check", "docker_criu_integration", "cuda_check",
    "mps_check", "runtime_check", "smoke_preemption">> \o LastRecords(p)

\* The first record in that order that is not written yet.
FirstUnwritten(p, i) ==
  LET missing == records[p] \ files[dirOf[p]] IN
  /\ RecordOrder(p)[i] \in missing
  /\ \A j \in DOMAIN RecordOrder(p) : RecordOrder(p)[j] \in missing => i <= j

WriteArtifact(p) ==
  /\ pc[p] = "write"
  /\ IF records[p] \subseteq files[dirOf[p]]
       THEN Goto(p, "complete") /\ UNCHANGED files
       ELSE /\ \E i \in DOMAIN RecordOrder(p) : /\ FirstUnwritten(p, i)
                                              /\ Write(p, {RecordOrder(p)[i]})
            /\ UNCHANGED pc
  /\ UNCHANGED <<procVars, records, runtimeVars, maker, metadata>>

Complete(p) ==
  /\ pc[p] = "complete"
  /\ metadata' = [metadata EXCEPT ![dirOf[p]] = [status |-> "completed", cleanup |-> teardown[p]]]
  /\ Goto(p, "verify")
  /\ UNCHANGED <<procVars, records, runtimeVars, maker, files>>

\* The missing-artifact check comes after the metadata say "completed".
Verify(p) ==
  /\ pc[p] = "verify"
  /\ Goto(p, IF Required \subseteq files[dirOf[p]] THEN "done" ELSE "raised")
  /\ UNCHANGED <<procVars, records, runtimeVars, dirVars>>

\* Any other exception (a full disk, ^C; in the finally clause the stage event
\* that is written before stop; CRIU logs that cannot be captured); inside the
\* try block it goes through Body or StartRuntime.  A crash may come anywhere.
Raise(p) ==
  /\ \/ /\ pc[p] \in {"config", "running", "collect", "teardown", "bundle", "write",
                      "complete", "verify"}
        /\ Goto(p, "raised")
     \/ pc[p] \notin Final /\ Goto(p, "crashed")
  /\ \/ pc[p] = "runtime" /\ Runtime!StartRaises(p)
     \/ phase[p] = "open" /\ Runtime!Abandon(p)
     \/ pc[p] # "runtime" /\ phase[p] # "open" /\ UNCHANGED runtimeVars
  /\ UNCHANGED <<procVars, records, dirVars>>

\* Docker refuses a docker run that came late, or the container is removed.
Lose(p) ==
  /\ Runtime!Lose(p)
  /\ UNCHANGED <<procVars, pc, records, dirVars>>

Step(p) ==
  \/ CheckDir(p) \/ MakeDir(p) \/ DumpConfig(p) \/ WriteRunning(p)
  \/ DryRun(p) \/ Probe(p) \/ StartRuntime(p) \/ Body(p) \/ StopRuntime(p)
  \/ Bundle(p) \/ WriteArtifact(p) \/ Complete(p) \/ Verify(p)

Next == \E p \in Proc : Step(p) \/ Raise(p) \/ Lose(p)

Spec == Init /\ [][Next]_vars

-----------------------------------------------------------------------------
(***************************************************************************)
(* Properties                                                              *)
(***************************************************************************)

\* Only the process that made a directory writes into it, whatever the other
\* processes saw of it between their check and their mkdir: the evidence of
\* two runs is never mixed.
OnlyMakerWrites ==
  [][\A d \in Dir :
       (files'[d] # files[d] \/ metadata'[d] # metadata[d])
         => maker[d] \in Proc /\ pc'[maker[d]] \notin {"refused", "check_dir", "make_dir"}
            /\ \A p \in Proc \ {maker[d]} : pc'[p] = pc[p]]_vars

\* Metadata that say "completed" stand for a whole set of artifacts, although
\* they are written before the orchestrator's own check for missing ones.
CompletedIsWhole ==
  \A d \in Dir : metadata[d].status = "completed" => Required \subseteq files[d]

\* A completed run whose container was left behind, or may still come about,
\* says so in the cleanup record of its metadata.
LeftoverIsTold ==
  \A d \in Dir : metadata[d].status = "completed" /\ maker[d] \in Proc /\ held[maker[d]]
    => metadata[d].cleanup \notin {"ok", "none"}

\* run_v0_full_debug.sh: 'log_stage "probe_run" "starting run_v0_probe.py (live
\* stage output expected)"'.  A run is refused only for the directory of
\* another run.
RefusedForAnotherRun == \A p \in Proc : pc[p] = "refused" => maker[dirOf[p]] \in Proc
=============================================================================
