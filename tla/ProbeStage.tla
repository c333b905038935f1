------------------------------ MODULE ProbeStage ------------------------------
(***************************************************************************)
(* What a run does before its runtime is started: load_config, and the     *)
(* first half of _run_real_sequence (v0_orchestrator.py), the probes one   *)
(* after the other; and the capture of criu's logs at its end.  The record *)
(* of `criu --version` is the prerequisite of DockerCriuIntegration; that  *)
(* probe's container, the CUDA probe's and the MPS daemon are all on one   *)
(* host.  Nothing between the MPS probe and the capture touches what is    *)
(* modelled here.                                                          *)
(***************************************************************************)
EXTENDS HardwareProbe, Config

CONSTANTS
  Files,       \* configuration files
  Gpus         \* the reports' GPUs: sequences of [fb, bar1] totals

ASSUME GpusAssumption == Gpus \subseteq Seq([fb : Nat, bar1 : Nat])

\* What a file has at a section the program looks into: nothing, a scalar or a
\* list, or a mapping.  Of what lies elsewhere nothing is said.
ASSUME FilesAssumption ==
  \A file \in Files : \A section \in Sections :
    LET part == At(file.runtime_options, section) IN
    part = Absent \/ part.is \in {"value", "mapping"}

VARIABLES
  stage,       \* place in the sequence
  file,        \* history: the configuration file, until its options are used
  options,     \* runtime_options of the loaded configuration
  gpus,        \* history: what this host's nvidia-smi has to report
  hardware,    \* the record for hardware.json, while it is the last one made
  criu,        \* status of criu_check.json
  cuda,        \* the CUDA probe's container
  cudaReply,   \* its docker run's exit
  cudaStatus,  \* status of cuda_check.json
  entry,       \* diagnostics.criu_logs of docker_criu_integration.json
  pc, record, container, jobs, reply, seen, log, copy, tried,  \* of DockerCriuIntegration
  mpsPc, mpsStatus, daemon, pipe, late, found                  \* of MpsProbe

Integration == INSTANCE DockerCriuIntegration
Mps == INSTANCE MpsProbe

integrationVars == <<pc, record, container, jobs, reply, seen, log, copy, tried>>
configVars == <<file, options>>
cudaVars == <<cuda, cudaReply, cudaStatus>>
mpsVars  == <<mpsPc, mpsStatus, daemon, pipe, late, found>>
vars == <<stage, configVars, gpus, hardware, criu, cudaVars, entry, integrationVars, mpsVars>>

Stages == {"load", "begin", "hardware", "docker", "criu", "integration", "cuda", "await_cuda", "mps", "logs"}
Final  == {"done", "rejected", "raised"}

NotFiled == [status |-> "none", vram |-> 0]

TypeOK ==
  /\ stage \in Stages \cup Final
  /\ file \in Files \cup {Absent}
  /\ options.is \in {"mapping", "rejected", "absent"}
  /\ gpus \in Gpus \cup {<<>>}
  /\ hardware \in [status : Status, vram : Nat] \cup {NotFiled}
  /\ criu \in Status \cup {"none"}
  /\ cuda \in {"none", "requested", "created", "running"}
  /\ cudaReply \in Exit \cup {"none"}
  /\ cudaStatus \in Status \cup {"none"}
  /\ entry \in Integration!Entry
  /\ Integration!TypeOK
  /\ Mps!MpsTypeOK

Init ==
  /\ stage = "load"
  /\ file \in Files
  /\ options = Absent
  /\ gpus = <<>>
  /\ hardware = NotFiled
  /\ criu = "none"
  /\ cuda = "none" /\ cudaReply = "none" /\ cudaStatus = "none"
  /\ entry = "none"
  /\ Integration!Init
  /\ Mps!MpsInit

\* load_config, before anything is made or run.
Load ==
  /\ stage = "load"
  /\ options' = LoadConfig(file)
  /\ stage' = IF options' = Rejected THEN "rejected" ELSE "begin"
  /\ UNCHANGED <<file, gpus, hardware, criu, cudaVars, entry, integrationVars, mpsVars>>

\* The run directory is made and the sequence begins, on some host.  Here the
\* options are dropped; nobody changes them any more.
Begin ==
  /\ stage = "begin"
  /\ file' = Absent /\ options' = Absent
  /\ gpus' \in Gpus
  /\ stage' = "hardware"
  /\ UNCHANGED <<hardware, criu, cudaVars, entry, integrationVars, mpsVars>>

(***************************************************************************)
(* Probes that only read                                                   *)
(***************************************************************************)
Hardware ==
  /\ stage = "hardware"
  /\ hardware' \in HardwareRecords(gpus)
  /\ stage' = "docker"
  /\ UNCHANGED <<configVars, gpus, criu, cudaVars, entry, integrationVars, mpsVars>>

\* `docker version`: its record is filed whatever it says.  Here the hardware
\* record is dropped; no later step reads it.
DockerVersion ==
  /\ stage = "docker"
  /\ hardware' = NotFiled
  /\ gpus' = <<>>
  /\ stage' = "criu"
  /\ UNCHANGED <<configVars, criu, cudaVars, entry, integrationVars, mpsVars>>

CriuVersion ==
  /\ stage = "criu"
  /\ \E exit \in Exit : criu' = ClassifyCapability(exit)
  /\ stage' = "integration"
  /\ UNCHANGED <<configVars, gpus, hardware, cudaVars, entry, integrationVars, mpsVars>>

(***************************************************************************)
(* The integration probe                                                   *)
(***************************************************************************)
IntegrationStep ==
  /\ stage = "integration"
  /\ Integration!Prerequisite(criu) \/ Integration!ProbeStep
  /\ UNCHANGED <<stage, configVars, gpus, hardware, criu, cudaVars, entry, mpsVars>>

IntegrationReturns ==
  /\ stage = "integration"
  /\ pc = "returned"
  /\ stage' = "cuda"
  /\ UNCHANGED <<configVars, gpus, hardware, criu, cudaVars, entry, integrationVars, mpsVars>>

(***************************************************************************)
(* The CUDA probe: docker run --gpus all --rm <image> nvidia-smi, with no  *)
(* name and no label that anybody could remove its container by.           *)
(***************************************************************************)
RequestCuda ==
  /\ stage = "cuda"
  /\ \/ cuda' = "requested" /\ UNCHANGED cudaReply
     \/ cudaReply' = "missing" /\ UNCHANGED cuda
  /\ stage' = "await_cuda"
  /\ UNCHANGED <<configVars, gpus, hardware, criu, cudaStatus, entry, integrationVars, mpsVars>>

\* The daemon makes the container, or refuses.
CudaCreated ==
  /\ cuda = "requested"
  /\ \/ cuda' = "created" /\ UNCHANGED cudaReply
     \/ cuda' = "none" /\ cudaReply' \in {"nonzero", "incapable"}

\* The client starts what was created: one that was killed no longer does.
CudaStarted ==
  /\ cuda = "created"
  /\ stage = "await_cuda"
  /\ \/ cuda' = "running" /\ UNCHANGED cudaReply
     \/ cuda' = "none" /\ cudaReply' \in {"nonzero", "incapable"}

\* --rm: the container goes when nvidia-smi has ended.
CudaEnds ==
  /\ cuda = "running"
  /\ cuda' = "none"
  /\ cudaReply' \in {"zero", "nonzero", "incapable"}

CudaDaemonStep ==
  /\ CudaCreated \/ CudaStarted \/ CudaEnds
  /\ UNCHANGED <<stage, configVars, gpus, hardware, criu, cudaStatus, entry, integrationVars,
                 mpsVars>>

CudaReturns ==
  /\ stage = "await_cuda"
  /\ cudaStatus' = ClassifyCapability(IF cudaReply = "none" THEN "expired" ELSE cudaReply)
  /\ cudaReply' = "none"
  /\ stage' = "mps"
  /\ UNCHANGED <<configVars, gpus, hardware, criu, cuda, entry, integrationVars, mpsVars>>

(***************************************************************************)
(* The MPS probe, and the capture after the runtime's clean-up             *)
(***************************************************************************)
MpsStep ==
  /\ stage = "mps"
  /\ Mps!MpsStep
  /\ stage' = IF mpsPc' = "filed" THEN "logs" ELSE stage
  /\ UNCHANGED <<configVars, gpus, hardware, criu, cudaVars, entry, integrationVars>>

\* _capture_criu_logs over the filed records; an exception out of it is the
\* run's.
CaptureLogs ==
  /\ stage = "logs"
  /\ \E attempt \in Integration!CaptureLog(entry, record.names, log, copy) :
       /\ entry' = attempt.entry
       /\ copy' = attempt.copy
       /\ stage' = IF attempt.raised THEN "raised" ELSE "done"
  /\ UNCHANGED <<configVars, gpus, hardware, criu, cudaVars, pc, record, container, jobs,
                 reply, seen, log, tried, mpsVars>>

\* KeyboardInterrupt, a stage event that cannot be written, the process's end:
\* before the runtime there is no finally clause.
Interrupt ==
  /\ stage \notin Final
  /\ IF stage = "integration" /\ pc # "returned" THEN Integration!Interrupt
                                                 ELSE UNCHANGED integrationVars
  /\ stage' = "raised"
  /\ UNCHANGED <<configVars, gpus, hardware, criu, cudaVars, entry, mpsVars>>

IntegrationDaemonStep ==
  /\ Integration!DaemonStep
  /\ UNCHANGED <<stage, configVars, gpus, hardware, criu, cudaVars, entry, mpsVars>>

\* Elsewhere the MPS daemon's comings and goings are seen by nobody.
MpsHostStep ==
  /\ stage \in {"mps", "logs"}
  /\ Mps!HostStep
  /\ UNCHANGED <<stage, configVars, gpus, hardware, criu, cudaVars, entry, integrationVars>>

StageStep ==
  \/ Load \/ Begin \/ Hardware \/ DockerVersion \/ CriuVersion
  \/ IntegrationStep \/ IntegrationReturns
  \/ RequestCuda \/ CudaReturns
  \/ MpsStep \/ CaptureLogs

Next ==
  \/ StageStep \/ Interrupt
  \/ IntegrationDaemonStep \/ CudaDaemonStep \/ MpsHostStep

Spec == Init /\ [][Next]_vars

\* One thread, in which every command has a timeout, so it keeps moving;
\* nothing is assumed of the Docker and MPS daemons.
FairSpec == Spec /\ WF_vars(StageStep)

-----------------------------------------------------------------------------
(***************************************************************************)
(* Properties                                                              *)
(***************************************************************************)

\* Of DockerCriuIntegration, in the sequence it is part of.
NoSilentLeak          == Integration!NoSilentLeak
OkMeansRoundTrip      == Integration!OkMeansRoundTrip
EvidenceBeforeRemoval == Integration!EvidenceBeforeRemoval

\* Every option of a configuration that was accepted is the one its file, the
\* defaults and the model make at its path: a file that sets one option of a
\* server loses none of the others.
OptionsByPath ==
  options.is = "mapping" =>
    \A path \in OptionPaths : At(options, path) = Expected(file, path)

\* The host's video memory in the record is the sum over its GPUs as long as
\* each reports a number; a report that was cut short can only understate it.
VramIsTheSum ==
  hardware # NotFiled /\ (\A i \in DOMAIN gpus : gpus[i].fb # NotAvailable) =>
    /\ hardware.vram <= SumOfFb(gpus)
    /\ hardware.status = "ok" => hardware.vram = SumOfFb(gpus)

\* An OK record of a probe that starts something stands over nothing of its
\* making: no container of the CUDA probe's, no daemon of the MPS probe's, and
\* no command of theirs that is still to take effect.
OkLeavesNothing ==
  /\ cudaStatus = "ok" => cuda = "none"
  /\ mpsStatus = "ok" => daemon # "probe" /\ late = "none"

\* An MPS daemon that ran when the probe looked outlives it, unless the site
\* ends it: neither a missed control pipe nor a start that failed or was given
\* up leads to a quit that hits somebody else's daemon.
FoundDaemonSurvives == [][found => daemon' = "site" \/ ~found']_vars

\* An OK entry about criu's log stands over a whole copy of it.
OkEntryIsBacked == entry = "ok" => copy = "whole"

\* The sequence always ends: eight Docker commands, nvidia-smi in a container
\* and two MPS commands may hang, and cost their timeouts.
StageEnds == <>(stage \in Final)

\* "Record fallback command diagnostics in the existing
\* details.diagnostics.criu_logs artifact field" (plan of the automatic
\* capture): a run that ends with a copy of the log says so in the record.
SavedIsOnRecord == stage = "done" /\ copy = "whole" => entry = "ok"
=============================================================================
