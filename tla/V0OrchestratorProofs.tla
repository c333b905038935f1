-------------------------- MODULE V0OrchestratorProofs --------------------------
(***************************************************************************)
(* Theorems about V0Orchestrator, for every set of processes, whichever of *)
(* them share an output directory or are started by the debug script.      *)
(***************************************************************************)
EXTENDS V0Orchestrator, TLAPS

\* The order of the records is an order of the records' names.
LEMMA OrderType ==
  ASSUME NEW p, NEW i \in DOMAIN RecordOrder(p)
  PROVE  RecordOrder(p)[i] \in RecordNames
BY DEF RecordOrder, LastRecords, RecordNames, EarlyProbes, LateRecords

\* What any step leaves alone, and how it changes the files: they only grow.
LEMMA Frame ==
  ASSUME TypeOK, [Next]_vars
  PROVE  /\ dirOf' = dirOf
         /\ \A d \in Dir : files[d] \subseteq files'[d]
<1> USE DEF TypeOK, procVars, dirVars, runtimeVars, Goto, Write
<1>1. ASSUME NEW p \in Proc, Step(p)
      PROVE  dirOf' = dirOf /\ \A d \in Dir : files[d] \subseteq files'[d]
  <2>1. CASE CheckDir(p) \/ MakeDir(p) \/ DumpConfig(p) \/ WriteRunning(p)
    BY <2>1 DEF CheckDir, MakeDir, DumpConfig, WriteRunning
  <2>2. CASE DryRun(p) \/ Probe(p) \/ StartRuntime(p)
    BY <2>2 DEF DryRun, Probe, StartRuntime
  <2>3. CASE Body(p)
    BY <2>3 DEF Body
  <2>4. CASE StopRuntime(p) \/ Bundle(p) \/ Complete(p) \/ Verify(p)
    BY <2>4 DEF StopRuntime, Bundle, Complete, Verify
  <2>5. CASE WriteArtifact(p)
    BY <2>5 DEF WriteArtifact
  <2>6. QED BY <1>1, <2>1, <2>2, <2>3, <2>4, <2>5 DEF Step
<1>2. ASSUME NEW p \in Proc, Raise(p) \/ Lose(p) PROVE dirOf' = dirOf /\ files' = files
  BY <1>2 DEF Raise, Lose
<1>3. CASE UNCHANGED vars
  BY <1>3 DEF vars
<1>4. QED BY <1>1, <1>2, <1>3 DEF Next

-----------------------------------------------------------------------------
(***************************************************************************)
(* Types                                                                   *)
(***************************************************************************)
RuntimeType == Runtime!ContractTypeOK

\* The contract's actions, which move the runtime's part, keep its types.
LEMMA RuntimeSteps ==
  ASSUME RuntimeType, NEW p \in Proc,
         \/ Runtime!StartReturns(p) \/ Runtime!StartRaises(p) \/ Runtime!StopReturns(p)
         \/ Runtime!Abandon(p) \/ Runtime!Lose(p) \/ UNCHANGED runtimeVars
  PROVE  RuntimeType'
<1> USE DEF RuntimeType, Runtime!ContractTypeOK
<1>1. CASE Runtime!StartReturns(p)
  BY <1>1 DEF Runtime!StartReturns
<1>2. CASE Runtime!StopReturns(p)
  BY <1>2 DEF Runtime!StopReturns
<1>3. CASE Runtime!StartRaises(p) \/ Runtime!Abandon(p) \/ Runtime!Lose(p)
  BY <1>3 DEF Runtime!StartRaises, Runtime!Abandon, Runtime!Lose
<1>4. CASE UNCHANGED runtimeVars
  BY <1>4 DEF runtimeVars
<1>5. QED BY <1>1, <1>2, <1>3, <1>4

\* Type correctness of the orchestrator's variables.
THEOREM TypeCorrect == Spec => []TypeOK
<1> USE DEF RuntimeType, procVars, dirVars, Goto, Write, Collect
<1>1. Init => TypeOK
  BY DEF Init, TypeOK, Pc, NoMetadata, Metadata, Status, Runtime!ContractInit,
         Runtime!ContractTypeOK
<1>2. TypeOK /\ [Next]_vars => TypeOK'
  <2> SUFFICES ASSUME TypeOK, [Next]_vars PROVE TypeOK'
    OBVIOUS
  <2> DEFINE RestType ==
        /\ dirOf \in [Proc -> Dir] /\ dry \in [Proc -> BOOLEAN]
        /\ pc \in [Proc -> Pc] /\ records \in [Proc -> SUBSET RecordNames]
        /\ maker \in [Dir -> Proc \cup {Nobody, Script}]
        /\ files \in [Dir -> SUBSET Required] /\ metadata \in [Dir -> Metadata]
  <2>0. RestType /\ RuntimeType /\ (RestType' /\ RuntimeType' => TypeOK')
    BY DEF TypeOK
  <2> USE DEF Pc, Final
  <2>1. ASSUME NEW p \in Proc, CheckDir(p) \/ MakeDir(p) PROVE RestType'
    BY <2>0, <2>1 DEF CheckDir, MakeDir
  <2>2. ASSUME NEW p \in Proc, DumpConfig(p) PROVE RestType'
    BY <2>0, <2>2 DEF DumpConfig, Required
  <2>3. ASSUME NEW p \in Proc, WriteRunning(p) PROVE RestType'
    BY <2>0, <2>3 DEF WriteRunning, Required, Metadata
  <2>4. ASSUME NEW p \in Proc, DryRun(p) \/ Probe(p) PROVE RestType'
    BY <2>0, <2>4 DEF DryRun, Probe, DryRecords, Required, RecordNames
  <2>5. ASSUME NEW p \in Proc, StartRuntime(p) PROVE RestType'
    BY <2>0, <2>5 DEF StartRuntime, RecordNames
  <2>6. ASSUME NEW p \in Proc, Body(p) PROVE RestType'
    BY <2>0, <2>6 DEF Body, Required, RecordNames
  <2>7. ASSUME NEW p \in Proc, StopRuntime(p) \/ Bundle(p) \/ Verify(p) PROVE RestType'
    BY <2>0, <2>7 DEF StopRuntime, Bundle, Verify
  <2>8. ASSUME NEW p \in Proc, WriteArtifact(p) PROVE RestType'
    <3>1. RecordNames \subseteq Required BY DEF Required
    <3>2. QED BY <2>0, <2>8, <3>1, OrderType DEF WriteArtifact
  <2>9. ASSUME NEW p \in Proc, Complete(p) PROVE RestType'
    <3>1. teardown[p] \in Status \cup {"none"}
      BY <2>0 DEF Runtime!ContractTypeOK, Status, Runtime!Status
    <3>2. QED BY <2>0, <2>9, <3>1 DEF Complete, Metadata
  <2>10. ASSUME NEW p \in Proc, Raise(p) \/ Lose(p) PROVE RestType'
    BY <2>0, <2>10 DEF Raise, Lose
  <2>11. ASSUME NEW p \in Proc, Step(p) \/ Raise(p) \/ Lose(p) PROVE RuntimeType'
    <3>1. CASE StartRuntime(p)
      BY <2>0, <3>1, RuntimeSteps DEF StartRuntime
    <3>2. CASE StopRuntime(p)
      BY <2>0, <3>2, RuntimeSteps DEF StopRuntime
    <3>3. CASE Raise(p)
      BY <2>0, <3>3, RuntimeSteps DEF Raise
    <3>4. CASE Lose(p)
      BY <2>0, <3>4, RuntimeSteps DEF Lose
    <3>5. CASE \/ CheckDir(p) \/ MakeDir(p) \/ DumpConfig(p) \/ WriteRunning(p)
               \/ DryRun(p) \/ Probe(p) \/ Body(p)
               \/ Bundle(p) \/ WriteArtifact(p) \/ Complete(p) \/ Verify(p)
      BY <2>0, <3>5, RuntimeSteps
      DEF CheckDir, MakeDir, DumpConfig, WriteRunning, DryRun, Probe, Body, Bundle,
          WriteArtifact, Complete, Verify
    <3>6. QED BY <2>11, <3>1, <3>2, <3>3, <3>4, <3>5 DEF Step
  <2>12. CASE UNCHANGED vars
    BY <2>0, <2>12 DEF vars, runtimeVars, Runtime!ContractTypeOK
  <2>13. ASSUME NEW p \in Proc, Step(p) PROVE RestType'
    BY <2>1, <2>2, <2>3, <2>4, <2>5, <2>6, <2>7, <2>8, <2>9, <2>13 DEF Step
  <2>14. ASSUME NEW p \in Proc, Step(p) \/ Raise(p) \/ Lose(p) PROVE TypeOK'
    BY <2>0, <2>10, <2>11, <2>13, <2>14
  <2>15. QED BY <2>12, <2>14 DEF Next
<1>3. QED BY <1>1, <1>2, PTL DEF Spec
-----------------------------------------------------------------------------
(***************************************************************************)
(* Who writes into a directory                                             *)
(***************************************************************************)

\* The places between mkdir and the end of the run.
Working == {"config", "running", "collect", "runtime", "body", "teardown", "unwind", "bundle",
            "write", "complete", "verify"}

\* Why only the maker writes: a process works only in a directory it made, and a
\* directory has one maker for good.
MakerWorks == \A p \in Proc : pc[p] \in Working => maker[dirOf[p]] = p

\* A process moves only itself, and to a working place only from one, but for mkdir.
LEMMA OneMoves ==
  ASSUME TypeOK, NEW p \in Proc, Step(p) \/ Raise(p) \/ Lose(p)
  PROVE  /\ \A q \in Proc \ {p} : pc'[q] = pc[q]
         /\ pc'[p] \in Working => pc[p] \in Working \/ MakeDir(p)
<1> USE DEF TypeOK, Goto, Pc, Final, Working
<1>1. CASE CheckDir(p) \/ MakeDir(p) \/ DumpConfig(p) \/ WriteRunning(p)
  BY <1>1 DEF CheckDir, MakeDir, DumpConfig, WriteRunning
<1>2. CASE DryRun(p) \/ Probe(p) \/ StartRuntime(p) \/ Body(p)
  BY <1>2 DEF DryRun, Probe, StartRuntime, Body
<1>3. CASE StopRuntime(p) \/ Bundle(p) \/ WriteArtifact(p)
  BY <1>3 DEF StopRuntime, Bundle, WriteArtifact
<1>4. CASE Complete(p) \/ Verify(p) \/ Raise(p) \/ Lose(p)
  BY <1>4 DEF Complete, Verify, Raise, Lose
<1>5. QED BY <1>1, <1>2, <1>3, <1>4 DEF Step

\* The maker of a directory changes only when mkdir makes it.
LEMMA OneMaker ==
  ASSUME TypeOK, NEW p \in Proc, Step(p) \/ Raise(p) \/ Lose(p)
  PROVE  \/ maker' = maker
         \/ /\ MakeDir(p) /\ maker[dirOf[p]] = Nobody
            /\ maker' = [maker EXCEPT ![dirOf[p]] = p]
BY DEF Step, CheckDir, MakeDir, DumpConfig, WriteRunning, DryRun, Probe, StartRuntime, Body,
       StopRuntime, Bundle, WriteArtifact, Complete, Verify, Raise, Lose, dirVars

\* Only a mkdir that succeeds lets a process past it.
LEMMA MakerWorksStep ==
  ASSUME TypeOK, MakerWorks, [Next]_vars
  PROVE  MakerWorks'
<1>1. ASSUME NEW p \in Proc, Step(p) \/ Raise(p) \/ Lose(p) PROVE MakerWorks'
  <2> SUFFICES ASSUME NEW q \in Proc, pc'[q] \in Working PROVE maker'[dirOf[q]] = q
    BY Frame DEF MakerWorks
  <2>0. dirOf[p] \in Dir /\ dirOf[q] \in Dir
    BY DEF TypeOK
  <2>1. pc[q] \in Working => maker[dirOf[q]] = q
    BY DEF MakerWorks
  <2>2. CASE q = p
    <3>1. CASE MakeDir(p)
      <4>1. maker[dirOf[p]] = Nobody
        BY <2>0, <2>2, <3>1 DEF MakeDir, Goto, Working, TypeOK
      <4>2. QED BY <2>0, <2>2, <3>1, <4>1 DEF MakeDir, TypeOK
    <3>2. CASE ~MakeDir(p)
      BY <1>1, <2>1, <2>2, <3>2, OneMoves, OneMaker
    <3>3. QED BY <3>1, <3>2
  <2>3. CASE q # p
    BY <1>1, <2>0, <2>1, <2>3, OneMoves, OneMaker, V0OrchestratorAssumption
    DEF TypeOK, V0OrchestratorAssumption
  <2>4. QED BY <2>2, <2>3
<1>2. CASE UNCHANGED vars
  BY <1>2 DEF vars, procVars, dirVars, MakerWorks
<1>3. QED BY <1>1, <1>2 DEF Next

\* Of two runs started for one directory only its maker changes what is in it.
THEOREM OnlyMakerWritesHolds == Spec => OnlyMakerWrites
<1>1. Init => MakerWorks
  BY DEF Init, MakerWorks, Working
<1>2. TypeOK /\ MakerWorks /\ [Next]_vars => MakerWorks'
  BY MakerWorksStep
<1> DEFINE Act == \A d \in Dir :
      (files'[d] # files[d] \/ metadata'[d] # metadata[d])
        => maker[d] \in Proc /\ pc'[maker[d]] \notin {"refused", "check_dir", "make_dir"}
           /\ \A p \in Proc \ {maker[d]} : pc'[p] = pc[p]
<1>3. TypeOK /\ MakerWorks /\ [Next]_vars => [Act]_vars
  <2> SUFFICES ASSUME TypeOK, MakerWorks, Next,
                      NEW d \in Dir, files'[d] # files[d] \/ metadata'[d] # metadata[d]
               PROVE  /\ maker[d] \in Proc
                      /\ pc'[maker[d]] \notin {"refused", "check_dir", "make_dir"}
                      /\ \A p \in Proc \ {maker[d]} : pc'[p] = pc[p]
    OBVIOUS
  <2>1. PICK p \in Proc : Step(p) \/ Raise(p) \/ Lose(p)
    BY DEF Next
  <2>2. \/ DumpConfig(p) \/ WriteRunning(p) \/ DryRun(p) \/ Body(p)
        \/ WriteArtifact(p) \/ Complete(p)
    BY <2>1 DEF Step, CheckDir, MakeDir, Probe, StartRuntime, StopRuntime, Bundle, Verify,
                Raise, Lose, dirVars
  <2>3. d = dirOf[p] /\ pc[p] \in Working
    BY <2>2 DEF TypeOK, DumpConfig, WriteRunning, DryRun, Body, WriteArtifact, Complete,
                Write, Working
  <2>4. maker[d] = p
    BY <2>3 DEF MakerWorks
  <2>5. pc'[p] \notin {"refused", "check_dir", "make_dir"}
    BY <2>2 DEF TypeOK, DumpConfig, WriteRunning, DryRun, Body, WriteArtifact, Complete, Goto
  <2>6. QED BY <2>1, <2>4, <2>5, OneMoves
<1>4. QED BY <1>1, <1>2, <1>3, TypeCorrect, PTL DEF Spec, OnlyMakerWrites
-----------------------------------------------------------------------------
(***************************************************************************)
(* What is written when the metadata say "completed"                       *)
(***************************************************************************)

AfterConfig == Working \ {"config"}
AfterMetadata == AfterConfig \ {"running"}
AtTheEnd == {"bundle", "write", "complete"}

\* How far the records and the artifacts of a run have come at each place.
ProgressOf(p) ==
  /\ pc[p] \in AfterConfig => {"stage_events", "config"} \subseteq files[dirOf[p]]
  /\ pc[p] \in AfterMetadata => "run_metadata" \in files[dirOf[p]]
  /\ pc[p] \in {"runtime", "body", "teardown"} \cup AtTheEnd /\ ~dry[p]
       => EarlyProbes \subseteq records[p]
  /\ pc[p] \in {"body", "teardown"} \cup AtTheEnd /\ ~dry[p]
       => "runtime_check" \in records[p]
  /\ pc[p] \in {"teardown"} \cup AtTheEnd /\ ~dry[p]
       => LateRecords \subseteq records[p] /\ SmokeLines \subseteq files[dirOf[p]]
  /\ pc[p] \in {"runtime", "body", "teardown"} => ~dry[p]
  /\ pc[p] \in AtTheEnd /\ dry[p]
       => RecordNames \subseteq records[p] /\ SmokeLines \subseteq files[dirOf[p]]
  /\ pc[p] = "complete" => records[p] \subseteq files[dirOf[p]]

Progress == \A p \in Proc : ProgressOf(p)

\* A run that comes to its last write has written every required artifact.
LEMMA EndIsWhole ==
  ASSUME Progress, NEW p \in Proc, pc[p] = "complete"
  PROVE  Required \subseteq files[dirOf[p]]
BY DEF Progress, ProgressOf, Required, RecordNames, AtTheEnd, AfterConfig, AfterMetadata,
       Working

\* The records in memory only grow, and a process keeps its own; dry never changes.
LEMMA RecordsGrow ==
  ASSUME TypeOK, NEW p \in Proc, Step(p) \/ Raise(p) \/ Lose(p)
  PROVE  /\ dry' = dry
         /\ \A q \in Proc : records[q] \subseteq records'[q]
         /\ \A q \in Proc \ {p} : records'[q] = records[q]
<1> USE DEF TypeOK, Collect, procVars
<1>1. CASE CheckDir(p) \/ MakeDir(p) \/ DumpConfig(p) \/ WriteRunning(p)
  BY <1>1 DEF CheckDir, MakeDir, DumpConfig, WriteRunning
<1>2. CASE DryRun(p) \/ Probe(p) \/ StartRuntime(p) \/ Body(p)
  BY <1>2 DEF DryRun, Probe, StartRuntime, Body
<1>3. CASE StopRuntime(p) \/ Bundle(p) \/ WriteArtifact(p)
  BY <1>3 DEF StopRuntime, Bundle, WriteArtifact
<1>4. CASE Complete(p) \/ Verify(p) \/ Raise(p) \/ Lose(p)
  BY <1>4 DEF Complete, Verify, Raise, Lose
<1>5. QED BY <1>1, <1>2, <1>3, <1>4 DEF Step

\* Records and artifacts come in the order of the code, and files only grow.
LEMMA ProgressStep ==
  ASSUME TypeOK, Progress, [Next]_vars
  PROVE  Progress'
<1>1. ASSUME NEW p \in Proc, Step(p) \/ Raise(p) \/ Lose(p) PROVE Progress'
  <2>0. /\ dirOf' = dirOf /\ dry' = dry
        /\ \A q \in Proc : dirOf[q] \in Dir
        /\ \A d \in Dir : files[d] \subseteq files'[d]
        /\ \A q \in Proc : records[q] \subseteq records'[q]
    BY <1>1, Frame, RecordsGrow DEF TypeOK
  <2>1. ASSUME NEW q \in Proc \ {p} PROVE ProgressOf(q)'
    <3>1. pc'[q] = pc[q] /\ records'[q] = records[q]
      BY <1>1, <2>1, OneMoves, RecordsGrow
    <3>2. QED BY <2>0, <3>1 DEF Progress, ProgressOf
  <2>2. ProgressOf(p)
    BY DEF Progress
  <2>3. ProgressOf(p)'
    <3> USE <2>0, <2>2 DEF ProgressOf, AfterConfig, AfterMetadata, AtTheEnd, Working, Goto,
            TypeOK
    <3>1. CASE CheckDir(p) \/ MakeDir(p)
      BY <3>1 DEF CheckDir, MakeDir
    <3>2. CASE DumpConfig(p)
      BY <3>2 DEF DumpConfig, Write
    <3>3. CASE WriteRunning(p)
      BY <3>3 DEF WriteRunning, Write
    <3>4. CASE DryRun(p)
      BY <3>4 DEF DryRun, DryRecords, Write, Collect
    <3>5. CASE Probe(p)
      BY <3>5 DEF Probe, Collect
    <3>6. CASE StartRuntime(p)
      BY <3>6 DEF StartRuntime, Collect
    <3>7. CASE Body(p)
      BY <3>7 DEF Body, Collect, Write
    <3>8. CASE StopRuntime(p) \/ Bundle(p)
      BY <3>8 DEF StopRuntime, Bundle
    <3>9. CASE WriteArtifact(p)
      BY <3>9 DEF WriteArtifact
    <3>10. CASE Complete(p) \/ Verify(p)
      BY <3>10 DEF Complete, Verify
    <3>11. CASE Raise(p) \/ Lose(p)
      BY <3>11 DEF Raise, Lose, Final
    <3>12. QED
      BY <1>1, <3>1, <3>2, <3>3, <3>4, <3>5, <3>6, <3>7, <3>8, <3>9, <3>10, <3>11 DEF Step
  <2>4. QED BY <2>1, <2>3 DEF Progress
<1>2. CASE UNCHANGED vars
  BY <1>2 DEF vars, procVars, dirVars, Progress, ProgressOf
<1>3. QED BY <1>1, <1>2 DEF Next

\* Metadata that say "completed" stand for every required artifact.
THEOREM CompletedIsWholeHolds == Spec => []CompletedIsWhole
<1>1. Init => Progress /\ CompletedIsWhole
  BY DEF Init, Progress, ProgressOf, CompletedIsWhole, NoMetadata, AfterConfig, AfterMetadata,
         AtTheEnd, Working
<1>2. TypeOK /\ Progress /\ CompletedIsWhole /\ [Next]_vars => Progress' /\ CompletedIsWhole'
  <2> SUFFICES ASSUME TypeOK, Progress, CompletedIsWhole, [Next]_vars PROVE CompletedIsWhole'
    BY ProgressStep
  <2>0. \A d \in Dir : files[d] \subseteq files'[d]
    BY Frame
  <2>1. ASSUME NEW p \in Proc, Complete(p) PROVE CompletedIsWhole'
    <3>1. Required \subseteq files[dirOf[p]]
      BY <2>1, EndIsWhole DEF Complete
    <3>2. \A d \in Dir : metadata'[d].status = "completed"
                           => d = dirOf[p] \/ metadata[d].status = "completed"
      BY <2>1 DEF Complete, TypeOK
    <3>3. QED BY <2>0, <3>1, <3>2 DEF CompletedIsWhole
  <2>2. ASSUME NEW p \in Proc, WriteRunning(p) PROVE CompletedIsWhole'
    <3>1. \A d \in Dir : metadata'[d].status = "completed" => metadata[d].status = "completed"
      BY <2>2 DEF WriteRunning, TypeOK
    <3>2. QED BY <2>0, <3>1 DEF CompletedIsWhole
  <2>3. CASE UNCHANGED metadata
    BY <2>0, <2>3 DEF CompletedIsWhole
  <2>4. QED
    BY <2>1, <2>2, <2>3
    DEF Next, Step, CheckDir, MakeDir, DumpConfig, DryRun, Probe, StartRuntime, Body,
        StopRuntime, Bundle, WriteArtifact, Verify, Raise, Lose, dirVars, vars
<1>3. QED BY <1>1, <1>2, TypeCorrect, PTL DEF Spec
-----------------------------------------------------------------------------
(***************************************************************************)
(* What the cleanup record of a completed run says                         *)
(***************************************************************************)

Told(p) == held[p] => teardown[p] \notin {"ok", "none"}

\* Where a run stands with its container at each place.
HoldingOf(p) ==
  /\ phase[p] = "idle" => ~held[p] /\ session[p] = "none"
  /\ session[p] = "other" => ~held[p]
  /\ phase[p] = "open" => session[p] # "none"
  /\ pc[p] \in {"check_dir", "make_dir", "config", "running", "collect", "runtime"}
       => phase[p] = "idle"
  /\ pc[p] \in {"body", "teardown"} => phase[p] = "open"
  /\ pc[p] \in AtTheEnd => phase[p] # "open" /\ Told(p)

Holding == \A p \in Proc : HoldingOf(p)

\* Metadata that say "completed" are the last the maker wrote, after its teardown.
CompletedOf(d) ==
  metadata[d].status = "completed" =>
    /\ maker[d] \in Proc
    /\ pc[maker[d]] \in {"verify", "done", "raised", "crashed"}
    /\ phase[maker[d]] # "open"
    /\ held[maker[d]] => metadata[d].cleanup \notin {"ok", "none"}

Completed == \A d \in Dir : CompletedOf(d)

\* What a process of its own does to its part of the contract's variables.
LEMMA OthersHold ==
  ASSUME TypeOK, NEW p \in Proc, Step(p) \/ Raise(p) \/ Lose(p)
  PROVE  \A q \in Proc \ {p} : /\ phase'[q] = phase[q] /\ session'[q] = session[q]
                               /\ held'[q] = held[q] /\ teardown'[q] = teardown[q]
<1> USE DEF TypeOK, runtimeVars, Runtime!ContractTypeOK, Runtime!StartReturns,
        Runtime!StartRaises, Runtime!StopReturns, Runtime!Abandon, Runtime!Lose
<1>1. CASE StartRuntime(p)
  BY <1>1 DEF StartRuntime
<1>2. CASE StopRuntime(p)
  BY <1>2 DEF StopRuntime
<1>3. CASE Raise(p) \/ Lose(p)
  BY <1>3 DEF Raise, Lose
<1>4. CASE UNCHANGED runtimeVars
  BY <1>4
<1>5. QED
  BY <1>1, <1>2, <1>3, <1>4
  DEF Step, CheckDir, MakeDir, DumpConfig, WriteRunning, DryRun, Probe, Body, Bundle,
      WriteArtifact, Complete, Verify

\* What a run holds follows from where it stands with its runtime.
LEMMA HoldingStep ==
  ASSUME TypeOK, Holding, [Next]_vars
  PROVE  Holding'
<1>1. ASSUME NEW p \in Proc, Step(p) \/ Raise(p) \/ Lose(p) PROVE Holding'
  <2>1. ASSUME NEW q \in Proc \ {p} PROVE HoldingOf(q)'
    BY <1>1, <2>1, OneMoves, OthersHold DEF Holding, HoldingOf, Told
  <2>2. HoldingOf(p)
    BY DEF Holding
  <2>3. HoldingOf(p)'
    <3> USE <2>2 DEF HoldingOf, Told, AtTheEnd, Goto, TypeOK, runtimeVars,
            Runtime!ContractTypeOK
    <3>1. CASE CheckDir(p) \/ MakeDir(p) \/ DumpConfig(p) \/ WriteRunning(p)
      BY <3>1 DEF CheckDir, MakeDir, DumpConfig, WriteRunning
    <3>2. CASE DryRun(p) \/ Probe(p)
      BY <3>2 DEF DryRun, Probe
    <3>3. CASE StartRuntime(p)
      <4>1. CASE Runtime!StartReturns(p) /\ Goto(p, "body")
        <5>1. /\ phase'[p] = "open" /\ session'[p] \in {"docker", "other"}
              /\ session'[p] = "other" => ~held'[p]
          BY <4>1 DEF Runtime!StartReturns
        <5>2. pc'[p] = "body"
          BY <4>1
        <5>3. QED BY <5>1, <5>2
      <4>2. CASE Runtime!StartRaises(p) /\ Goto(p, "unwind")
        <5>1. phase'[p] = "left" /\ session'[p] = session[p] /\ session[p] # "other"
          BY <4>2 DEF Runtime!StartRaises
        <5>2. pc'[p] = "unwind"
          BY <4>2
        <5>3. QED BY <5>1, <5>2
      <4>3. QED BY <3>3, <4>1, <4>2 DEF StartRuntime
    <3>4. CASE Body(p)
      BY <3>4 DEF Body
    <3>5. CASE StopRuntime(p)
      BY <3>5 DEF StopRuntime, Runtime!StopReturns, Status, Runtime!Status
    <3>6. CASE Bundle(p) \/ WriteArtifact(p) \/ Complete(p) \/ Verify(p)
      BY <3>6 DEF Bundle, WriteArtifact, Complete, Verify
    <3>7. CASE Raise(p)
      <4>1. pc'[p] \in {"raised", "crashed"}
        BY <3>7 DEF Raise
      <4>2. CASE Runtime!StartRaises(p)
        BY <4>1, <4>2 DEF Runtime!StartRaises
      <4>3. CASE Runtime!Abandon(p)
        BY <4>1, <4>3 DEF Runtime!Abandon
      <4>4. CASE UNCHANGED runtimeVars
        BY <4>1, <4>4
      <4>5. QED BY <3>7, <4>2, <4>3, <4>4 DEF Raise
    <3>8. CASE Lose(p)
      BY <3>8 DEF Lose, Runtime!Lose
    <3>9. QED BY <1>1, <3>1, <3>2, <3>3, <3>4, <3>5, <3>6, <3>7, <3>8 DEF Step
  <2>4. QED BY <2>1, <2>3 DEF Holding
<1>2. CASE UNCHANGED vars
  BY <1>2 DEF vars, runtimeVars, Holding, HoldingOf, Told
<1>3. QED BY <1>1, <1>2 DEF Next

\* Once a run is completed its process no longer starts, stops or gains a container.
LEMMA AtRest ==
  ASSUME TypeOK, NEW p \in Proc, Step(p) \/ Raise(p) \/ Lose(p),
         pc[p] \in {"verify", "done", "raised", "crashed"}, phase[p] # "open"
  PROVE  /\ pc'[p] \in {"verify", "done", "raised", "crashed"}
         /\ phase'[p] = phase[p] /\ (held'[p] => held[p])
         /\ metadata' = metadata /\ maker' = maker
<1>1. Verify(p) \/ Raise(p) \/ Lose(p)
  BY DEF Step, CheckDir, MakeDir, DumpConfig, WriteRunning, DryRun, Probe, StartRuntime, Body,
         StopRuntime, Bundle, WriteArtifact, Complete
<1>2. QED
  BY <1>1 DEF Verify, Raise, Lose, Runtime!Lose, Goto, dirVars, runtimeVars, TypeOK,
              Runtime!ContractTypeOK

\* Once the metadata say completed, a container can only be lost.
LEMMA CompletedStep ==
  ASSUME TypeOK, MakerWorks, Holding, Completed, [Next]_vars
  PROVE  Completed'
<1>1. ASSUME NEW p \in Proc, Step(p) \/ Raise(p) \/ Lose(p), NEW d \in Dir,
             metadata'[d].status = "completed"
      PROVE  CompletedOf(d)'
  <2>1. CASE Complete(p) /\ d = dirOf[p]
    <3>1. pc[p] = "complete" /\ maker' = maker /\ UNCHANGED runtimeVars
          /\ pc'[p] = "verify" /\ metadata'[d].cleanup = teardown[p]
      BY <2>1 DEF Complete, Goto, TypeOK
    <3>2. maker[d] = p
      BY <2>1, <3>1 DEF MakerWorks, Working
    <3>3. phase[p] # "open" /\ Told(p)
      BY <3>1 DEF Holding, HoldingOf, AtTheEnd
    <3>4. QED BY <3>1, <3>2, <3>3 DEF CompletedOf, Told, runtimeVars
  <2>2. CASE ~(Complete(p) /\ d = dirOf[p])
    <3>1. metadata'[d] = metadata[d]
      BY <1>1, <2>2
      DEF Step, CheckDir, MakeDir, DumpConfig, WriteRunning, DryRun, Probe, StartRuntime, Body,
          StopRuntime, Bundle, WriteArtifact, Complete, Verify, Raise, Lose, dirVars, TypeOK
    <3>2. CompletedOf(d) /\ metadata[d].status = "completed"
      BY <1>1, <3>1 DEF Completed
    <3>3. maker'[d] = maker[d]
      BY <1>1, <3>2, OneMaker, V0OrchestratorAssumption
      DEF CompletedOf, TypeOK, V0OrchestratorAssumption
    <3>4. CASE maker[d] = p
      BY <1>1, <3>1, <3>2, <3>3, <3>4, AtRest DEF CompletedOf
    <3>5. CASE maker[d] # p
      BY <1>1, <3>1, <3>2, <3>3, <3>5, OneMoves, OthersHold DEF CompletedOf
    <3>6. QED BY <3>4, <3>5
  <2>3. QED BY <2>1, <2>2
<1>2. CASE UNCHANGED vars
  BY <1>2 DEF vars, dirVars, runtimeVars, Completed, CompletedOf
<1>3. QED BY <1>1, <1>2 DEF Next, Completed, CompletedOf

\* A completed run whose container is still there says so in its cleanup record.
THEOREM LeftoverIsToldHolds == Spec => []LeftoverIsTold
<1>1. Init => MakerWorks /\ Holding /\ Completed
  BY DEF Init, MakerWorks, Working, Holding, HoldingOf, AtTheEnd, Completed, CompletedOf,
         NoMetadata, Runtime!ContractInit
<1>2. TypeOK /\ MakerWorks /\ Holding /\ Completed /\ [Next]_vars
        => MakerWorks' /\ Holding' /\ Completed'
  BY MakerWorksStep, HoldingStep, CompletedStep
<1>3. Completed => LeftoverIsTold
  BY DEF Completed, CompletedOf, LeftoverIsTold
<1>4. QED BY <1>1, <1>2, <1>3, TypeCorrect, PTL DEF Spec
-----------------------------------------------------------------------------
(***************************************************************************)
(* The runtime behind the orchestrator                                     *)
(***************************************************************************)

\* A step of one process moves the runtime's part by one of the contract's
\* actions for that process, or not at all.
LEMMA RuntimeMoves ==
  ASSUME NEW p \in Proc, Step(p) \/ Raise(p) \/ Lose(p)
  PROVE  \/ Runtime!StartReturns(p) \/ Runtime!StartRaises(p) \/ Runtime!StopReturns(p)
         \/ Runtime!Abandon(p) \/ Runtime!Lose(p) \/ UNCHANGED runtimeVars
<1>1. CASE StartRuntime(p) \/ StopRuntime(p) \/ Raise(p) \/ Lose(p)
  BY <1>1 DEF StartRuntime, StopRuntime, Raise, Lose
<1>2. CASE ~(StartRuntime(p) \/ StopRuntime(p) \/ Raise(p) \/ Lose(p))
  BY <1>2 DEF Step, CheckDir, MakeDir, DumpConfig, WriteRunning, DryRun, Probe, Body, Bundle,
              WriteArtifact, Complete, Verify
<1>3. QED BY <1>1, <1>2

\* The orchestrators drive their runtimes by RuntimeContract: stop never comes
\* before start has returned, nor twice, whichever exceptions lead to the
\* finally clause.  It is what ContractKept of RuntimeAdapter is about.
THEOREM ContractFollowed == Spec => Runtime!ContractSpec
<1>1. Init => Runtime!ContractInit BY DEF Init
<1>2. [Next]_vars => [Runtime!ContractNext]_(Runtime!contractVars)
  BY RuntimeMoves
  DEF Next, vars, runtimeVars, Runtime!contractVars, Runtime!ContractNext
<1>3. QED BY <1>1, <1>2, PTL DEF Spec, Runtime!ContractSpec
=============================================================================
