---------------------------- MODULE RuntimeContract ----------------------------
(***************************************************************************)
(* What BaseRuntimeAdapter.start and stop promise the orchestrator about   *)
(* the container of a run.  RuntimeAdapter implements it for every run     *)
(* that has its container name to itself and calls docker run once;        *)
(* V0Orchestrator is written over it.                                      *)
(***************************************************************************)
EXTENDS ProbeStatus

CONSTANT Run

VARIABLES
  phase,       \* "idle" until start is left, "open" until stop is left, "left"
  session,     \* what start returned: a docker_server session, another, none
  held,        \* once start is left: Docker has a container of the run's, or
               \* a docker run of its that may still make one
  teardown     \* status of the runtime_teardown record, "none" without one

contractVars == <<phase, session, held, teardown>>

ContractTypeOK ==
  /\ phase \in [Run -> {"idle", "open", "left"}]
  /\ session \in [Run -> {"none", "docker", "other"}]
  /\ held \in [Run -> BOOLEAN]
  /\ teardown \in [Run -> Status \cup {"none"}]

ContractInit ==
  /\ phase = [r \in Run |-> "idle"]
  /\ session = [r \in Run |-> "none"]
  /\ held = [r \in Run |-> FALSE]
  /\ teardown = [r \in Run |-> "none"]

\* start returns a session; one that is not of a Docker server has no container.
StartReturns(r) ==
  /\ phase[r] = "idle"
  /\ \E mode \in {"docker", "other"}, up \in BOOLEAN :
       /\ mode = "other" => ~up
       /\ session' = [session EXCEPT ![r] = mode]
       /\ held' = [held EXCEPT ![r] = up]
  /\ phase' = [phase EXCEPT ![r] = "open"]
  /\ UNCHANGED teardown

\* start is left by an exception, wherever it was.
StartRaises(r) ==
  /\ phase[r] = "idle"
  /\ \E up \in BOOLEAN : held' = [held EXCEPT ![r] = up]
  /\ phase' = [phase EXCEPT ![r] = "left"]
  /\ UNCHANGED <<session, teardown>>

\* stop returns None, or the record of a teardown: OK only over nothing.
StopReturns(r) ==
  /\ phase[r] = "open"
  /\ IF session[r] = "docker"
       THEN \E status \in Status \ {"skipped"}, up \in {FALSE, held[r]} :
              /\ status = "ok" => ~up
              /\ teardown' = [teardown EXCEPT ![r] = status]
              /\ held' = [held EXCEPT ![r] = up]
       ELSE UNCHANGED <<teardown, held>>
  /\ phase' = [phase EXCEPT ![r] = "left"]
  /\ UNCHANGED session

\* stop is not called, or is left by an exception; or the process ends.
Abandon(r) ==
  /\ phase[r] = "open"
  /\ phase' = [phase EXCEPT ![r] = "left"]
  /\ UNCHANGED <<session, held, teardown>>

\* Docker refuses the docker run, or the container is removed.  There is no
\* action that gives a run a container again.
Lose(r) ==
  /\ held[r]
  /\ held' = [held EXCEPT ![r] = FALSE]
  /\ UNCHANGED <<phase, session, teardown>>

ContractNext ==
  \E r \in Run : \/ StartReturns(r) \/ StartRaises(r)
                 \/ StopReturns(r) \/ Abandon(r) \/ Lose(r)

ContractSpec == ContractInit /\ [][ContractNext]_contractVars
=============================================================================
