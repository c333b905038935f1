------------------------- MODULE RuntimeAdapterProofs -------------------------
(***************************************************************************)
(* Theorems about RuntimeAdapter, for every set of runs and names,         *)
(* whichever of them coincide: types, strangers' containers, and that the  *)
(* adapters implement RuntimeContract.                                     *)
(***************************************************************************)
EXTENDS RuntimeAdapter, TLAPS

\* A subprocess' status is OK exactly after a zero exit, and never SKIPPED.
LEMMA RunCommandStatus ==
  ASSUME NEW exit \in Exit
  PROVE  /\ RunCommand(exit) \in Status \ {"skipped"}
         /\ RunCommand(exit) = "ok" <=> exit = "zero"
         /\ ClassifyCapability(exit) \in Status
BY DEF RunCommand, ClassifyCapability, Exit, Status

\* A client ends with what the daemon answered, or at its timeout.
LEMMA ClientExitType ==
  ASSUME TypeOK, NEW r \in Run
  PROVE  ClientExit(r) \in Exit /\ (ClientExit(r) = "zero" <=> reply[r] = "zero")
BY DEF TypeOK, ClientExit, Exit

\* What one run does with its requests, its place and what it returns.
RunAction(r) == RunStep(r) \/ StartRaises(r) \/ StopRaises(r) \/ Crash(r)

Serve(r) == ServeRun(r) \/ ServeRm(r)

\* A step is a step of one run, or of the daemon for it.
LEMMA NextSplit == Next <=> \/ \E r \in Run : RunAction(r) \/ Serve(r)
                            \/ \E n \in Name : ServerDies(n)
BY DEF Next, RunAction, Serve

\* What a run does leaves the other runs, the containers and the configuration
\* alone.
LEMMA RunFrame ==
  ASSUME TypeOK, NEW r \in Run, RunAction(r)
  PROVE  /\ UNCHANGED <<adapter, named, creator, alive>>
         /\ \A q \in Run \ {r} : /\ pc'[q] = pc[q] /\ session'[q] = session[q]
                              /\ teardown'[q] = teardown[q] /\ reply'[q] = reply[q]
                              /\ \A kind \in {"run", "rm"} :
                                   <<q, kind>> \in jobs' <=> <<q, kind>> \in jobs
<1> USE DEF TypeOK, Continue, Return, Finish, Request, Goto, configVars, dockerVars
<1>1. CASE Start(r)
  BY <1>1 DEF Start
<1>2. CASE InspectImage(r) \/ Pull(r) \/ RunReturns(r) \/ Ready(r)
  BY <1>2 DEF InspectImage, Pull, RunReturns, Ready
<1>3. CASE RequestRun(r) \/ RequestRetry(r) \/ RequestRm(r)
  BY <1>3 DEF RequestRun, RequestRetry, RequestRm
<1>4. CASE Use(r) \/ NothingToStop(r) \/ InspectLabels(r) \/ RmReturns(r)
  BY <1>4 DEF Use, NothingToStop, InspectLabels, RmReturns
<1>5. CASE StartRaises(r) \/ StopRaises(r) \/ Crash(r)
  BY <1>5 DEF StartRaises, StopRaises, Crash
<1>6. QED BY <1>1, <1>2, <1>3, <1>4, <1>5 DEF RunAction, RunStep

\* What the daemon does for a run, seen from its own and from the other runs.
LEMMA ServeFrame ==
  ASSUME TypeOK, NEW r \in Run, Serve(r)
  PROVE  /\ UNCHANGED <<adapter, named, pc, session, teardown>>
         /\ jobs' \subseteq jobs
         /\ \A q \in Run \ {r} : /\ reply'[q] = reply[q]
                              /\ \A kind \in {"run", "rm"} :
                                   <<q, kind>> \in jobs' <=> <<q, kind>> \in jobs
         /\ \A n \in Name : creator'[n] # creator[n] =>
              \/ /\ n = named[r] /\ ServeRun(r) /\ <<r, "run">> \in jobs
                 /\ <<r, "run">> \notin jobs' /\ creator[n] = Nobody /\ creator'[n] = r
              \/ n = named[r] /\ ServeRm(r) /\ creator'[n] = Nobody
<1>1. CASE ServeRun(r)
  BY <1>1 DEF ServeRun, Answer, TypeOK, configVars
<1>2. CASE ServeRm(r)
  BY <1>2 DEF ServeRm, Answer, TypeOK, configVars
<1>3. QED BY <1>1, <1>2 DEF Serve

-----------------------------------------------------------------------------
(***************************************************************************)
(* Types                                                                   *)
(***************************************************************************)

\* Type correctness of the adapters' and the daemon's variables.
THEOREM TypeCorrect == Spec => []TypeOK
<1>1. Init => TypeOK
  BY RuntimeAdapterAssumption
  DEF Init, TypeOK, Pc, NoSession, Session, Mode, RuntimeAdapterAssumption
<1>2. TypeOK /\ [Next]_vars => TypeOK'
  <2> SUFFICES ASSUME TypeOK, [Next]_vars PROVE TypeOK'
    OBVIOUS
  <2> USE DEF TypeOK, Continue, Goto, configVars, dockerVars, Pc
  <2>1. ASSUME NEW r \in Run, NEW mode \in Mode, NEW status \in Status, Return(r, mode, status)
        PROVE  TypeOK'
    BY <2>1 DEF Return, Session
  <2>2. ASSUME NEW r \in Run, NEW status \in Status, Finish(r, status) PROVE TypeOK'
    BY <2>2 DEF Finish
  <2>3. ASSUME NEW r \in Run, NEW kind \in {"run", "rm"}, NEW next \in Pc, Request(r, kind, next)
        PROVE  TypeOK'
    BY <2>3 DEF Request, Exit
  <2> HIDE DEF TypeOK
  <2>4. ASSUME NEW r \in Run, NEW next \in Pc, Continue(r, next) PROVE TypeOK'
    BY <2>4 DEF TypeOK
  <2>5. ASSUME NEW r \in Run, Start(r) PROVE TypeOK'
    <3>1. CASE Return(r, "docker_server", "error") \/ Return(r, "skipped", "skipped")
      BY <2>1, <3>1 DEF Mode, Status
    <3>2. ASSUME NEW mode \in Mode, NEW next \in Pc,
                 session' = [session EXCEPT ![r].mode = mode], Goto(r, next),
                 UNCHANGED <<configVars, teardown, dockerVars>>
          PROVE  TypeOK'
      <4>1. session' \in [Run -> Session]
        BY <3>2 DEF TypeOK, Session
      <4>2. QED BY <3>2, <4>1 DEF TypeOK
    <3>3. QED BY <2>5, <3>1, <3>2 DEF Start, Mode
  <2>6. ASSUME NEW r \in Run, InspectImage(r) \/ Pull(r) PROVE TypeOK'
    BY <2>1, <2>4, <2>6, RunCommandStatus DEF InspectImage, Pull, Mode, Status
  <2>7. ASSUME NEW r \in Run, RequestRun(r) \/ RequestRetry(r) \/ RequestRm(r) PROVE TypeOK'
    BY <2>3, <2>7 DEF RequestRun, RequestRetry, RequestRm
  <2>8. ASSUME NEW r \in Run, RunReturns(r) \/ RmReturns(r) PROVE TypeOK'
    BY <2>1, <2>2, <2>4, <2>8, RunCommandStatus, ClientExitType
    DEF RunReturns, RmReturns, Mode
  <2>9. ASSUME NEW r \in Run, Ready(r) PROVE TypeOK'
    BY <2>1, <2>9 DEF Ready, Mode, Status, TypeOK, Session
  <2>10. ASSUME NEW r \in Run, Use(r) \/ NothingToStop(r) \/ InspectLabels(r) PROVE TypeOK'
    BY <2>2, <2>4, <2>10, RunCommandStatus
    DEF Use, NothingToStop, InspectLabels, Status, FailedExit
  <2>11. ASSUME NEW r \in Run, StartRaises(r) \/ StopRaises(r) \/ Crash(r) PROVE TypeOK'
    BY <2>4, <2>11 DEF StartRaises, StopRaises, Crash
  <2>12. ASSUME NEW r \in Run, ServeRun(r) PROVE TypeOK'
    <3>1. reply' \in [Run -> Exit \cup {"none"}]
      BY <2>12 DEF ServeRun, Answer, TypeOK, Exit
    <3>2. /\ creator' \in [Name -> Run \cup {Nobody, Stranger}]
          /\ alive' \in [Name -> BOOLEAN]
      BY <2>12 DEF ServeRun, TypeOK
    <3>3. QED BY <2>12, <3>1, <3>2 DEF ServeRun, TypeOK
  <2>13. ASSUME NEW r \in Run, ServeRm(r) PROVE TypeOK'
    <3>1. reply' \in [Run -> Exit \cup {"none"}]
      BY <2>13 DEF ServeRm, Answer, TypeOK, Exit
    <3>2. /\ creator' \in [Name -> Run \cup {Nobody, Stranger}]
          /\ alive' \in [Name -> BOOLEAN]
      BY <2>13 DEF ServeRm, TypeOK
    <3>3. QED BY <2>13, <3>1, <3>2 DEF ServeRm, TypeOK
  <2>14. CASE (\E n \in Name : ServerDies(n)) \/ UNCHANGED vars
    BY <2>14 DEF ServerDies, vars, TypeOK
  <2>15. ASSUME NEW r \in Run, RunAction(r) \/ Serve(r) PROVE TypeOK'
    BY <2>5, <2>6, <2>7, <2>8, <2>9, <2>10, <2>11, <2>12, <2>13, <2>15
    DEF RunAction, RunStep, Serve
  <2>16. QED BY <2>14, <2>15, NextSplit
<1>3. QED BY <1>1, <1>2, PTL DEF Spec
-----------------------------------------------------------------------------
(***************************************************************************)
(* Strangers' containers                                                   *)
(***************************************************************************)

\* docker rm is asked for, and pending, only over a name no stranger has: the
\* labels were read, and a name that is in use does not change hands.
RmNotStranger == \A r \in Run :
  pc[r] = "rm" \/ <<r, "rm">> \in jobs => creator[named[r]] # Stranger

\* A name in use does not change hands, so the check before docker rm stays true.
LEMMA RmNotStrangerStep ==
  ASSUME TypeOK, RmNotStranger, [Next]_vars
  PROVE  RmNotStranger'
<1>0. \A q \in Run : named[q] \in Name
  BY DEF TypeOK
<1>s. Nobody # Stranger /\ \A q \in Run : q # Stranger
  BY RuntimeAdapterAssumption DEF RuntimeAdapterAssumption
<1>1. ASSUME NEW r \in Run, RunAction(r) PROVE RmNotStranger'
  <2>1. ASSUME NEW q \in Run, pc'[q] = "rm" \/ <<q, "rm">> \in jobs'
        PROVE  \/ pc[q] = "rm" \/ <<q, "rm">> \in jobs
               \/ creator[named[q]] # Stranger
    <3> USE DEF TypeOK, Continue, Return, Finish, Request, Goto, dockerVars
    <3>1. CASE Start(r)
      BY <2>1, <3>1 DEF Start
    <3>2. CASE InspectImage(r) \/ Pull(r) \/ RunReturns(r) \/ Ready(r)
      BY <2>1, <3>2 DEF InspectImage, Pull, RunReturns, Ready
    <3>3. CASE RequestRun(r) \/ RequestRetry(r) \/ RequestRm(r)
      BY <2>1, <3>3 DEF RequestRun, RequestRetry, RequestRm
    <3>4. CASE Use(r) \/ NothingToStop(r) \/ RmReturns(r)
      BY <2>1, <3>4 DEF Use, NothingToStop, RmReturns
    <3>5. CASE InspectLabels(r)
      BY <1>s, <2>1, <3>5 DEF InspectLabels, Owned
    <3>6. CASE StartRaises(r) \/ StopRaises(r) \/ Crash(r)
      BY <2>1, <3>6 DEF StartRaises, StopRaises, Crash
    <3>7. QED BY <1>1, <3>1, <3>2, <3>3, <3>4, <3>5, <3>6 DEF RunAction, RunStep
  <2>2. QED BY <1>1, <2>1, RunFrame DEF RmNotStranger
<1>2. ASSUME NEW r \in Run, Serve(r) PROVE RmNotStranger'
  <2>1. \A n \in Name : creator'[n] = creator[n] \/ creator'[n] # Stranger
    BY <1>2, <1>s, ServeFrame
  <2>2. jobs' \subseteq jobs /\ named' = named /\ pc' = pc
    BY <1>2, ServeFrame
  <2>3. QED BY <1>0, <2>1, <2>2 DEF RmNotStranger
<1>3. CASE (\E n \in Name : ServerDies(n)) \/ UNCHANGED vars
  BY <1>3 DEF ServerDies, vars, configVars, dockerVars, RmNotStranger
<1>4. QED BY <1>1, <1>2, <1>3, NextSplit

\* No run ever removes a container that has no experiment labels.
THEOREM StrangerUntouchedHolds == Spec => StrangerUntouched
<1>1. Init => RmNotStranger
  BY DEF Init, RmNotStranger
<1>2. TypeOK /\ RmNotStranger /\ [Next]_vars => RmNotStranger'
  BY RmNotStrangerStep
<1> DEFINE Act == \A n \in Name : creator[n] = Stranger => creator'[n] = Stranger
<1>3. TypeOK /\ RmNotStranger /\ [Next]_vars => [Act]_vars
  <2> SUFFICES ASSUME TypeOK, RmNotStranger, Next,
                      NEW n \in Name, creator[n] = Stranger
               PROVE  creator'[n] = Stranger
    OBVIOUS
  <2>1. ASSUME NEW r \in Run, RunAction(r) PROVE creator'[n] = Stranger
    BY <2>1, RunFrame
  <2>2. ASSUME NEW r \in Run, Serve(r) PROVE creator'[n] = Stranger
    <3>1. SUFFICES ASSUME creator'[n] # creator[n] PROVE FALSE
      OBVIOUS
    <3>2. n = named[r] /\ (creator[n] = Nobody \/ ServeRm(r))
      BY <2>2, <3>1, ServeFrame
    <3>3. creator[n] # Nobody
      BY RuntimeAdapterAssumption DEF RuntimeAdapterAssumption
    <3>4. ServeRm(r) => creator[named[r]] # Stranger
      BY DEF RmNotStranger, ServeRm
    <3>5. QED BY <3>2, <3>3, <3>4
  <2>3. CASE \E m \in Name : ServerDies(m)
    BY <2>3 DEF ServerDies
  <2>4. QED BY <2>1, <2>2, <2>3, NextSplit
<1>4. QED BY <1>1, <1>2, <1>3, TypeCorrect, PTL DEF Spec, StrangerUntouched
-----------------------------------------------------------------------------
(***************************************************************************)
(* What a run and its container have to do with each other                 *)
(***************************************************************************)
Starting == {"start", "image", "pull", "run", "await_run", "retry", "await_retry", "ready"}
Open == {"use", "stop", "rm", "await_rm"}

Untouched(r) == <<r, "run">> \notin jobs /\ \A n \in Name : creator[n] # r

\* What start has made of the session at each place.
PlacedOf(r) ==
  /\ pc[r] \in Starting => session[r].status = "none"
  /\ pc[r] \in Open => session[r].status # "none"
  /\ pc[r] \in {"image", "pull", "run", "await_run", "retry", "await_retry", "rm", "await_rm"}
       => session[r].mode = "docker_server"

\* A run has no container before its docker run or without a Docker session,
\* and one at most, of its name.
CreatesOf(r) ==
  /\ pc[r] \in {"start", "image", "pull", "run"} \/ session[r].mode # "docker_server"
       => Untouched(r)
  /\ \A n \in Name : creator[n] = r => named[r] = n

\* Without a retry nothing is still to come once the container is there, so
\* that over an unshared name nothing is left once docker rm has exited 0.
RemovesOf(r) ==
  /\ ~Retries(r) => pc[r] \notin {"retry", "await_retry"}
  /\ ~Retries(r) /\ creator[named[r]] = r => <<r, "run">> \notin jobs
  /\ r \in Sole /\ pc[r] \in {"rm", "await_rm"} => <<r, "run">> \notin jobs
  /\ r \in Sole /\ pc[r] = "await_rm" /\ reply[r] = "zero" => creator[named[r]] # r

\* A docker run that was answered OK left a container that nobody has removed.
ReadyOf(r) ==
  /\ pc[r] \in Starting \cup {"use", "stop", "rm"} => <<r, "rm">> \notin jobs
  /\ Unshared(r) /\ \/ pc[r] \in {"await_run", "await_retry"} /\ reply[r] = "zero"
                    \/ pc[r] = "ready" /\ session[r].mode = "docker_server"
       => creator[named[r]] = r

InvOf(r) == PlacedOf(r) /\ CreatesOf(r) /\ RemovesOf(r) /\ ReadyOf(r)
Inv == \A r \in Run : InvOf(r)

\* Before start there is no session, no request and no container.
LEMMA InvInit == Init => Inv
BY RuntimeAdapterAssumption
DEF Init, Inv, InvOf, PlacedOf, CreatesOf, RemovesOf, ReadyOf, Untouched, Starting, Open,
    NoSession, RuntimeAdapterAssumption

\* The configuration never changes, so neither does which runs retry or have a
\* name for themselves.
LEMMA NamesStay ==
  ASSUME TypeOK, [Next]_vars
  PROVE  /\ named' = named /\ Sole' = Sole
         /\ \A r \in Run : Unshared(r)' = Unshared(r) /\ Retries(r)' = Retries(r)
<1>1. named' = named /\ adapter' = adapter
  BY RunFrame, ServeFrame, NextSplit DEF ServerDies, vars, configVars
<1>2. QED BY <1>1 DEF Sole, Unshared, Retries

\* What start makes of the session before anything is asked of the daemon.
LEMMA StartEffect ==
  ASSUME TypeOK, NEW r \in Run, Start(r)
  PROVE  /\ UNCHANGED dockerVars
         /\ \/ /\ pc'[r] = "ready" /\ session'[r].mode = "external_server"
               /\ session'[r].status = session[r].status
            \/ /\ pc'[r] = "image" /\ session'[r].mode = "docker_server"
               /\ session'[r].status = session[r].status
            \/ pc'[r] = "use" /\ session'[r].status # "none"
BY DEF Start, Return, Goto, TypeOK, Session

\* A run's own steps keep its invariant ...
LEMMA InvRun ==
  ASSUME TypeOK, NEW r \in Run, InvOf(r), \A q \in Run : CreatesOf(q), RunAction(r)
  PROVE  InvOf(r)'
<1>0. /\ named' = named /\ Sole' = Sole /\ creator' = creator /\ Unshared(r)' = Unshared(r)
      /\ Retries(r)' = Retries(r)
      /\ named[r] \in Name
  BY NamesStay, RunFrame, NextSplit DEF TypeOK
<1>1. PlacedOf(r)'
  <2> USE DEF TypeOK, InvOf, PlacedOf, Starting, Open, Continue, Return, Finish, Request, Goto,
              Final
  <2>1. CASE Start(r)
    BY <2>1, StartEffect DEF Start
  <2>2. CASE InspectImage(r) \/ Pull(r)
    <3>1. ASSUME NEW status \in Status, Return(r, "docker_server", status)
          PROVE  PlacedOf(r)'
      BY <3>1 DEF Status
    <3>2. CASE Continue(r, "run") \/ (InspectImage(r) /\ Continue(r, "pull"))
      BY <2>2, <3>2 DEF InspectImage, Pull
    <3>3. QED BY <2>2, <3>1, <3>2, RunCommandStatus DEF InspectImage, Pull, Status
  <2>3. CASE RequestRun(r) \/ RequestRetry(r) \/ RequestRm(r)
    BY <2>3 DEF RequestRun, RequestRetry, RequestRm
  <2>4. CASE RunReturns(r)
    BY <2>4, RunCommandStatus, ClientExitType DEF RunReturns, Status
  <2>5. CASE Ready(r)
    BY <2>5 DEF Ready
  <2>6. CASE Use(r) \/ NothingToStop(r) \/ InspectLabels(r) \/ RmReturns(r)
    BY <2>6 DEF Use, NothingToStop, InspectLabels, RmReturns
  <2>7. CASE StartRaises(r) \/ StopRaises(r) \/ Crash(r)
    BY <2>7 DEF StartRaises, StopRaises, Crash
  <2>8. QED BY <2>1, <2>2, <2>3, <2>4, <2>5, <2>6, <2>7 DEF RunAction, RunStep
<1>2. CreatesOf(r)'
  <2> USE <1>0 DEF TypeOK, InvOf, PlacedOf, CreatesOf, Untouched, Continue, Return, Finish,
                   Request, Goto, dockerVars, Final
  <2>1. CASE Start(r)
    BY <2>1, StartEffect DEF Start
  <2>2. CASE InspectImage(r) \/ Pull(r) \/ RunReturns(r) \/ Ready(r)
    BY <2>2 DEF InspectImage, Pull, RunReturns, Ready
  <2>3. CASE RequestRun(r) \/ RequestRetry(r) \/ RequestRm(r)
    BY <2>3 DEF RequestRun, RequestRetry, RequestRm
  <2>4. CASE Use(r) \/ NothingToStop(r) \/ InspectLabels(r) \/ RmReturns(r)
    BY <2>4 DEF Use, NothingToStop, InspectLabels, RmReturns
  <2>5. CASE StartRaises(r) \/ StopRaises(r) \/ Crash(r)
    BY <2>5 DEF StartRaises, StopRaises, Crash
  <2>6. QED BY <1>0, <2>1, <2>2, <2>3, <2>4, <2>5 DEF RunAction, RunStep
<1>3. RemovesOf(r)'
  <2> USE <1>0 DEF TypeOK, InvOf, RemovesOf, Continue, Return, Finish, Request, Goto,
                   dockerVars, Final
  <2>1. CASE Start(r)
    BY <2>1, StartEffect DEF Start
  <2>2. CASE InspectImage(r) \/ Pull(r) \/ RunReturns(r) \/ Ready(r)
    BY <2>2 DEF InspectImage, Pull, RunReturns, Ready
  <2>3. CASE RequestRun(r) \/ RequestRetry(r) \/ RequestRm(r)
    <3>1. RequestRun(r) => Untouched(r)
      BY DEF RequestRun, CreatesOf
    <3>2. QED BY <2>3, <3>1 DEF RequestRun, RequestRetry, RequestRm, Untouched
  <2>4. CASE Use(r) \/ NothingToStop(r) \/ RmReturns(r)
    BY <2>4 DEF Use, NothingToStop, RmReturns
  <2>5. CASE InspectLabels(r)
    <3>1. Owned(r, named[r]) /\ r \in Sole => creator[named[r]] = r
      BY DEF Owned, Sole, Unshared, CreatesOf
    <3>2. r \in Sole => ~Retries(r)
      BY DEF Sole
    <3>3. CASE Owned(r, named[r]) /\ Continue(r, "rm")
      BY <3>1, <3>2, <3>3
    <3>4. ASSUME NEW status, Finish(r, status) PROVE RemovesOf(r)'
      BY <3>4
    <3>5. QED BY <2>5, <3>3, <3>4 DEF InspectLabels
  <2>6. CASE StartRaises(r) \/ StopRaises(r) \/ Crash(r)
    BY <2>6 DEF StartRaises, StopRaises, Crash
  <2>7. QED BY <2>1, <2>2, <2>3, <2>4, <2>5, <2>6, RunFrame DEF RunAction, RunStep
<1>4. ReadyOf(r)'
  <2> USE <1>0 DEF TypeOK, InvOf, ReadyOf, PlacedOf, Starting, Continue, Return, Finish,
                   Request, Goto, dockerVars, Final
  <2>1. CASE Start(r)
    BY <2>1, StartEffect DEF Start
  <2>2. CASE InspectImage(r) \/ Pull(r) \/ Ready(r)
    BY <2>2 DEF InspectImage, Pull, Ready
  <2>3. CASE RunReturns(r)
    BY <2>3, ClientExitType DEF RunReturns
  <2>4. CASE RequestRun(r) \/ RequestRetry(r) \/ RequestRm(r)
    BY <2>4 DEF RequestRun, RequestRetry, RequestRm
  <2>5. CASE Use(r) \/ NothingToStop(r) \/ InspectLabels(r) \/ RmReturns(r)
    BY <2>5 DEF Use, NothingToStop, InspectLabels, RmReturns
  <2>6. CASE StartRaises(r) \/ StopRaises(r) \/ Crash(r)
    BY <2>6 DEF StartRaises, StopRaises, Crash
  <2>7. QED BY <2>1, <2>2, <2>3, <2>4, <2>5, <2>6 DEF RunAction, RunStep
<1>5. QED BY <1>1, <1>2, <1>3, <1>4 DEF InvOf
\* ... other runs' steps too, and so does what the daemon does.
LEMMA InvOther ==
  ASSUME TypeOK, NEW r \in Run, InvOf(r), NEW q \in Run \ {r}, RunAction(q)
  PROVE  InvOf(r)'
<1>1. /\ named' = named /\ Sole' = Sole /\ creator' = creator /\ Unshared(r)' = Unshared(r)
      /\ Retries(r)' = Retries(r)
      /\ pc'[r] = pc[r] /\ session'[r] = session[r] /\ reply'[r] = reply[r]
      /\ \A kind \in {"run", "rm"} : <<r, kind>> \in jobs' <=> <<r, kind>> \in jobs
  BY NamesStay, RunFrame, NextSplit
<1>2. PlacedOf(r)'
  BY <1>1 DEF InvOf, PlacedOf
<1>3. CreatesOf(r)'
  BY <1>1 DEF InvOf, CreatesOf, Untouched
<1>4. RemovesOf(r)'
  BY <1>1 DEF InvOf, RemovesOf
<1>5. ReadyOf(r)'
  BY <1>1 DEF InvOf, ReadyOf
<1>6. QED BY <1>2, <1>3, <1>4, <1>5 DEF InvOf

\* The daemon keeps the invariant, however late it serves a request.
LEMMA InvServe ==
  ASSUME TypeOK, NEW r \in Run, InvOf(r), NEW q \in Run, Serve(q)
  PROVE  InvOf(r)'
<1>0. /\ named' = named /\ Sole' = Sole /\ Unshared(r)' = Unshared(r) /\ Retries(r)' = Retries(r)
      /\ pc' = pc /\ session' = session /\ jobs' \subseteq jobs
      /\ named[r] \in Name /\ named[q] \in Name
  BY NamesStay, ServeFrame, NextSplit DEF TypeOK
<1> USE RuntimeAdapterAssumption DEF RuntimeAdapterAssumption
<1>a. ASSUME NEW n \in Name, creator'[n] = r, creator[n] # r
      PROVE  q = r /\ n = named[r] /\ <<r, "run">> \in jobs
  <2>1. creator'[n] # creator[n] /\ creator'[n] # Nobody
    BY <1>a
  <2>2. n = named[q] /\ <<q, "run">> \in jobs /\ creator'[n] = q
    BY <2>1, ServeFrame
  <2>3. QED BY <1>a, <2>2
<1>1. PlacedOf(r)'
  BY <1>0 DEF InvOf, PlacedOf
<1>2. CreatesOf(r)'
  BY <1>0, <1>a DEF InvOf, CreatesOf, Untouched
<1>3. CASE q = r /\ ServeRun(r)
  <2> USE <1>0, <1>3 DEF ServeRun, Answer, TypeOK
  <2>1. RemovesOf(r)'
    BY DEF InvOf, RemovesOf
  <2>2. ReadyOf(r)'
    BY DEF InvOf, ReadyOf, Starting
  <2>3. QED BY <1>1, <1>2, <2>1, <2>2 DEF InvOf
<1>4. CASE q = r /\ ServeRm(r)
  <2> USE <1>0, <1>4 DEF ServeRm, Answer, TypeOK
  <2>1. RemovesOf(r)'
    BY DEF InvOf, RemovesOf
  <2>2. ReadyOf(r)'
    BY DEF InvOf, ReadyOf, Starting
  <2>3. QED BY <1>1, <1>2, <2>1, <2>2 DEF InvOf
<1>5. CASE q # r
  <2>1. /\ reply'[r] = reply[r]
        /\ \A kind \in {"run", "rm"} : <<r, kind>> \in jobs' <=> <<r, kind>> \in jobs
    BY <1>5, ServeFrame
  <2>2. creator'[named[r]] = r => creator[named[r]] = r
    BY <1>0, <1>5, <1>a
  <2>3. Unshared(r) /\ creator[named[r]] = r => creator'[named[r]] = r
    <3>1. Unshared(r) => named[r] # named[q]
      BY <1>5 DEF Unshared
    <3>2. creator'[named[r]] # creator[named[r]] => named[r] = named[q]
      BY <1>0, ServeFrame
    <3>3. QED BY <3>1, <3>2
  <2>4. RemovesOf(r)'
    BY <1>0, <2>1, <2>2 DEF InvOf, RemovesOf
  <2>5. ReadyOf(r)'
    BY <1>0, <2>1, <2>3 DEF InvOf, ReadyOf
  <2>6. QED BY <1>1, <1>2, <2>4, <2>5 DEF InvOf
<1>6. QED BY <1>3, <1>4, <1>5 DEF Serve

\* Every step of a run and of the daemon keeps the invariant.
LEMMA InvStep ==
  ASSUME TypeOK, Inv, [Next]_vars
  PROVE  Inv'
<1> SUFFICES ASSUME NEW r \in Run PROVE InvOf(r)'
  BY DEF Inv
<1>0. InvOf(r) /\ \A q \in Run : CreatesOf(q)
  BY DEF Inv, InvOf
<1>1. ASSUME NEW q \in Run, RunAction(q) PROVE InvOf(r)'
  BY <1>0, <1>1, InvRun, InvOther
<1>2. ASSUME NEW q \in Run, Serve(q) PROVE InvOf(r)'
  BY <1>0, <1>2, InvServe
<1>3. CASE (\E n \in Name : ServerDies(n)) \/ UNCHANGED vars
  BY <1>0, <1>3
  DEF ServerDies, vars, dockerVars, InvOf, PlacedOf, CreatesOf, RemovesOf, ReadyOf, Untouched,
      Sole, Unshared, Retries, configVars
<1>4. QED BY <1>1, <1>2, <1>3, NextSplit

\* start returns an OK Docker session only over the run's own container.
THEOREM ReadyOverOwnContainerHolds == Spec => ReadyOverOwnContainer
<1> DEFINE Act == \A r \in Run :
      (/\ session[r].status = "none"
       /\ session'[r] = [mode |-> "docker_server", status |-> "ok"]
       /\ Unshared(r))
        => creator[named[r]] = r
<1>1. TypeOK /\ Inv /\ [Next]_vars => [Act]_vars
  <2> SUFFICES ASSUME TypeOK, Inv, Next, NEW r \in Run, session[r].status = "none",
                      session'[r] = [mode |-> "docker_server", status |-> "ok"], Unshared(r)
               PROVE  creator[named[r]] = r
    OBVIOUS
  <2>0. InvOf(r) /\ session'[r] # session[r]
    BY DEF Inv
  <2>1. RunAction(r)
    BY <2>0, RunFrame, ServeFrame, NextSplit DEF ServerDies
  <2>2. session'[r].status = "ok" /\ session'[r].mode = "docker_server"
    OBVIOUS
  <2>3. Ready(r)
    <3> USE DEF TypeOK, Session, Continue, Return, Finish, Request, Goto
    <3>1. ~Start(r)
      BY <2>0, <2>2 DEF Start, Mode
    <3>2. ~(InspectImage(r) \/ Pull(r))
      BY <2>0, <2>2, RunCommandStatus DEF InspectImage, Pull, ClassifyCapability
    <3>3. ~RunReturns(r)
      BY <2>0, <2>2, RunCommandStatus, ClientExitType DEF RunReturns
    <3>4. ~(RequestRun(r) \/ RequestRetry(r) \/ RequestRm(r))
      BY <2>0 DEF RequestRun, RequestRetry, RequestRm
    <3>5. ~(Use(r) \/ NothingToStop(r) \/ InspectLabels(r) \/ RmReturns(r))
      BY <2>0 DEF Use, NothingToStop, InspectLabels, RmReturns
    <3>6. ~(StartRaises(r) \/ StopRaises(r) \/ Crash(r))
      BY <2>0 DEF StartRaises, StopRaises, Crash
    <3>7. QED BY <2>1, <3>1, <3>2, <3>3, <3>4, <3>5, <3>6 DEF RunAction, RunStep
  <2>4. pc[r] = "ready" /\ session[r].mode = "docker_server"
    BY <2>2, <2>3 DEF Ready, Return, TypeOK
  <2>5. QED BY <2>0, <2>4 DEF InvOf, ReadyOf
<1>2. QED BY <1>1, InvInit, InvStep, TypeCorrect, PTL DEF Spec, ReadyOverOwnContainer
-----------------------------------------------------------------------------
(***************************************************************************)
(* The contract                                                            *)
(***************************************************************************)

\* Where the contract sees a run is read off its own place.
LEMMA PhaseIs ==
  ASSUME NEW r \in Run
  PROVE  /\ pc[r] \in Final => ContractPhase(r) = "left"
         /\ pc[r] \in Open => ContractPhase(r) = "open"
         /\ pc[r] \in Starting => ContractPhase(r) = "idle"
         /\ pc'[r] \in Final => ContractPhase(r)' = "left"
         /\ pc'[r] \in Open => ContractPhase(r)' = "open"
         /\ pc'[r] \in Starting => ContractPhase(r)' = "idle"
BY DEF ContractPhase, Final, Open, Starting

\* One run's part of the contract's variables does not change.
Same(r) ==
  /\ ContractPhase(r)' = ContractPhase(r)
  /\ ContractSession(r)' = ContractSession(r)
  /\ Holds(r)' = Holds(r)
  /\ teardown'[r] = teardown[r]

\* The contract's actions, said of one run.
StartReturnsOf(r) ==
  /\ ContractPhase(r) = "idle" /\ ContractPhase(r)' = "open"
  /\ ContractSession(r)' \in {"docker", "other"}
  /\ ContractSession(r)' = "other" => ~Holds(r)'
  /\ teardown'[r] = teardown[r]

StartRaisesOf(r) ==
  /\ ContractPhase(r) = "idle" /\ ContractPhase(r)' = "left"
  /\ ContractSession(r)' = ContractSession(r)
  /\ teardown'[r] = teardown[r]

StopReturnsOf(r) ==
  /\ ContractPhase(r) = "open" /\ ContractPhase(r)' = "left"
  /\ ContractSession(r)' = ContractSession(r)
  /\ Holds(r)' = Holds(r)
  /\ IF ContractSession(r) = "docker"
       THEN teardown'[r] \in Status \ {"skipped"} /\ (teardown'[r] = "ok" => ~Holds(r))
       ELSE teardown'[r] = teardown[r]

AbandonOf(r) ==
  /\ ContractPhase(r) = "open" /\ ContractPhase(r)' = "left"
  /\ ContractSession(r)' = ContractSession(r)
  /\ Holds(r)' = Holds(r)
  /\ teardown'[r] = teardown[r]

LoseOf(r) ==
  /\ ContractPhase(r)' = ContractPhase(r)
  /\ ContractSession(r)' = ContractSession(r)
  /\ Holds(r) /\ ~Holds(r)'
  /\ teardown'[r] = teardown[r]

\* A step that moves one run's part as the contract allows, and no other's, is a
\* step of the contract.
LEMMA Lift ==
  ASSUME TypeOK, TypeOK', NEW r \in Run, \A q \in Run \ {r} : Same(q),
         \/ Same(r) \/ StartReturnsOf(r) \/ StartRaisesOf(r) \/ StopReturnsOf(r)
         \/ AbandonOf(r) \/ LoseOf(r)
  PROVE  [Contract!ContractNext]_(Contract!contractVars)
<1> DEFINE P == [q \in Run |-> ContractPhase(q)]
           S == [q \in Run |-> ContractSession(q)]
           H == [q \in Run |-> Holds(q)]
<1>0. /\ P' = [P EXCEPT ![r] = ContractPhase(r)'] /\ P[r] = ContractPhase(r)
      /\ S' = [S EXCEPT ![r] = ContractSession(r)'] /\ S[r] = ContractSession(r)
      /\ teardown' = [teardown EXCEPT ![r] = teardown'[r]]
  BY DEF Same, TypeOK
<1>b. Holds(r) \in BOOLEAN /\ Holds(r)' \in BOOLEAN
  BY DEF Holds
<1>e. H' = [H EXCEPT ![r] = Holds(r)'] /\ H[r] = Holds(r)
  BY DEF Same
<1>h. H' = [H EXCEPT ![r] = Holds(r)'] /\ H[r] = Holds(r) /\ Holds(r) \in BOOLEAN
      /\ Holds(r)' \in BOOLEAN
  BY <1>b, <1>e
<1>s. /\ ContractSession(r)' = ContractSession(r) => S' = S
      /\ Holds(r)' = Holds(r) => H' = H
      /\ teardown'[r] = teardown[r] => teardown' = teardown
      /\ ContractPhase(r)' = ContractPhase(r) => P' = P
  BY DEF Same, TypeOK
<1>1. CASE Same(r)
  BY <1>1, <1>s DEF Contract!contractVars, Same
<1>2. CASE StartReturnsOf(r)
  <2> HIDE DEF P, S, H
  <2>1. \E mode \in {"docker", "other"}, up \in BOOLEAN :
          /\ mode = "other" => ~up
          /\ S' = [S EXCEPT ![r] = mode]
          /\ H' = [H EXCEPT ![r] = up]
    BY <1>2, <1>0, <1>h DEF StartReturnsOf
  <2>2. P[r] = "idle" /\ P' = [P EXCEPT ![r] = "open"] /\ teardown' = teardown
    BY <1>2, <1>0, <1>s DEF StartReturnsOf
  <2>3. Contract!StartReturns(r)
    BY <2>1, <2>2 DEF Contract!StartReturns, P, S, H
  <2>4. QED BY <2>3 DEF Contract!ContractNext
<1>3. CASE StartRaisesOf(r)
  <2> HIDE DEF P, S, H
  <2>1. /\ P[r] = "idle" /\ P' = [P EXCEPT ![r] = "left"] /\ teardown' = teardown /\ S' = S
        /\ \E up \in BOOLEAN : H' = [H EXCEPT ![r] = up]
    BY <1>3, <1>0, <1>h, <1>s DEF StartRaisesOf
  <2>2. Contract!StartRaises(r)
    BY <2>1 DEF Contract!StartRaises, P, S, H
  <2>3. QED BY <2>2 DEF Contract!ContractNext
<1>4. CASE StopReturnsOf(r)
  <2> HIDE DEF P, S, H
  <2>1. P[r] = "open" /\ P' = [P EXCEPT ![r] = "left"] /\ S' = S
    BY <1>4, <1>0, <1>s DEF StopReturnsOf
  <2>2. CASE S[r] = "docker"
    <3>1. \E status \in Contract!Status \ {"skipped"}, up \in {FALSE, H[r]} :
             /\ status = "ok" => ~up
             /\ teardown' = [teardown EXCEPT ![r] = status]
             /\ H' = [H EXCEPT ![r] = up]
      <4>1. /\ teardown'[r] \in Contract!Status \ {"skipped"} /\ H[r] \in {FALSE, H[r]}
            /\ teardown'[r] = "ok" => ~H[r]
        BY <1>4, <1>0, <1>h, <2>2 DEF StopReturnsOf, Status, Contract!Status
      <4>2. H' = [H EXCEPT ![r] = H[r]]
        BY <1>4, <1>h DEF StopReturnsOf
      <4>3. QED BY <1>0, <4>1, <4>2
    <3>2. Contract!StopReturns(r)
      BY <2>1, <2>2, <3>1 DEF Contract!StopReturns, P, S, H
    <3>3. QED BY <3>2 DEF Contract!ContractNext
  <2>3. CASE S[r] # "docker"
    <3>1. teardown' = teardown /\ H' = H
      BY <1>4, <1>0, <1>s, <2>3 DEF StopReturnsOf
    <3>2. Contract!StopReturns(r)
      BY <2>1, <2>3, <3>1 DEF Contract!StopReturns, P, S, H
    <3>3. QED BY <3>2 DEF Contract!ContractNext
  <2>4. QED BY <2>2, <2>3
<1>5. CASE AbandonOf(r)
  <2> HIDE DEF P, S, H
  <2>1. /\ P[r] = "open" /\ P' = [P EXCEPT ![r] = "left"]
        /\ S' = S /\ H' = H /\ teardown' = teardown
    BY <1>5, <1>0, <1>s DEF AbandonOf
  <2>2. Contract!Abandon(r)
    BY <2>1 DEF Contract!Abandon, P, S, H
  <2>3. QED BY <2>2 DEF Contract!ContractNext
<1>6. CASE LoseOf(r)
  <2> HIDE DEF P, S, H
  <2>1. /\ H[r] /\ H' = [H EXCEPT ![r] = FALSE]
        /\ P' = P /\ S' = S /\ teardown' = teardown
    BY <1>6, <1>0, <1>h, <1>s DEF LoseOf
  <2>2. Contract!Lose(r)
    BY <2>1 DEF Contract!Lose, P, S, H
  <2>3. QED BY <2>2 DEF Contract!ContractNext
<1>7. QED BY <1>1, <1>2, <1>3, <1>4, <1>5, <1>6
\* One step of one run, as the contract sees it.
ContractStepOf(r) ==
  \/ Same(r) \/ StartReturnsOf(r) \/ StartRaisesOf(r) \/ StopReturnsOf(r)
  \/ AbandonOf(r) \/ LoseOf(r)

\* While start runs nothing is held yet; later a run holds what it held unless
\* its container or its docker run changes.
LEMMA StillStarting ==
  ASSUME NEW r \in Run, pc[r] \in Starting, pc'[r] \in Starting,
         session[r].status = "none", session'[r].status = "none", teardown'[r] = teardown[r]
  PROVE  Same(r)
<1>1. ContractPhase(r) = "idle" /\ ContractPhase(r)' = "idle"
  BY PhaseIs
<1>2. Holds(r) = FALSE /\ Holds(r)' = FALSE
  BY <1>1 DEF Holds
<1>3. QED BY <1>1, <1>2 DEF Same, ContractSession

\* What a run holds depends on its name's container and its own docker run only.
LEMMA HoldsStays ==
  ASSUME NEW r \in Run, ContractPhase(r) # "idle", ContractPhase(r)' # "idle",
         named' = named, Sole' = Sole, creator'[named[r]] = creator[named[r]],
         <<r, "run">> \in jobs' <=> <<r, "run">> \in jobs
  PROVE  Holds(r)' = Holds(r)
BY DEF Holds

\* A session that is not of a Docker server comes with nothing held.
LEMMA ReturnStep ==
  ASSUME TypeOK, Inv, NEW r \in Run, pc[r] \in Starting, NEW mode \in Mode,
         NEW status \in Status, Return(r, mode, status), InvOf(r)'
  PROVE  StartReturnsOf(r)
<1>1. /\ session'[r].status = status /\ session'[r].mode = mode /\ status # "none"
      /\ pc'[r] = "use" /\ teardown'[r] = teardown[r]
  BY DEF Return, Goto, TypeOK, Status
<1>2. ContractPhase(r) = "idle" /\ ContractPhase(r)' = "open"
  BY <1>1, PhaseIs DEF Open
<1>3. ContractSession(r)' = IF mode = "docker_server" THEN "docker" ELSE "other"
  BY <1>1 DEF ContractSession
<1>4. mode # "docker_server" => Untouched(r)'
  BY <1>1 DEF InvOf, CreatesOf
<1>5. named'[r] \in Name
  BY DEF Return, TypeOK, configVars
<1>6. mode # "docker_server" => ~Holds(r)'
  BY <1>4, <1>5 DEF Untouched, Holds
<1>7. QED BY <1>1, <1>2, <1>3, <1>6 DEF StartReturnsOf

\* stop ends with a record of a Docker session's teardown: OK over nothing held.
LEMMA FinishStep ==
  ASSUME TypeOK, Inv, NEW r \in Run, pc[r] \in {"stop", "rm", "await_rm"},
         session[r].mode = "docker_server", NEW status \in Status \ {"skipped"},
         Finish(r, status), status = "ok" => ~Holds(r), Sole' = Sole
  PROVE  StopReturnsOf(r)
<1>1. /\ pc'[r] = "done" /\ teardown'[r] = status /\ session' = session /\ named' = named
      /\ creator' = creator /\ jobs' = jobs
  BY DEF Finish, Goto, TypeOK, configVars, dockerVars
<1>2. ContractPhase(r) = "open" /\ ContractPhase(r)' = "left"
  BY <1>1, PhaseIs DEF Open, Final
<1>3. ContractSession(r)' = ContractSession(r)
  BY <1>1 DEF ContractSession
<1>4. Holds(r)' = Holds(r)
  BY <1>1, <1>2, HoldsStays
<1>5. ContractSession(r) = "docker"
  BY DEF Inv, InvOf, PlacedOf, Open, ContractSession
<1>6. QED BY <1>1, <1>2, <1>3, <1>4, <1>5 DEF StopReturnsOf

\* A run's step is a step of its own part of the contract, or leaves that alone.
LEMMA RunContract ==
  ASSUME TypeOK, Inv, Inv', NEW r \in Run, RunAction(r)
  PROVE  ContractStepOf(r)
<1>0. /\ InvOf(r) /\ InvOf(r)' /\ Sole' = Sole /\ named' = named /\ creator' = creator
      /\ named[r] \in Name
  BY NamesStay, RunFrame, NextSplit DEF Inv, TypeOK
<1>1. ASSUME pc[r] \in Starting, pc'[r] \in Starting, teardown' = teardown PROVE Same(r)
  BY <1>0, <1>1, StillStarting DEF InvOf, PlacedOf
<1>2. ASSUME pc[r] \in Starting, NEW mode \in Mode, NEW status \in Status,
             Return(r, mode, status)
      PROVE  StartReturnsOf(r)
  BY <1>0, <1>2, ReturnStep
<1>3. ASSUME pc[r] \in Open, pc'[r] \in Open, session' = session, teardown' = teardown,
             <<r, "run">> \in jobs' <=> <<r, "run">> \in jobs
      PROVE  Same(r)
  <2>1. ContractPhase(r) = "open" /\ ContractPhase(r)' = "open"
    BY <1>3, PhaseIs
  <2>2. Holds(r)' = Holds(r)
    BY <1>0, <1>3, <2>1, HoldsStays
  <2>3. QED BY <1>3, <2>1, <2>2 DEF Same, ContractSession
<1>4. ASSUME pc[r] \in Open, pc'[r] \in Final, UNCHANGED <<session, teardown, jobs>>
      PROVE  /\ AbandonOf(r)
             /\ session[r].mode # "docker_server" => StopReturnsOf(r)
  <2>1. ContractPhase(r) = "open" /\ ContractPhase(r)' = "left"
    BY <1>4, PhaseIs
  <2>2. Holds(r)' = Holds(r)
    BY <1>0, <1>4, <2>1, HoldsStays
  <2>3. ContractSession(r)' = ContractSession(r)
    BY <1>4 DEF ContractSession
  <2>4. session[r].mode # "docker_server" => ContractSession(r) # "docker"
    BY DEF ContractSession
  <2>5. QED BY <1>4, <2>1, <2>2, <2>3, <2>4 DEF AbandonOf, StopReturnsOf
<1>5. ASSUME pc[r] \in Starting, pc'[r] \in Final, UNCHANGED <<session, teardown>>
      PROVE  StartRaisesOf(r)
  <2>1. ContractPhase(r) = "idle" /\ ContractPhase(r)' = "left"
    BY <1>5, PhaseIs
  <2>2. QED BY <1>5, <2>1 DEF StartRaisesOf, ContractSession
<1> USE DEF ContractStepOf, Starting, Open, Continue, Goto, configVars, dockerVars
<1>6. CASE Start(r)
  <2>1. CASE Return(r, "docker_server", "error") \/ Return(r, "skipped", "skipped")
    BY <1>2, <1>6, <2>1 DEF Start, Mode, Status
  <2>2. CASE pc'[r] \in {"ready", "image"} /\ teardown' = teardown
    BY <1>1, <1>6, <2>2 DEF Start
  <2>3. QED BY <1>6, <2>1, <2>2 DEF Start, TypeOK
<1>7. CASE InspectImage(r) \/ Pull(r)
  <2>1. \/ pc'[r] \in {"run", "pull"} /\ teardown' = teardown
        \/ \E status \in Status : Return(r, "docker_server", status)
    BY <1>7, RunCommandStatus DEF InspectImage, Pull, TypeOK, Status
  <2>2. pc[r] \in Starting
    BY <1>7 DEF InspectImage, Pull
  <2>3. QED BY <1>1, <1>2, <2>1, <2>2 DEF Mode
<1>8. CASE RequestRun(r) \/ RequestRetry(r)
  BY <1>1, <1>8 DEF RequestRun, RequestRetry, Request, TypeOK
<1>9. CASE RunReturns(r)
  <2>1. \/ pc'[r] \in {"ready", "retry"} /\ teardown' = teardown
        \/ \E status \in Status : Return(r, "docker_server", status)
    BY <1>9, RunCommandStatus, ClientExitType DEF RunReturns, TypeOK
  <2>2. pc[r] \in Starting
    BY <1>9 DEF RunReturns
  <2>3. QED BY <1>1, <1>2, <2>1, <2>2 DEF Mode
<1>10. CASE Ready(r)
  <2>1. pc[r] \in Starting /\ session[r].mode \in Mode
    BY <1>10 DEF Ready, TypeOK, Session
  <2>2. \E status \in Status : Return(r, session[r].mode, status)
    BY <1>10 DEF Ready, Status
  <2>3. QED BY <1>2, <2>1, <2>2
<1>11. CASE Use(r)
  BY <1>3, <1>11 DEF Use, TypeOK
<1>12. CASE NothingToStop(r)
  BY <1>4, <1>12 DEF NothingToStop, TypeOK, Final
<1>13. CASE InspectLabels(r)
  <2>1. CASE Continue(r, "rm")
    BY <1>3, <1>13, <2>1 DEF InspectLabels, TypeOK
  <2>2. ASSUME NEW status \in Status \ {"skipped", "ok"}, Finish(r, status)
        PROVE  StopReturnsOf(r)
    BY <1>0, <1>13, <2>2, FinishStep DEF InspectLabels
  <2>3. \A exit \in FailedExit : RunCommand(exit) \in Status \ {"skipped", "ok"}
    BY RunCommandStatus DEF FailedExit
  <2>4. QED BY <1>13, <2>1, <2>2, <2>3 DEF InspectLabels, Status
<1>14. CASE RequestRm(r)
  BY <1>3, <1>14 DEF RequestRm, Request, TypeOK
<1>15. CASE RmReturns(r)
  <2>1. PICK status \in Status \ {"skipped"} :
          Finish(r, status) /\ (status = "ok" <=> reply[r] = "zero")
    BY <1>15, RunCommandStatus, ClientExitType DEF RmReturns
  <2>2. reply[r] = "zero" => ~Holds(r)
    BY <1>0, <1>15 DEF RmReturns, InvOf, RemovesOf, Holds
  <2>3. session[r].mode = "docker_server" /\ pc[r] = "await_rm"
    BY <1>0, <1>15 DEF RmReturns, InvOf, PlacedOf
  <2>4. QED BY <1>0, <2>1, <2>2, <2>3, FinishStep
<1>16. CASE StartRaises(r)
  BY <1>5, <1>16 DEF StartRaises, TypeOK, Final
<1>17. CASE StopRaises(r)
  BY <1>4, <1>17 DEF StopRaises, TypeOK, Final
<1>18. CASE Crash(r)
  BY <1>4, <1>5, <1>18 DEF Crash, TypeOK, Final, Pc
<1>19. QED
  BY <1>6, <1>7, <1>8, <1>9, <1>10, <1>11, <1>12, <1>13, <1>14, <1>15, <1>16, <1>17, <1>18
  DEF RunAction, RunStep
\* The other runs see nothing of it.
LEMMA OthersContract ==
  ASSUME TypeOK, NEW r \in Run, RunAction(r), NEW q \in Run \ {r}
  PROVE  Same(q)
<1>1. /\ Sole' = Sole /\ named' = named /\ creator' = creator
      /\ pc'[q] = pc[q] /\ session'[q] = session[q] /\ teardown'[q] = teardown[q]
      /\ <<q, "run">> \in jobs' <=> <<q, "run">> \in jobs
  BY NamesStay, RunFrame, NextSplit
<1>2. ContractPhase(q)' = ContractPhase(q)
  BY <1>1 DEF ContractPhase
<1>3. Holds(q)' = Holds(q)
  BY <1>1, <1>2 DEF Holds
<1>4. QED BY <1>1, <1>2, <1>3 DEF Same, ContractSession

\* The daemon can only take away what a run holds.
LEMMA ServeContract ==
  ASSUME TypeOK, NEW r \in Run, Serve(r), NEW q \in Run
  PROVE  Same(q) \/ (q = r /\ LoseOf(q))
<1>1. /\ Sole' = Sole /\ named' = named /\ jobs' \subseteq jobs
      /\ pc'[q] = pc[q] /\ session'[q] = session[q] /\ teardown'[q] = teardown[q]
      /\ named[q] \in Name /\ named[r] \in Name
  BY NamesStay, ServeFrame, NextSplit DEF TypeOK
<1>2. ContractPhase(q)' = ContractPhase(q)
  BY <1>1 DEF ContractPhase
<1>3. ContractSession(q)' = ContractSession(q)
  BY <1>1 DEF ContractSession
<1>4. Holds(q)' => Holds(q)
  <2>1. creator'[named[q]] = q /\ creator[named[q]] # q => <<q, "run">> \in jobs
    <3>1. SUFFICES ASSUME creator'[named[q]] = q, creator[named[q]] # q
                   PROVE  <<q, "run">> \in jobs
      OBVIOUS
    <3>2. creator'[named[q]] # creator[named[q]] /\ creator'[named[q]] # Nobody
      BY <3>1, RuntimeAdapterAssumption DEF RuntimeAdapterAssumption
    <3>3. creator'[named[q]] = r /\ <<r, "run">> \in jobs
      BY <1>1, <3>2, ServeFrame
    <3>4. QED BY <3>1, <3>3
  <2>2. QED BY <1>1, <1>2, <2>1 DEF Holds
<1>5. q # r => Holds(q)' = Holds(q)
  <2>1. SUFFICES ASSUME q # r, q \in Sole PROVE Holds(q)' = Holds(q)
    BY <1>1 DEF Holds
  <2>2. named[q] # named[r]
    BY <2>1 DEF Sole, Unshared
  <2>3. creator'[named[q]] = creator[named[q]]
    BY <1>1, <2>2, ServeFrame
  <2>4. <<q, "run">> \in jobs' <=> <<q, "run">> \in jobs
    BY <2>1, ServeFrame
  <2>5. QED BY <1>1, <1>2, <2>3, <2>4 DEF Holds
<1>6. CASE Holds(q)' = Holds(q)
  BY <1>1, <1>2, <1>3, <1>6 DEF Same
<1>7. CASE Holds(q)' # Holds(q)
  <2>1. Holds(q) /\ ~Holds(q)'
    BY <1>4, <1>7 DEF Holds
  <2>2. QED BY <1>1, <1>2, <1>3, <1>5, <1>7, <2>1 DEF LoseOf
<1>8. QED BY <1>6, <1>7

\* The adapters implement the contract the orchestrator is written over: over a
\* name of its own and one docker run, a teardown recorded as OK leaves nothing.
THEOREM ContractKeptHolds == Spec => ContractKept
<1>1. Init => Contract!ContractInit
  <2>1. SUFFICES ASSUME Init PROVE Contract!ContractInit
    OBVIOUS
  <2>2. \A r \in Run : /\ ContractPhase(r) = "idle" /\ ContractSession(r) = "none"
                       /\ Holds(r) = FALSE
    <3>1. \A r \in Run : pc[r] \in Starting /\ session[r].status = "none"
      BY <2>1 DEF Init, Starting, NoSession
    <3>2. \A r \in Run : ContractPhase(r) = "idle" /\ ContractSession(r) = "none"
      BY <3>1, PhaseIs DEF ContractSession
    <3>3. QED BY <3>2 DEF Holds
  <2>3. teardown = [r \in Run |-> "none"]
    BY <2>1 DEF Init
  <2>4. QED BY <2>2, <2>3 DEF Contract!ContractInit
<1>2. TypeOK /\ TypeOK' /\ Inv /\ Inv' /\ [Next]_vars
        => [Contract!ContractNext]_(Contract!contractVars)
  <2> SUFFICES ASSUME TypeOK, TypeOK', Inv, Inv', [Next]_vars
               PROVE  [Contract!ContractNext]_(Contract!contractVars)
    OBVIOUS
  <2>1. ASSUME NEW r \in Run, RunAction(r)
        PROVE  [Contract!ContractNext]_(Contract!contractVars)
    <3>1. \A q \in Run \ {r} : Same(q)
      BY <2>1, OthersContract
    <3>2. ContractStepOf(r)
      BY <2>1, RunContract
    <3>3. QED BY <3>1, <3>2, Lift DEF ContractStepOf
  <2>2. ASSUME NEW r \in Run, Serve(r)
        PROVE  [Contract!ContractNext]_(Contract!contractVars)
    <3>1. \A q \in Run \ {r} : Same(q)
      BY <2>2, ServeContract
    <3>2. Same(r) \/ LoseOf(r)
      BY <2>2, ServeContract
    <3>3. QED BY <3>1, <3>2, Lift
  <2>3. CASE (\E n \in Name : ServerDies(n)) \/ UNCHANGED vars
    <3>1. UNCHANGED <<configVars, pc, session, teardown, creator, jobs>>
      BY <2>3 DEF ServerDies, vars, dockerVars
    <3>2. Contract!contractVars' = Contract!contractVars
      BY <3>1 DEF Contract!contractVars, ContractPhase, ContractSession, Holds,
                Sole, Unshared, Retries, configVars
    <3>3. QED BY <3>2
  <2>4. QED BY <2>1, <2>2, <2>3, NextSplit
<1>3. QED
  BY <1>1, <1>2, InvInit, InvStep, TypeCorrect, PTL
  DEF Spec, ContractKept, Contract!ContractSpec
=============================================================================
