---------------------------- MODULE RuncConfProofs ----------------------------
(***************************************************************************)
(* Theorems about RuncConf, for every set of processes, every subset of    *)
(* them without sudo and either content of the site's file.                *)
(***************************************************************************)
EXTENDS RuncConf, TLAPS

\* The site's file is one of the texts.
LEMMA SiteTextType == SiteText \in Text
BY RuncConfAssumption DEF Text

\* What a file command can leave is text.
LEMMA WriteType ==
  ASSUME NEW exit \in Exit, NEW text \in Text, conf \in Text,
         NEW after \in AfterWrite(exit, text)
  PROVE  after \in Text
BY DEF AfterWrite, Text, Exit

\* Removing the file leaves a text, whether it succeeds or not.
LEMMA RemoveType ==
  ASSUME NEW exit \in Exit, conf \in Text, NEW after \in AfterRemove(exit)
  PROVE  after \in Text
BY DEF AfterRemove, Text, Exit

\* Writing the original back leaves a text, whether it succeeds or not.
LEMMA RestoreType ==
  ASSUME NEW p \in Proc, NEW exit \in Exit, conf \in Text,
         original[p] \in Captured, original[p] # "none",
         NEW after \in AfterRestore(p, exit)
  PROVE  after \in Text
<1>1. original[p] \in Text BY DEF Captured
<1>2. CASE original[p] = "absent"
  BY <1>2, RemoveType DEF AfterRestore
<1>3. CASE original[p] # "absent"
  BY <1>1, <1>3, WriteType DEF AfterRestore
<1>4. QED BY <1>2, <1>3

\* release leaves an owner or none, and handles of processes.
LEMMA ReleaseType ==
  ASSUME NEW p \in Proc, NEW ok \in BOOLEAN, lock \in Proc \cup {NoProc},
         handle \subseteq Proc, ReleaseLock(p, ok)
  PROVE  lock' \in Proc \cup {NoProc} /\ handle' \subseteq Proc
BY DEF ReleaseLock, Unlocked

-----------------------------------------------------------------------------
\* Type correctness of the switcher's variables.
THEOREM TypeCorrect == Spec => []TypeOK
<1>1. Init => TypeOK
  BY SiteTextType DEF Init, TypeOK, Stage, Captured
<1>2. TypeOK /\ [Next]_confVars => TypeOK'
  <2> SUFFICES ASSUME TypeOK, [Next]_confVars PROVE TypeOK'
    OBVIOUS
  <2> USE DEF TypeOK, Enter, Stage
  <2>1. ASSUME NEW p \in Proc, LockTaken(p) PROVE TypeOK'
    BY <2>1 DEF LockTaken
  <2>2. ASSUME NEW p \in Proc, LockContended(p) \/ LockRaises(p) PROVE TypeOK'
    BY <2>2 DEF LockContended, LockRaises
  <2>3. ASSUME NEW p \in Proc, CaptureText(p) \/ CaptureMissing(p) PROVE TypeOK'
    BY <2>3 DEF CaptureText, CaptureMissing, Captured, Text
  <2>4. ASSUME NEW p \in Proc, CaptureFails(p) PROVE TypeOK'
    BY <2>4, ReleaseType DEF CaptureFails
  <2>5. ASSUME NEW p \in Proc, NEW phase \in Phase, NEW exit \in Exit,
               WritePhase(p, phase, exit)
        PROVE TypeOK'
    <3>1. phase \in Text BY DEF Phase, Text
    <3>2. conf' \in Text BY <2>5, <3>1, WriteType DEF WritePhase
    <3>3. QED BY <2>5, <3>2 DEF WritePhase
  <2>6. ASSUME NEW p \in Proc, NEW exit \in Exit, RestoreOriginal(p, exit) PROVE TypeOK'
    <3>1. conf' \in Text BY <2>6, RestoreType DEF RestoreOriginal
    <3>2. report' \in [Proc -> SUBSET {"restore", "release"}] BY <2>6 DEF RestoreOriginal
    <3>3. QED BY <2>6, <3>1, <3>2 DEF RestoreOriginal
  <2>7. ASSUME NEW p \in Proc, NEW ok \in BOOLEAN, Release(p, ok) PROVE TypeOK'
    <3>1. lock' \in Proc \cup {NoProc} /\ handle' \subseteq Proc
      BY <2>7, ReleaseType DEF Release
    <3>2. report' \in [Proc -> SUBSET {"restore", "release"}] BY <2>7 DEF Release
    <3>3. QED BY <2>7, <3>1, <3>2 DEF Release
  <2>8. ASSUME NEW p \in Proc, ProcessExit(p) \/ Crash(p) PROVE TypeOK'
    BY <2>8 DEF ProcessExit, Crash, Closed, Unlocked
  <2>9. CASE UNCHANGED confVars
    BY <2>9 DEF confVars
  <2>10. QED
    BY <2>1, <2>2, <2>3, <2>4, <2>5, <2>6, <2>7, <2>8, <2>9
    DEF Next, Moves, Protocol
<1>3. QED BY <1>1, <1>2, PTL DEF Spec

-----------------------------------------------------------------------------
(***************************************************************************)
(* The inductive invariant.                                                *)
(***************************************************************************)

\* Who is inside the critical section owns the lock, and only a process that
\* is still in the protocol and has the lock file open does.
Owned ==
  \A p \in Proc :
    /\ stage[p] \in {"locked", "ready"} => lock = p
    /\ stage[p] = "restored" /\ original[p] # "none" => lock = p
    /\ lock = p => /\ p \in handle
                   /\ stage[p] \in {"locked", "ready", "refused", "restored", "done"}

\* Something was captured exactly from the end of acquire on.
CapturedWhenReady ==
  \A p \in Proc :
    /\ stage[p] \in {"idle", "locked", "refused"} => original[p] = "none"
    /\ stage[p] = "ready" => original[p] # "none"

\* A switcher past restore_original that reported nothing did put its original
\* back, and one that still owns the lock after release reported that.
ReturnedOrReported ==
  \A p \in Proc :
    /\ stage[p] = "restored" /\ original[p] # "none" /\ report[p] = {}
         => p \notin NoSudo /\ conf = original[p]
    /\ stage[p] = "done" /\ lock = p => report[p] # {}

\* While nobody is to blame the file is the site's, except between a holder's
\* capture and its restore_original - and that holder knows the site's text,
\* or has no sudo and cannot have changed the file.
Blameless ==
  \A p \in Proc : (stage[p] = "crashed" => original[p] = "none") /\ report[p] = {}

SiteKnown ==
  Blameless =>
    /\ (\A p \in Proc : stage[p] # "ready") => conf = SiteText
    /\ \A p \in Proc : stage[p] = "ready" =>
         IF p \in NoSudo THEN conf = SiteText ELSE original[p] = SiteText

LockInv == Owned /\ CapturedWhenReady /\ ReturnedOrReported /\ SiteKnown

\* Only a missing sudo makes "missing" the one possible exit.
LEMMA SudolessExit ==
  ASSUME NEW p \in Proc
  PROVE  /\ p \in NoSudo => FileExit(p) = {"missing"}
         /\ p \notin NoSudo => FileExit(p) = {"zero", "nonzero", "expired"}
         /\ FileExit(p) = {"missing"} <=> p \in NoSudo
         /\ "zero" \in FileExit(p) <=> p \notin NoSudo
<1>1. {"missing"} # {"zero", "nonzero", "expired"} OBVIOUS
<1>2. QED BY <1>1 DEF FileExit

\* Nobody is to blame exactly when the set of those to blame is empty.
LEMMA BlamelessDef == TypeOK => (Blameless <=> Blamed = {})
BY DEF TypeOK, Blameless, Blamed

\* Blame is never withdrawn.
LEMMA BlameStays ==
  ASSUME TypeOK, [Next]_confVars
  PROVE  Blameless' => Blameless
<1> USE DEF TypeOK, Blameless, Enter
<1>1. ASSUME NEW p \in Proc, LockTaken(p) \/ LockContended(p) \/ LockRaises(p)
      PROVE Blameless' => Blameless
  BY <1>1 DEF LockTaken, LockContended, LockRaises
<1>2. ASSUME NEW p \in Proc, CaptureText(p) \/ CaptureMissing(p) \/ CaptureFails(p)
      PROVE Blameless' => Blameless
  BY <1>2 DEF CaptureText, CaptureMissing, CaptureFails
<1>3. ASSUME NEW p \in Proc, NEW exit \in Exit,
             \/ RestoreOriginal(p, exit)
             \/ \E phase \in Phase : WritePhase(p, phase, exit)
      PROVE Blameless' => Blameless
  BY <1>3 DEF RestoreOriginal, WritePhase
<1>4. ASSUME NEW p \in Proc, NEW ok \in BOOLEAN, Release(p, ok)
      PROVE Blameless' => Blameless
  BY <1>4 DEF Release
<1>5. ASSUME NEW p \in Proc, ProcessExit(p) \/ Crash(p)
      PROVE Blameless' => Blameless
  BY <1>5 DEF ProcessExit, Crash
<1>6. CASE UNCHANGED confVars
  BY <1>6 DEF confVars
<1>7. QED BY <1>1, <1>2, <1>3, <1>4, <1>5, <1>6 DEF Next, Moves, Protocol

\* release gives back what its caller owns and takes nothing from others; it
\* keeps the lock only when it fails.
LEMMA ReleaseFrees ==
  ASSUME NEW p \in Proc, NEW ok \in BOOLEAN, ReleaseLock(p, ok),
         lock = p => p \in handle
  PROVE  /\ lock # p => lock' = lock
         /\ lock' \in {lock, NoProc}
         /\ ok => lock' = Unlocked(p)
         /\ lock' = p => p \in handle'
         /\ \A q \in Proc : q # p => (q \in handle <=> q \in handle')
BY RuncConfAssumption DEF ReleaseLock, Unlocked

\* At the start nobody owns the lock and the file is the site's.
LEMMA LockInvInit == Init => LockInv
BY RuncConfAssumption
DEF Init, LockInv, Owned, CapturedWhenReady, ReturnedOrReported, SiteKnown, Blameless

\* One step per action of the switcher.
LEMMA LockInvStep ==
  ASSUME TypeOK, LockInv, [Next]_confVars
  PROVE  LockInv'
<1> USE RuncConfAssumption
    DEF TypeOK, LockInv, Owned, CapturedWhenReady, ReturnedOrReported, Enter
<1>b. Blameless' => Blameless
  BY BlameStays
<1>1. ASSUME NEW p \in Proc, LockTaken(p) PROVE LockInv'
  BY <1>1, <1>b DEF LockTaken, SiteKnown
<1>2. ASSUME NEW p \in Proc, LockContended(p) \/ LockRaises(p) PROVE LockInv'
  BY <1>2, <1>b DEF LockContended, LockRaises, SiteKnown
<1>3. ASSUME NEW p \in Proc, CaptureText(p) PROVE LockInv'
  <2>1. p \notin NoSudo BY <1>3, SudolessExit DEF CaptureText
  <2>2. SiteKnown' BY <1>3, <1>b, <2>1 DEF CaptureText, SiteKnown
  <2>3. QED BY <1>3, <2>1, <2>2 DEF CaptureText, Captured, Text
<1>4. ASSUME NEW p \in Proc, CaptureMissing(p) PROVE LockInv'
  <2>1. conf = "absent" \/ p \in NoSudo BY <1>4, SudolessExit DEF CaptureMissing
  <2>2. SiteKnown' BY <1>4, <1>b, <2>1 DEF CaptureMissing, SiteKnown
  <2>3. QED BY <1>4, <2>2 DEF CaptureMissing
<1>5. ASSUME NEW p \in Proc, CaptureFails(p) PROVE LockInv'
  BY <1>5, <1>b, ReleaseFrees DEF CaptureFails, SiteKnown
<1>6. ASSUME NEW p \in Proc, NEW phase \in Phase, NEW exit \in Exit,
             WritePhase(p, phase, exit)
      PROVE LockInv'
  <2>1. p \in NoSudo => conf' = conf
    BY <1>6, SudolessExit DEF WritePhase, AfterWrite
  <2>2. SiteKnown' BY <1>6, <1>b, <2>1 DEF WritePhase, SiteKnown
  <2>3. QED BY <1>6, <2>2 DEF WritePhase
<1>7. ASSUME NEW p \in Proc, NEW exit \in Exit, RestoreOriginal(p, exit) PROVE LockInv'
  <2>1. CASE original[p] = "none"
    <3>1. stage[p] # "ready" BY <2>1
    <3>2. SiteKnown' BY <1>7, <1>b, <2>1, <3>1 DEF RestoreOriginal, SiteKnown
    <3>3. QED BY <1>7, <2>1, <3>2 DEF RestoreOriginal
  <2>2. CASE original[p] # "none" /\ exit # "zero"
    <3>1. report'[p] # {} BY <1>7, <2>2 DEF RestoreOriginal
    <3>2. SiteKnown' BY <3>1 DEF SiteKnown, Blameless
    <3>3. QED BY <1>7, <2>2, <3>1, <3>2 DEF RestoreOriginal
  <2>3. CASE original[p] # "none" /\ exit = "zero"
    <3>1. p \notin NoSudo BY <1>7, <2>3, SudolessExit DEF RestoreOriginal
    <3>2. conf' = original[p]
      BY <1>7, <2>3 DEF RestoreOriginal, AfterRestore, AfterWrite, AfterRemove
    <3>3. stage[p] = "ready" /\ lock = p BY <1>7, <2>3 DEF RestoreOriginal
    <3>4. SiteKnown' BY <1>7, <1>b, <2>3, <3>1, <3>2, <3>3 DEF RestoreOriginal, SiteKnown
    <3>5. QED BY <1>7, <2>3, <3>1, <3>2, <3>3, <3>4 DEF RestoreOriginal
  <2>4. QED BY <2>1, <2>2, <2>3
<1>8. ASSUME NEW p \in Proc, NEW ok \in BOOLEAN, Release(p, ok) PROVE LockInv'
  <2>1. SiteKnown' BY <1>8, <1>b DEF Release, SiteKnown
  <2>2. lock' = p => report'[p] # {} BY <1>8, ReleaseFrees DEF Release, Unlocked
  <2>3. QED BY <1>8, <2>1, <2>2, ReleaseFrees DEF Release
<1>9. ASSUME NEW p \in Proc, ProcessExit(p) PROVE LockInv'
  BY <1>9, <1>b DEF ProcessExit, Closed, Unlocked, SiteKnown
<1>10. ASSUME NEW p \in Proc, Crash(p) PROVE LockInv'
  <2>1. original[p] = "none" \/ ~Blameless'
    BY <1>10 DEF Crash, Blameless
  <2>2. original[p] = "none" => stage[p] # "ready"
    OBVIOUS
  <2>3. SiteKnown' BY <1>10, <1>b, <2>1, <2>2 DEF Crash, Closed, Unlocked, SiteKnown
  <2>4. QED BY <1>10, <2>3 DEF Crash, Closed, Unlocked
<1>11. CASE UNCHANGED confVars
  BY <1>11 DEF confVars, SiteKnown, Blameless
<1>12. QED
  BY <1>1, <1>2, <1>3, <1>4, <1>5, <1>6, <1>7, <1>8, <1>9, <1>10, <1>11
  DEF Next, Moves, Protocol

\* The strengthened invariant behind the theorems that follow.
THEOREM LockInvariant == Spec => []LockInv
BY LockInvInit, LockInvStep, TypeCorrect, PTL DEF Spec

-----------------------------------------------------------------------------
\* No lost configuration is silent: a free lock over a file that is not the
\* site's means some process crashed or reported a failed cleanup.
THEOREM CleanupIsHonest == Spec => []HonestCleanup
<1>1. TypeOK /\ LockInv => HonestCleanup
  <2> SUFFICES ASSUME TypeOK, LockInv, lock = NoProc, Blamed = {}
               PROVE  conf = SiteText
    BY DEF HonestCleanup
  <2>1. Blameless BY BlamelessDef
  <2>2. \A p \in Proc : stage[p] # "ready" BY RuncConfAssumption DEF LockInv, Owned
  <2>3. QED BY <2>1, <2>2 DEF LockInv, SiteKnown
<1>2. QED BY <1>1, TypeCorrect, LockInvariant, PTL

\* Whatever a process does without owning the lock, write_phase included, it
\* leaves the file alone.
THEOREM HolderWritesAlone == Spec => OnlyHolderTouchesConf
<1>1. ASSUME TypeOK, LockInv, NEW p \in Proc, Moves(p), lock # p
      PROVE  conf' = conf
  <2>1. CASE Protocol(p) /\ \A exit \in Exit : ~RestoreOriginal(p, exit)
    BY <2>1 DEF Protocol, LockTaken, LockContended, LockRaises, CaptureText,
                CaptureMissing, CaptureFails, Release
  <2>2. ASSUME NEW exit \in Exit, RestoreOriginal(p, exit)
        PROVE  conf' = conf
    <3>1. original[p] = "none"
      BY <1>1, <2>2 DEF RestoreOriginal, LockInv, Owned, CapturedWhenReady
    <3>2. QED BY <2>2, <3>1 DEF RestoreOriginal
  <2>3. ASSUME NEW phase \in Phase, NEW exit \in Exit, WritePhase(p, phase, exit)
        PROVE  conf' = conf
    BY <1>1, <2>3 DEF WritePhase, LockInv, Owned
  <2>4. CASE ProcessExit(p) \/ Crash(p)
    BY <2>4 DEF ProcessExit, Crash
  <2>5. QED BY <1>1, <2>1, <2>2, <2>3, <2>4 DEF Moves
<1>2. TypeOK /\ LockInv
        => [\A p \in Proc : Moves(p) /\ lock # p => conf' = conf]_confVars
  BY <1>1
<1>3. QED BY <1>2, TypeCorrect, LockInvariant, PTL DEF OnlyHolderTouchesConf

-----------------------------------------------------------------------------
(***************************************************************************)
(* The switcher implements the lease.                                      *)
(***************************************************************************)
LEMMA LeaseStep ==
  ASSUME TypeOK, LockInv, [Next]_confVars
  PROVE  [Lease!Next]_(Lease!leaseVars)
<1> USE RuncConfAssumption
    DEF TypeOK, LockInv, Owned, CapturedWhenReady, ReturnedOrReported, Enter, Blamed
<1> DEFINE Stutters == UNCHANGED <<lock, conf, LeaseBase, Blamed>>
<1>0. Stutters => UNCHANGED Lease!leaseVars
  BY DEF Lease!leaseVars
<1>1. ASSUME NEW p \in Proc, LockTaken(p) PROVE Lease!Take(p)
  BY <1>1 DEF LockTaken, LeaseBase, Lease!Take
<1>2. ASSUME NEW p \in Proc, LockContended(p) \/ LockRaises(p) PROVE Stutters
  BY <1>2 DEF LockContended, LockRaises, LeaseBase
<1>3. ASSUME NEW p \in Proc, CaptureText(p) PROVE Stutters
  BY <1>3 DEF CaptureText, LeaseBase
<1>4. ASSUME NEW p \in Proc, CaptureMissing(p) PROVE Stutters
  <2>1. conf = "absent" \/ p \in NoSudo BY <1>4, SudolessExit DEF CaptureMissing
  <2>2. QED BY <1>4, <2>1 DEF CaptureMissing, LeaseBase
<1>5. ASSUME NEW p \in Proc, CaptureFails(p) PROVE Stutters \/ Lease!Return(p)
  <2>1. lock = p /\ lock' \in {lock, NoProc} /\ original[p] = "none"
    BY <1>5, ReleaseFrees DEF CaptureFails
  <2>2. QED BY <1>5, <2>1 DEF CaptureFails, LeaseBase, Lease!Return
<1>6. ASSUME NEW p \in Proc, NEW phase \in Phase, NEW exit \in Exit,
             WritePhase(p, phase, exit)
      PROVE Lease!Scribble(p)
  <2>1. p \in NoSudo => conf' = conf
    BY <1>6, SudolessExit DEF WritePhase, AfterWrite
  <2>2. conf' \in Text
    <3>1. phase \in Text BY DEF Phase, Text
    <3>2. QED BY <1>6, <3>1, WriteType DEF WritePhase
  <2>3. LeaseBase' = LeaseBase BY <1>6, <2>1 DEF WritePhase, LeaseBase
  <2>4. QED BY <1>6, <2>2, <2>3 DEF WritePhase, Lease!Scribble
<1>7. ASSUME NEW p \in Proc, NEW exit \in Exit, RestoreOriginal(p, exit)
      PROVE Stutters \/ Lease!Scribble(p)
  <2>1. CASE original[p] = "none"
    BY <1>7, <2>1 DEF RestoreOriginal, LeaseBase
  <2>2. CASE original[p] # "none"
    <3>1. lock = p BY <1>7, <2>2 DEF RestoreOriginal
    <3>2. conf' \in Text BY <1>7, <2>2, RestoreType DEF RestoreOriginal
    <3>3. p \in NoSudo => conf' = conf
      BY <1>7, <2>2, SudolessExit DEF RestoreOriginal, AfterRestore, AfterWrite, AfterRemove
    <3>4. LeaseBase' = LeaseBase BY <1>7, <3>1, <3>3 DEF RestoreOriginal, LeaseBase
    <3>5. Blamed' \in {Blamed, Blamed \cup {p}} BY <1>7, <2>2 DEF RestoreOriginal
    <3>6. QED BY <1>7, <3>1, <3>2, <3>4, <3>5 DEF RestoreOriginal, Lease!Scribble
  <2>3. QED BY <2>1, <2>2
<1>8. ASSUME NEW p \in Proc, NEW ok \in BOOLEAN, Release(p, ok)
      PROVE \/ Stutters \/ Lease!Return(p) \/ Lease!Abandon(p)
            \/ Lease!Scribble(p) \/ Lease!Blame(p)
  <2>1. CASE lock # p
    <3>1. lock' = lock BY <1>8, <2>1, ReleaseFrees DEF Release
    <3>2. Blamed' \in {Blamed, Blamed \cup {p}} BY <1>8 DEF Release
    <3>3. QED BY <1>8, <2>1, <3>1, <3>2 DEF Release, LeaseBase, Lease!Blame
  <2>2. CASE lock = p /\ ok /\ report[p] = {}
    <3>1. LeaseBase = conf BY <1>8, <2>2 DEF Release, LeaseBase
    <3>2. Blamed' = Blamed BY <1>8, <2>2 DEF Release
    <3>3. lock' = NoProc BY <1>8, <2>2, ReleaseFrees DEF Release, Unlocked
    <3>4. QED BY <1>8, <2>2, <3>1, <3>2, <3>3 DEF Release, LeaseBase, Lease!Return
  <2>3. CASE lock = p /\ (~ok \/ report[p] # {})
    <3>1. Blamed' = Blamed \cup {p} BY <1>8, <2>3 DEF Release
    <3>2. CASE lock' = p
      <4>1. LeaseBase' = LeaseBase BY <1>8, <2>3, <3>2 DEF Release, LeaseBase
      <4>2. QED BY <1>8, <2>3, <3>1, <3>2, <4>1 DEF Release, Lease!Scribble
    <3>3. CASE lock' = NoProc
      BY <1>8, <2>3, <3>1, <3>3 DEF Release, LeaseBase, Lease!Abandon
    <3>4. QED BY <1>8, <2>3, <3>2, <3>3, ReleaseFrees DEF Release
  <2>4. QED BY <2>1, <2>2, <2>3
<1>9. ASSUME NEW p \in Proc, ProcessExit(p) PROVE Stutters \/ Lease!Abandon(p)
  <2>1. CASE lock # p
    BY <1>9, <2>1 DEF ProcessExit, Closed, Unlocked, LeaseBase
  <2>2. CASE lock = p
    <3>1. Blamed' = Blamed \cup {p} BY <1>9, <2>2 DEF ProcessExit
    <3>2. QED BY <1>9, <2>2, <3>1 DEF ProcessExit, Closed, Unlocked, LeaseBase, Lease!Abandon
  <2>3. QED BY <2>1, <2>2
<1>10. ASSUME NEW p \in Proc, Crash(p)
       PROVE Stutters \/ Lease!Return(p) \/ Lease!Blame(p) \/ Lease!Abandon(p)
  <2>1. CASE original[p] = "none" /\ report[p] = {}
    <3>1. Blamed' = Blamed BY <1>10, <2>1 DEF Crash
    <3>2. QED BY <1>10, <2>1, <3>1 DEF Crash, Closed, Unlocked, LeaseBase, Lease!Return
  <2>2. CASE original[p] # "none" \/ report[p] # {}
    <3>1. Blamed' = Blamed \cup {p} BY <1>10, <2>2 DEF Crash
    <3>2. QED BY <1>10, <3>1 DEF Crash, Closed, Unlocked, LeaseBase, Lease!Blame, Lease!Abandon
  <2>3. QED BY <2>1, <2>2
<1>11. CASE UNCHANGED confVars
  BY <1>11, <1>0 DEF confVars, LeaseBase
<1>12. QED
  BY <1>0, <1>1, <1>2, <1>3, <1>4, <1>5, <1>6, <1>7, <1>8, <1>9, <1>10, <1>11
  DEF Next, Moves, Protocol, Lease!Next

\* Every lease of the file ends with the file as its holder found it, or with
\* the holder blamed: RuncConf implements ConfLease.
THEOREM ImplementsLease == Spec => LeaseImplemented
<1>1. Init => Lease!Init
  BY DEF Init, LeaseBase, Blamed, Lease!Init
<1>2. QED
  BY <1>1, LeaseStep, TypeCorrect, LockInvariant, PTL DEF Spec, Lease!Spec, LeaseImplemented
=============================================================================
