------------------------------ MODULE ConfLease ------------------------------
(***************************************************************************)
(* What the guarded switching of /etc/criu/runc.conf promises the host:    *)
(* the file is leased to one process at a time, only the holder changes    *)
(* it, and a lease either ends with the file as the holder found it or     *)
(* with the holder named in "blamed" (it crashed, or it reported that its  *)
(* cleanup failed).                                                        *)
(***************************************************************************)
CONSTANTS Proc, NoProc, Text, SiteText

VARIABLES
  holder,   \* the process the file is leased to, or NoProc
  conf,     \* what the file holds
  base,     \* what it held when the running lease began (conf when none runs)
  blamed    \* the processes known to have left the file in doubt

leaseVars == <<holder, conf, base, blamed>>

Init ==
  /\ holder = NoProc
  /\ conf = SiteText
  /\ base = SiteText
  /\ blamed = {}

Take(p) ==
  /\ holder = NoProc
  /\ holder' = p
  /\ base' = conf
  /\ UNCHANGED <<conf, blamed>>

Scribble(p) ==
  /\ holder = p
  /\ conf' \in Text
  /\ blamed' \in {blamed, blamed \cup {p}}
  /\ UNCHANGED <<holder, base>>

Return(p) ==
  /\ holder = p
  /\ conf = base
  /\ holder' = NoProc
  /\ UNCHANGED <<conf, base, blamed>>

Abandon(p) ==
  /\ holder = p
  /\ holder' = NoProc
  /\ base' = conf
  /\ blamed' = blamed \cup {p}
  /\ UNCHANGED conf

\* A process that holds nothing may crash or report a failure too.
Blame(p) ==
  /\ holder # p
  /\ blamed' = blamed \cup {p}
  /\ UNCHANGED <<holder, conf, base>>

Next == \E p \in Proc : Take(p) \/ Scribble(p) \/ Return(p) \/ Abandon(p) \/ Blame(p)

Spec == Init /\ [][Next]_leaseVars
=============================================================================
