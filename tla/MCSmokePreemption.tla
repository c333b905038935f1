-------------------------- MODULE MCSmokePreemption --------------------------
(***************************************************************************)
(* Two runs on one host; none, one or both of them switch runc.conf.       *)
(***************************************************************************)
EXTENDS SmokePreemption, TLC

CONSTANTS r1, r2

MCProc      == {r1, r2}
MCNoSudo    == {}

\* Sound: only safety is checked, and nothing tells the two runs apart.
MCSymmetry  == Permutations(MCProc)
=============================================================================
