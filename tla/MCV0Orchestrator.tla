--------------------------- MODULE MCV0Orchestrator ---------------------------
(***************************************************************************)
(* Two processes that may be given the same output directory, started by   *)
(* hand or, in the second instance, one of them by run_v0_full_debug.sh.   *)
(***************************************************************************)
EXTENDS V0Orchestrator

CONSTANTS p1, p2, d1, d2

MCProc    == {p1, p2}
MCDir     == {d1, d2}
ByHand    == {}
OneScript == {p1}
=============================================================================
