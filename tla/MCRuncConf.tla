------------------------------ MODULE MCRuncConf ------------------------------
(***************************************************************************)
(* Three processes on one host, one of them configured for a sudo that is  *)
(* not installed: the smallest instance with two competing writers and a   *)
(* misread of the original.                                                *)
(***************************************************************************)
EXTENDS RuncConf

CONSTANTS p1, p2, p3

MCProc   == {p1, p2, p3}
MCNoSudo == {p3}
=============================================================================
