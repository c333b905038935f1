------------------------------ MODULE MCInFlight ------------------------------
(***************************************************************************)
(* One run, with its request thread, that may switch runc.conf.            *)
(***************************************************************************)
EXTENDS InFlight

CONSTANT r1
=============================================================================
