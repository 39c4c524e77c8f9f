----------------------------- MODULE MCMonitor -----------------------------
(***************************************************************************)
(* Values for the constants of Monitor.                                    *)
(***************************************************************************)
EXTENDS Monitor

CONSTANTS core, payment

OneService == <<core>>

TwoServices == <<core, payment>>
=============================================================================
