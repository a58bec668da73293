---------------------------- MODULE MCScheduler ----------------------------
(***************************************************************************)
(* An instance of Scheduler for TLC: a predefined timer and another name.  *)
(***************************************************************************)
EXTENDS Scheduler

CONSTANTS always, hall
=============================================================================
