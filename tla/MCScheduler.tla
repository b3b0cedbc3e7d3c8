---------------------------- MODULE MCScheduler ----------------------------
(* Small instances of Scheduler: the idle thread and two others.           *)
EXTENDS Scheduler
=============================================================================
