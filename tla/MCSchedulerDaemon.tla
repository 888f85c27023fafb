-------------------------- MODULE MCSchedulerDaemon --------------------------
(***************************************************************************)
(* SchedulerDaemon instantiated for TLC; the task IDs are model values.    *)
(***************************************************************************)
EXTENDS SchedulerDaemon

CONSTANTS t1, t2

MCTasks == {t1, t2}

=============================================================================
