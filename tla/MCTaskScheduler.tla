-------------------------- MODULE MCTaskScheduler --------------------------
(* TaskScheduler on small sets of tasks; no symmetry, for its liveness.    *)
EXTENDS TaskScheduler, TLC
=============================================================================
