--------------------------- MODULE MCTaskScheduler ---------------------------
(* Small instances of TaskScheduler for TLC: the sets of threads are model      *)
(* values of the cfg.                                                           *)
EXTENDS TaskScheduler, TLC
=============================================================================
