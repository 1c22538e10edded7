----------------------------- MODULE MCAbiRegistry -----------------------------
(* Small instances of AbiRegistry: two runtimes, each with a worker, or the     *)
(* first alone.                                                                 *)
EXTENDS AbiRegistry, TLC

CONSTANTS main, reaper, first, second, w1, v1

OneWorkerEach == (w1 :> first) @@ (v1 :> second)
================================================================================
