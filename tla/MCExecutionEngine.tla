--------------------------- MODULE MCExecutionEngine ---------------------------
(* Small instances of ExecutionEngine: a program whose functions call each     *)
(* other under every policy and recurse to the bound.                          *)
EXTENDS ExecutionEngine, TLC

CONSTANTS helper, background, fetch, w1, w2

MCPolicy == (helper :> "Sync") @@ (background :> "Async") @@ (fetch :> "AsyncAfter")

\* A helper that asserts, recurses and starts background work; background work
\* that fetches and asserts; a fetch that starts background work.
MCBody ==
  (helper :> <<Assertion, helper, background>>) @@ (background :> <<fetch, Assertion>>)
    @@ (fetch :> <<Work, background>>)

\* Globals initialized by a fetch and by further work; background work started directly
\* and from a helper.
MCTopLevel == <<fetch, Work, background, helper>>
================================================================================
