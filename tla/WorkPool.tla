------------------------------- MODULE WorkPool --------------------------------
(***************************************************************************)
(* What a user of the pool sees of it, with its mutex, its condition       *)
(* variables and its calls left out (docs/runtime/scheduling.md): a        *)
(* bounded queue, served in the order of submission by a fixed number of   *)
(* workers with one task each.  A pool that stops accepts no more, works   *)
(* off what it has accepted, and then loses its workers for good.          *)
(***************************************************************************)
EXTENDS Naturals, Sequences

CONSTANTS Workers, Tasks, NoTask, Bound

VARIABLES waiting, held, stopping, gone

poolVars == <<waiting, held, stopping, gone>>

Init ==
  /\ waiting = <<>> /\ held = [w \in Workers |-> NoTask]
  /\ stopping = FALSE /\ gone = {}

Accept(t) ==
  /\ ~stopping /\ Len(waiting) < Bound
  /\ waiting' = Append(waiting, t)
  /\ UNCHANGED <<held, stopping, gone>>

Take(w) ==
  /\ w \notin gone /\ held[w] = NoTask /\ waiting # <<>>
  /\ held' = [held EXCEPT ![w] = Head(waiting)]
  /\ waiting' = Tail(waiting)
  /\ UNCHANGED <<stopping, gone>>

Finish(w) ==
  /\ held[w] # NoTask
  /\ held' = [held EXCEPT ![w] = NoTask]
  /\ UNCHANGED <<waiting, stopping, gone>>

Stop ==
  /\ stopping' = TRUE
  /\ UNCHANGED <<waiting, held, gone>>

Leave(w) ==
  /\ stopping /\ waiting = <<>> /\ held[w] = NoTask
  /\ gone' = gone \cup {w}
  /\ UNCHANGED <<waiting, held, stopping>>

Next ==
  \/ \E t \in Tasks : Accept(t)
  \/ \E w \in Workers : Take(w) \/ Finish(w) \/ Leave(w)
  \/ Stop

Spec == Init /\ [][Next]_poolVars
================================================================================
