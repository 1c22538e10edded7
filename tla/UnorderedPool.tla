----------------------------- MODULE UnorderedPool -----------------------------
(***************************************************************************)
(* What NativeRuntime relies on of its pool: WorkPool without the order    *)
(* and the bound of its queue, but with the promise that no task is        *)
(* accepted twice.  TaskScheduler keeps it, and NativeRuntime uses its     *)
(* pool in no other way.                                                   *)
(***************************************************************************)
CONSTANTS Workers, Tasks, NoTask

VARIABLES waiting, held, stopping, gone

poolVars == <<waiting, held, stopping, gone>>

Init ==
  /\ waiting = {} /\ held = [w \in Workers |-> NoTask]
  /\ stopping = FALSE /\ gone = {}

Accept(t) ==
  /\ ~stopping /\ t \notin waiting /\ \A w \in Workers : held[w] # t
  /\ waiting' = waiting \cup {t}
  /\ UNCHANGED <<held, stopping, gone>>

Take(w, t) ==
  /\ w \notin gone /\ held[w] = NoTask /\ t \in waiting
  /\ held' = [held EXCEPT ![w] = t]
  /\ waiting' = waiting \ {t}
  /\ UNCHANGED <<stopping, gone>>

Finish(w) ==
  /\ held[w] # NoTask
  /\ held' = [held EXCEPT ![w] = NoTask]
  /\ UNCHANGED <<waiting, stopping, gone>>

Stop ==
  /\ stopping' = TRUE
  /\ UNCHANGED <<waiting, held, gone>>

Leave(w) ==
  /\ stopping /\ waiting = {} /\ held[w] = NoTask
  /\ gone' = gone \cup {w}
  /\ UNCHANGED <<waiting, held, stopping>>

Next ==
  \/ \E t \in Tasks : Accept(t)
  \/ \E w \in Workers : (\E t \in Tasks : Take(w, t)) \/ Finish(w) \/ Leave(w)
  \/ Stop

Spec == Init /\ [][Next]_poolVars
================================================================================
