------------------------------ MODULE AbiRegistry ------------------------------
(***************************************************************************)
(* The registry of runtimes behind the C ABI (CrossaAbiRuntimeRegistry in  *)
(* src/bindings/shared-abi/CrossaAbi.cpp): who owns a NativeRuntime, who   *)
(* shuts it down and which thread destroys it, over several runtimes whose *)
(* completions call the ABI themselves.                                    *)
(*                                                                         *)
(* A runtime is kept alive by shared_ptrs: in runtimes_, in retired_, in   *)
(* the locals of an ABI call (`holds`), and in the completion adapter of   *)
(* every operation that is queued or running (`pending`, a busy worker).   *)
(* Inside a runtime only that is modelled; NativeRuntime and TaskScheduler *)
(* have the rest.  One action is one critical section of the registry's    *)
(* mutex_, or one call on a runtime.                                       *)
(***************************************************************************)
EXTENDS Naturals, FiniteSets

CONSTANTS
  Callers,          \* platform threads
  Main,             \* the one that leaves main(), which runs the static destructors
  Reaper,           \* reaper_
  Runtimes,         \* the runtimes ever created, named by their handles
  Workers,          \* the threads of all their pools
  HomeOf,           \* the runtime of each worker
  MaximumPending,   \* a bound on the operations queued in one runtime
  MaximumRuntimes,  \* MaximumRuntimeCount
  CrossRelease,     \* may a completion release or shut down a foreign runtime?
  NoRuntime, NoThread

ASSUME MainIsCaller == Main \in Callers
ASSUME ThreadsDisjoint == Callers \cap Workers = {} /\ Reaper \notin Callers \cup Workers
ASSUME HomesAreRuntimes == HomeOf \in [Workers -> Runtimes]
ASSUME EveryPoolHasWorkers == \A rt \in Runtimes : \E w \in Workers : HomeOf[w] = rt
ASSUME BoundsAreNatural == MaximumPending \in Nat /\ MaximumRuntimes \in Nat
ASSUME ChoiceIsBoolean == CrossRelease \in BOOLEAN
ASSUME NoRuntimeIsNone == NoRuntime \notin Runtimes
ASSUME NoThreadIsNone == NoThread \notin Callers \cup Workers \cup {Reaper}

Threads == Callers \cup Workers \cup {Reaper}
WorkersOf(rt) == {w \in Workers : HomeOf[w] = rt}

VARIABLES
  state,       \* of each runtime: "new", "alive" or "destroyed"
  registered,  \* runtimes_
  retired,     \* retired_ (its order is left open)
  stopping,    \* the runtimes whose scheduler was asked to stop
  pending,     \* queued operations with a completion
  exiting,     \* reaperStopping_
  pc, holds,   \* of each thread; holds: the shared_ptr in a local of its ABI call
  destroyer    \* the thread that ran ~NativeRuntime (history)

registryVars == <<registered, retired, exiting>>
runtimeVars == <<state, stopping, pending, destroyer>>
vars == <<registryVars, runtimeVars, pc, holds>>

Resting == {"ready", "loop", "exited", "absent", "wait", "parked", "callback",
            "sweep", "joinReaper", "gone", "aborted"}
Calling == {"using", "shutdown", "join", "drop", "destroy"}
Ended == {"exited", "absent"}
Idle == {"loop", "aborted"} \cup Ended

Busy(w) == pc[w] \notin Idle    \* w runs a completion and keeps its adapter alive
Exited(rt) == \A w \in WorkersOf(rt) : pc[w] = "exited"

\* Where a thread goes on after an ABI call or a turn of its loop.
Home(t) ==
  CASE t \in Workers -> "callback"
    [] t = Reaper -> "wait"
    [] OTHER -> IF t = Main /\ exiting THEN "sweep" ELSE "ready"

(***************************************************************************)
(* What the code branches on, some of it preceded by a faulty form.        *)
(***************************************************************************)
\* nativeRuntime->isWorkerThread(): the release is deferred, the join skipped.
IsWorkerThread(t, rt) == t \in WorkersOf(rt)

\* What awaitTermination waits for.
Terminated(rt) == Exited(rt)

\* startReaperLocked: where the reaper is afterwards.
LeavesParked == IF pc[Reaper] = "absent" THEN "wait" ELSE pc[Reaper]
Started == IF pc[Reaper] \in {"absent", "parked"} THEN "wait" ELSE pc[Reaper]

\* reapRetiredRuntimes: what follows taking a runtime off the deque.
ReaperDrops == "drop"
ReaperShutsDown == "shutdown"

\* The registry forgets a released runtime; what it keeps of a deferred one.
KeepsNothing(rt) == retired
Deferred(rt) == retired \cup {rt}

\* release checks its map: only the first release of a handle goes on.
IsRegistered(rt) == rt \in registered

HasRoom == Cardinality(registered) < MaximumRuntimes

\* t holds the last shared_ptr to rt; own: it is that of w's own completion.
References(rt, t) ==
  \/ rt \in registered \cup retired
  \/ pending[rt] > 0
  \/ \E s \in Threads \ {t} : holds[s] = rt
IsLast(rt, t) == ~References(rt, t) /\ \A w \in WorkersOf(rt) : ~Busy(w)
IsLastOwn(w) ==
  /\ ~References(HomeOf[w], w)
  /\ \A v \in WorkersOf(HomeOf[w]) \ {w} : ~Busy(v)

----------------------------------------------------------------------------
Init ==
  /\ state = [rt \in Runtimes |-> "new"]
  /\ registered = {} /\ retired = {} /\ exiting = FALSE
  /\ stopping = {}
  /\ pending = [rt \in Runtimes |-> 0]
  /\ pc = [t \in Threads |-> IF t \in Callers THEN "ready" ELSE "absent"]
  /\ holds = [t \in Threads |-> NoRuntime]
  /\ destroyer = [rt \in Runtimes |-> NoThread]

\* A thread of the platform, or a completion, is free to call the ABI.
Free(t) == pc[t] \in {"ready", "callback"}

\* Foreign runtimes: what a completion may be assumed not to do.
MayStop(t, rt) == CrossRelease \/ t \notin Workers \/ t \in WorkersOf(rt)

----------------------------------------------------------------------------
(* createNative                                                            *)
Create(t, rt) ==
  /\ Free(t) /\ ~exiting
  /\ state[rt] = "new" /\ HasRoom
  /\ state' = [state EXCEPT ![rt] = "alive"]
  /\ registered' = registered \cup {rt}
  /\ pc' = [s \in Threads |-> IF s \in WorkersOf(rt) THEN "loop" ELSE pc[s]]
  /\ UNCHANGED <<retired, exiting, stopping, pending, destroyer, holds>>

\* One too many: it is destroyed on the spot, and nobody else has seen it.
CreateRefused(t, rt) ==
  /\ Free(t) /\ ~exiting
  /\ state[rt] = "new" /\ ~HasRoom
  /\ state' = [state EXCEPT ![rt] = "destroyed"]
  /\ destroyer' = [destroyer EXCEPT ![rt] = t]
  /\ UNCHANGED <<registryVars, stopping, pending, pc, holds>>

----------------------------------------------------------------------------
(* Calls that find the runtime and keep it while they use it.              *)
FindNative(t, rt) ==
  /\ Free(t) /\ rt \in registered
  /\ holds' = [holds EXCEPT ![t] = rt]
  /\ pc' = [pc EXCEPT ![t] = "using"]
  /\ UNCHANGED <<registryVars, runtimeVars>>

InvokeAsyncAfter(t) ==
  /\ pc[t] = "using"
  /\ holds[t] \notin stopping /\ pending[holds[t]] < MaximumPending
  /\ pending' = [pending EXCEPT ![holds[t]] = @ + 1]
  /\ pc' = [pc EXCEPT ![t] = "drop"]
  /\ UNCHANGED <<registryVars, state, stopping, destroyer, holds>>

\* Any other accessor, and any call that is refused.
AccessorReturns(t) ==
  /\ pc[t] = "using"
  /\ pc' = [pc EXCEPT ![t] = "drop"]
  /\ UNCHANGED <<registryVars, runtimeVars, holds>>

RuntimeShutdown(t) ==
  /\ pc[t] = "using" /\ MayStop(t, holds[t])
  /\ pc' = [pc EXCEPT ![t] = "shutdown"]
  /\ UNCHANGED <<registryVars, runtimeVars, holds>>

----------------------------------------------------------------------------
(* release: deferred to the reaper on a worker of the runtime itself, where *)
(* starting the reaper may fail.                                            *)
Release(t, rt) ==
  /\ Free(t) /\ IsRegistered(rt) /\ MayStop(t, rt)
  /\ registered' = registered \ {rt}
  /\ holds' = [holds EXCEPT ![t] = rt]
  /\ \/ /\ ~IsWorkerThread(t, rt)
        /\ pc' = [pc EXCEPT ![t] = "shutdown"]
        /\ UNCHANGED retired
     \/ /\ IsWorkerThread(t, rt)
        /\ retired' = Deferred(rt)
        /\ pc' = [pc EXCEPT ![t] = "shutdown", ![Reaper] = Started]
     \/ /\ IsWorkerThread(t, rt) /\ pc[Reaper] = "absent"
        /\ retired' = Deferred(rt)
        /\ pc' = [pc EXCEPT ![t] = "shutdown"]
  /\ UNCHANGED <<exiting, runtimeVars>>

\* NativeRuntime::shutdown.
Shutdown(t) ==
  /\ pc[t] = "shutdown"
  /\ stopping' = stopping \cup {holds[t]}
  /\ pc' = [pc EXCEPT ![t] = IF IsWorkerThread(t, holds[t]) THEN "drop" ELSE "join"]
  /\ UNCHANGED <<registryVars, state, pending, destroyer, holds>>

Join(t) ==
  /\ pc[t] = "join" /\ Terminated(holds[t])
  /\ pc' = [pc EXCEPT ![t] = "drop"]
  /\ UNCHANGED <<registryVars, runtimeVars, holds>>

\* A shared_ptr goes; the last one runs ~NativeRuntime, which shuts down again.
Drop(t) ==
  /\ pc[t] = "drop" /\ ~IsLast(holds[t], t)
  /\ holds' = [holds EXCEPT ![t] = NoRuntime]
  /\ pc' = [pc EXCEPT ![t] = Home(t)]
  /\ UNCHANGED <<registryVars, runtimeVars>>

DropLast(t) ==
  /\ pc[t] = "drop" /\ IsLast(holds[t], t)
  /\ stopping' = stopping \cup {holds[t]}
  /\ pc' = [pc EXCEPT ![t] = "destroy"]
  /\ UNCHANGED <<registryVars, state, pending, destroyer, holds>>

Destroy(t) ==
  /\ pc[t] = "destroy"
  /\ ~IsWorkerThread(t, holds[t]) /\ Terminated(holds[t])
  /\ state' = [state EXCEPT ![holds[t]] = "destroyed"]
  /\ destroyer' = [destroyer EXCEPT ![holds[t]] = t]
  /\ holds' = [holds EXCEPT ![t] = NoRuntime]
  /\ pc' = [pc EXCEPT ![t] = Home(t)]
  /\ UNCHANGED <<registryVars, stopping, pending>>

\* On a worker of its own ~TaskScheduler joins nobody and destroys threads that are
\* joinable, its own among them: std::terminate ends the process where it stands.
Abort(w) ==
  /\ pc[w] = "destroy" /\ IsWorkerThread(w, holds[w])
  /\ state' = [state EXCEPT ![holds[w]] = "destroyed"]
  /\ destroyer' = [destroyer EXCEPT ![holds[w]] = w]
  /\ holds' = [t \in Threads |-> NoRuntime]
  /\ pc' = [t \in Threads |-> IF t \in Workers /\ pc[t] \in Ended THEN pc[t] ELSE "aborted"]
  /\ UNCHANGED <<registryVars, stopping, pending>>

----------------------------------------------------------------------------
(* A worker of a pool.                                                     *)
Take(w) ==
  /\ pc[w] = "loop" /\ pending[HomeOf[w]] > 0
  /\ pending' = [pending EXCEPT ![HomeOf[w]] = @ - 1]
  /\ pc' = [pc EXCEPT ![w] = "callback"]
  /\ UNCHANGED <<registryVars, state, stopping, destroyer, holds>>

\* The work item is destroyed after its completion returned: where that drops the
\* last shared_ptr, ~NativeRuntime runs here, on the pool's own worker.
Finish(w) ==
  /\ pc[w] = "callback"
  /\ IF IsLastOwn(w)
       THEN /\ holds' = [holds EXCEPT ![w] = HomeOf[w]]
            /\ pc' = [pc EXCEPT ![w] = "destroy"]
            /\ stopping' = stopping \cup {HomeOf[w]}
       ELSE /\ pc' = [pc EXCEPT ![w] = "loop"]
            /\ UNCHANGED <<holds, stopping>>
  /\ UNCHANGED <<registryVars, state, pending, destroyer>>

Exit(w) ==
  /\ pc[w] = "loop" /\ HomeOf[w] \in stopping /\ pending[HomeOf[w]] = 0
  /\ pc' = [pc EXCEPT ![w] = "exited"]
  /\ UNCHANGED <<registryVars, runtimeVars, holds>>

----------------------------------------------------------------------------
(* reapRetiredRuntimes                                                     *)
ReaperTake ==
  /\ pc[Reaper] = "wait"
  /\ \E rt \in retired :
       /\ retired' = retired \ {rt}
       /\ holds' = [holds EXCEPT ![Reaper] = rt]
  /\ pc' = [pc EXCEPT ![Reaper] = ReaperShutsDown]
  /\ UNCHANGED <<registered, exiting, runtimeVars>>

ReaperPark ==
  /\ pc[Reaper] = "wait" /\ retired = {} /\ ~exiting
  /\ pc' = [pc EXCEPT ![Reaper] = "parked"]
  /\ UNCHANGED <<registryVars, runtimeVars, holds>>

ReaperReturns ==
  /\ pc[Reaper] = "wait" /\ retired = {} /\ exiting
  /\ pc' = [pc EXCEPT ![Reaper] = "gone"]
  /\ UNCHANGED <<registryVars, runtimeVars, holds>>

----------------------------------------------------------------------------
(* ~CrossaAbiRuntimeRegistry, in the static destructors, whatever the other  *)
(* threads are doing.  They run on, where the process that ends may stop     *)
(* them at any point.                                                        *)
LeaveMain ==
  /\ pc[Main] = "ready" /\ ~exiting
  /\ exiting' = TRUE
  /\ retired' = retired \cup registered
  /\ registered' = {}
  /\ pc' = IF pc[Reaper] = "absent"
             THEN [pc EXCEPT ![Main] = "sweep"]
             ELSE [pc EXCEPT ![Main] = "joinReaper", ![Reaper] = Started]
  /\ UNCHANGED <<runtimeVars, holds>>

JoinReaper ==
  /\ pc[Main] = "joinReaper" /\ pc[Reaper] = "gone"
  /\ pc' = [pc EXCEPT ![Main] = "gone"]
  /\ UNCHANGED <<registryVars, runtimeVars, holds>>

\* Without a reaper the elements of retired_ are destroyed with the deque.
Sweep ==
  /\ pc[Main] = "sweep"
  /\ \E rt \in retired :
       /\ retired' = retired \ {rt}
       /\ holds' = [holds EXCEPT ![Main] = rt]
  /\ pc' = [pc EXCEPT ![Main] = "drop"]
  /\ UNCHANGED <<registered, exiting, runtimeVars>>

SweepEnds ==
  /\ pc[Main] = "sweep" /\ retired = {}
  /\ pc' = [pc EXCEPT ![Main] = "gone"]
  /\ UNCHANGED <<registryVars, runtimeVars, holds>>

Finished ==
  /\ pc[Main] \in {"gone", "aborted"} /\ \A t \in Threads : holds[t] = NoRuntime
  /\ UNCHANGED vars

----------------------------------------------------------------------------
Call(t) ==
  \/ \E rt \in Runtimes :
       Create(t, rt) \/ CreateRefused(t, rt) \/ FindNative(t, rt) \/ Release(t, rt)
  \/ InvokeAsyncAfter(t) \/ RuntimeShutdown(t)

Return(t) ==
  \/ AccessorReturns(t) \/ Shutdown(t) \/ Join(t) \/ Drop(t) \/ DropLast(t) \/ Destroy(t)
  \/ t \in Workers /\ Abort(t)

WorkerStep(w) == Take(w) \/ Exit(w)
ReaperStep == ReaperTake \/ ReaperPark \/ ReaperReturns
MainStep == JoinReaper \/ Sweep \/ SweepEnds

Next ==
  \/ \E t \in Threads : Call(t) \/ Return(t)
  \/ \E w \in Workers : WorkerStep(w) \/ Finish(w)
  \/ ReaperStep \/ LeaveMain \/ MainStep
  \/ Finished

Spec == Init /\ [][Next]_vars

\* Threads are scheduled, and a completion returns in the end, however often it
\* calls the ABI on its way.  Nobody is obliged to call anything.
FairSpec ==
  /\ Spec
  /\ \A t \in Threads : WF_vars(Return(t))
  /\ \A w \in Workers : WF_vars(WorkerStep(w)) /\ SF_vars(Finish(w))
  /\ WF_vars(ReaperStep) /\ WF_vars(MainStep)

(***************************************************************************)
(* Properties.                                                             *)
(***************************************************************************)
\* Every variable in its range.
TypeOK ==
  /\ state \in [Runtimes -> {"new", "alive", "destroyed"}]
  /\ registered \subseteq Runtimes /\ retired \subseteq Runtimes
  /\ stopping \subseteq Runtimes
  /\ pending \in [Runtimes -> 0..MaximumPending]
  /\ exiting \in BOOLEAN
  /\ pc \in [Threads -> Resting \cup Calling]
  /\ holds \in [Threads -> Runtimes \cup {NoRuntime}]
  /\ destroyer \in [Runtimes -> Threads \cup {NoThread}]

\* The process left main() before any reaper was started: the destructor of the
\* registry only drops the runtimes that still live.
ExitWithoutReaper == exiting /\ pc[Reaper] \in {"absent", "aborted"}

\* ~NativeRuntime never runs on a worker of its own pool, where it could not join
\* that worker, whichever of the shared_ptrs goes last: not even at the end of the
\* process with operations in flight, unless no reaper was ever started.
\* (memory-ownership.md: the reaper releases the final reference "from a safe
\* non-worker context".)
DestroyedElsewhere ==
  \A w \in Workers : pc[w] = "destroy" /\ IsWorkerThread(w, holds[w]) =>
    exiting /\ pc[Reaper] = "absent"

\* When a runtime is destroyed no call, operation or table still refers to it, and
\* all its workers have ended, or one of them has just destroyed it.
DestroyedIsUnused ==
  \A rt \in Runtimes : state[rt] = "destroyed" =>
    /\ (\A w \in WorkersOf(rt) : pc[w] \in Ended) \/ destroyer[rt] \in WorkersOf(rt)
    /\ rt \notin registered \cup retired
    /\ pending[rt] = 0
    /\ \A t \in Threads : holds[t] # rt

\* The documented claim has no exception: "Scheduler termination is awaited before
\* runtime-owned result/error storage, interpreter state, network state, and
\* operation records are destroyed" (memory-ownership.md).  The code breaks it when
\* main() is left with operations in flight and no reaper.
TerminationIsAwaited ==
  \A rt \in Runtimes : state[rt] = "destroyed" => \A w \in WorkersOf(rt) : pc[w] \in Ended

\* A runtime that no table names any more is being shut down by somebody who waits
\* for it, or its workers have ended: the references its own queue holds cannot
\* keep it, and its threads, alive for ever.  An exit without a reaper alone leaves
\* a runtime behind, to the calls and operations that were in flight.
LeftBehind(rt) ==
  /\ ExitWithoutReaper
  /\ \/ pending[rt] > 0
     \/ \E w \in WorkersOf(rt) : Busy(w)
     \/ \E t \in Threads : holds[t] = rt
     \/ pc[Reaper] = "aborted"

NoOrphan ==
  \A rt \in Runtimes : state[rt] = "alive" /\ rt \notin registered \cup retired =>
    \/ Exited(rt)
    \/ \E t \in Threads \ WorkersOf(rt) :
         holds[t] = rt /\ pc[t] \in {"shutdown", "join", "destroy"}
    \/ LeftBehind(rt)

\* The inductive invariant: what is referred to is alive,
ReferencesAreAlive ==
  /\ registered \cap retired = {}
  /\ \A rt \in registered \cup retired : state[rt] = "alive"
  /\ \A rt \in Runtimes : pending[rt] > 0 => state[rt] = "alive"
  /\ \A t \in Threads : holds[t] # NoRuntime => state[holds[t]] = "alive"

\* a thread holds a runtime exactly while it is in a call,
PlacesAgree ==
  /\ \A t \in Threads : holds[t] # NoRuntime <=> pc[t] \in Calling
  /\ \A c \in Callers : pc[c] \in {"ready", "sweep", "joinReaper", "gone", "aborted"} \cup Calling
  /\ \A c \in Callers : pc[c] \in {"sweep", "joinReaper", "gone"} => c = Main /\ exiting
  /\ \A w \in Workers : pc[w] \in {"absent", "loop", "exited", "callback", "aborted"} \cup Calling
  /\ pc[Reaper] \in {"absent", "wait", "parked", "gone", "aborted"} \cup Calling
  /\ \A t \in Threads : pc[t] = "join" => ~IsWorkerThread(t, holds[t])

\* workers run while their runtime lives, and end only when it is stopped and drained,
WorkersAgree ==
  \A w \in Workers :
    /\ pc[w] \notin Ended \cup {"aborted"} => state[HomeOf[w]] = "alive"
    /\ state[HomeOf[w]] = "alive" => pc[w] # "absent"
    /\ pc[w] = "exited" => HomeOf[w] \in stopping /\ pending[HomeOf[w]] = 0

\* a destructor runs when nobody else can reach the runtime, and outside the pool
\* unless the process ends without a reaper,
DestructionIsAlone ==
  \A t \in Threads : pc[t] = "destroy" =>
    IF IsWorkerThread(t, holds[t]) THEN IsLastOwn(t) /\ ExitWithoutReaper
                                   ELSE IsLast(holds[t], t)

\* at the end the registry is empty, and only without a reaper does the main thread
\* sweep up and a process abort,
ExitAgrees ==
  /\ exiting => registered = {}
  /\ exiting => pc[Main] \in {"sweep", "drop", "destroy", "joinReaper", "gone", "aborted"}
  /\ exiting /\ pc[Main] \in {"sweep"} \cup Calling => pc[Reaper] = "absent"
  /\ \A t \in Threads : pc[t] = "aborted" => exiting /\ pc[Reaper] = "aborted"
  /\ pc[Reaper] = "aborted" => \A t \in Threads : pc[t] \in {"aborted"} \cup Ended

\* and who destroyed a runtime left its workers ended, or was one of them.
DestroyerAgrees ==
  \A rt \in Runtimes : state[rt] = "destroyed" =>
    (\A w \in WorkersOf(rt) : pc[w] \in Ended) \/ destroyer[rt] \in WorkersOf(rt)

IInv ==
  /\ TypeOK
  /\ ReferencesAreAlive
  /\ PlacesAgree
  /\ WorkersAgree
  /\ DestructionIsAlone
  /\ ExitAgrees
  /\ DestroyerAgrees
  /\ NoOrphan

\* Who waits for the workers of a runtime has stopped it, and a completion that
\* stops a runtime is one that may.
ShutdownAgrees ==
  /\ \A t \in Threads : pc[t] \in {"join", "destroy"} => holds[t] \in stopping
  /\ \A t \in Threads : pc[t] \in {"shutdown", "join"} => MayStop(t, holds[t])

\* The reaper sleeps and ends only with nothing to reap, and the destructor of the
\* registry never joins a reaper that sleeps: no notification of reaperAvailable_,
\* each made under mutex_, comes too early for the wait it is meant for.
ReaperIsAwake ==
  /\ pc[Reaper] = "parked" => retired = {} /\ ~exiting
  /\ pc[Reaper] = "gone" => retired = {} /\ exiting
  /\ pc[Main] = "joinReaper" => pc[Reaper] \notin {"absent", "parked"}

\* A thread that has to wait for the workers of a runtime.
Waits(t) ==
  pc[t] \in {"join", "destroy"} /\ ~IsWorkerThread(t, holds[t]) /\ ~Terminated(holds[t])

\* No circle of joins: whoever waits for the workers of a runtime waits for one that
\* goes on by itself, or for one that destroys another runtime, whose workers go on
\* by themselves.  Only completions that stop foreign runtimes can close a circle.
JoinsEnd ==
  \A t \in Threads : Waits(t) /\ ~CrossRelease =>
    \E w \in Workers :
      /\ pc[w] # "exited" /\ HomeOf[w] \in stopping /\ ~Waits(w)
      /\ \/ HomeOf[w] = holds[t]
         \/ \E v \in WorkersOf(holds[t]) : holds[v] = HomeOf[w]

\* Every ABI call returns.
CallsReturn == \A t \in Callers \cup Workers : pc[t] \in Calling ~> pc[t] \notin Calling

\* A release deferred to a reaper that runs is carried out.
DeferredIsDestroyed ==
  \A rt \in Runtimes :
    rt \in retired /\ pc[Reaper] \notin {"absent", "aborted"} ~> state[rt] = "destroyed"

\* No call and no release stays unfinished, whoever parks meanwhile.
EverythingEnds == CallsReturn /\ DeferredIsDestroyed
================================================================================
