--------------------------- MODULE AbiRegistryProofs ---------------------------
(***************************************************************************)
(* Theorems about AbiRegistry.  The argument is NoOrphan: a runtime that   *)
(* no table names is in the hands of a thread outside its pool that waits  *)
(* for its workers, or its workers have ended.  A worker that drops a      *)
(* reference is running, so that somebody else still holds one.  Only an   *)
(* exit without a reaper leaves a runtime to its own operations.           *)
(***************************************************************************)
EXTENDS AbiRegistry, TLAPS

USE MainIsCaller, ThreadsDisjoint, HomesAreRuntimes, EveryPoolHasWorkers, BoundsAreNatural,
    ChoiceIsBoolean, NoRuntimeIsNone, NoThreadIsNone
USE DEF Threads, WorkersOf, Resting, Calling, Ended, Idle, ExitWithoutReaper, Busy, Exited, Free, Home, IsWorkerThread,
        Terminated, Started, ReaperShutsDown, Deferred, IsRegistered

\* The registry starts empty.
LEMMA InitEstablishes == Init => IInv
<1> SUFFICES ASSUME Init PROVE IInv OBVIOUS
<1> USE DEF Init
<1>1. TypeOK
  <2>1. pending \in [Runtimes -> 0..MaximumPending] OBVIOUS
  <2>2. pc \in [Threads -> {"ready", "absent"}] OBVIOUS
  <2>3. pc \in [Threads -> Resting \cup Calling] BY <2>2
  <2>4. holds \in [Threads -> Runtimes \cup {NoRuntime}] OBVIOUS
  <2>5. destroyer \in [Runtimes -> Threads \cup {NoThread}] OBVIOUS
  <2> QED BY <2>1, <2>3, <2>4, <2>5 DEF TypeOK
<1>2. ReferencesAreAlive BY DEF ReferencesAreAlive
<1>3. PlacesAgree BY DEF PlacesAgree
<1>4. WorkersAgree BY DEF WorkersAgree
<1>5. DestructionIsAlone BY DEF DestructionIsAlone
<1>6. ExitAgrees BY DEF ExitAgrees
<1>7. NoOrphan BY DEF NoOrphan
<1>8. DestroyerAgrees BY DEF DestroyerAgrees
<1> QED BY <1>1, <1>2, <1>3, <1>4, <1>5, <1>6, <1>7, <1>8 DEF IInv

\* createNative: nobody can have referred to the runtime before.
LEMMA CreatePreserves ==
  ASSUME IInv, NEW t \in Threads, NEW rt \in Runtimes, Create(t, rt)
  PROVE  IInv'
<1> USE DEF Create, registryVars, runtimeVars
<1>1. TypeOK' BY DEF IInv, TypeOK
<1>2. ReferencesAreAlive' BY DEF IInv, TypeOK, ReferencesAreAlive, PlacesAgree, WorkersAgree
<1>3. PlacesAgree' BY DEF IInv, TypeOK, ReferencesAreAlive, PlacesAgree, WorkersAgree
<1>4. WorkersAgree' BY DEF IInv, TypeOK, ReferencesAreAlive, PlacesAgree, WorkersAgree
<1>5. DestructionIsAlone' BY DEF IInv, TypeOK, ReferencesAreAlive, PlacesAgree, WorkersAgree,
  DestructionIsAlone, IsLast, IsLastOwn, References
<1>6. ExitAgrees' BY DEF IInv, TypeOK, ReferencesAreAlive, PlacesAgree, ExitAgrees
<1>7. NoOrphan'
  <2>1. \A w \in WorkersOf(rt) : pc[w] \in {"absent", "exited"} /\ holds[w] = NoRuntime
    BY DEF IInv, TypeOK, PlacesAgree, WorkersAgree, ExitAgrees
  <2>2. \A s \in Runtimes \ {rt} : Exited(s) => Exited(s)' BY DEF IInv, TypeOK
  <2>3. \A s \in Threads : holds[s] # NoRuntime => pc'[s] = pc[s] BY <2>1 DEF IInv, TypeOK
  <2> HIDE DEF Exited
  <2>4. ASSUME NEW s \in Runtimes, state'[s] = "alive", s \notin registered' \cup retired'
        PROVE  \/ Exited(s)'
               \/ \E u \in Threads \ WorkersOf(s) :
                    holds'[u] = s /\ pc'[u] \in {"shutdown", "join", "destroy"}
    <3>1. s # rt /\ state[s] = "alive" /\ s \notin registered \cup retired
      BY <2>4 DEF IInv, TypeOK
    <3>2. CASE Exited(s) BY <2>2, <3>1, <3>2
    <3>3. ASSUME NEW u \in Threads \ WorkersOf(s), holds[u] = s
          PROVE  pc'[u] = pc[u] /\ holds'[u] = s
      BY <2>3, <3>3
    <3>4. ~LeftBehind(s) BY DEF LeftBehind
    <3> HIDE DEF Create
    <3> QED BY <3>1, <3>2, <3>3, <3>4 DEF IInv, NoOrphan
  <2> HIDE DEF Create
  <2> QED BY <2>4, Zenon DEF NoOrphan
<1>8. DestroyerAgrees' BY DEF IInv, TypeOK, ReferencesAreAlive, PlacesAgree, WorkersAgree, ExitAgrees, DestroyerAgrees
<1> QED BY <1>1, <1>2, <1>3, <1>4, <1>5, <1>6, <1>7, <1>8 DEF IInv

\* A runtime too many is destroyed by its creator.
LEMMA CreateRefusedPreserves ==
  ASSUME IInv, NEW t \in Threads, NEW rt \in Runtimes, CreateRefused(t, rt)
  PROVE  IInv'
<1> USE DEF CreateRefused, registryVars, runtimeVars
<1>1. TypeOK' BY DEF IInv, TypeOK
<1>2. ReferencesAreAlive' BY DEF IInv, TypeOK, ReferencesAreAlive, PlacesAgree, WorkersAgree
<1>3. PlacesAgree' BY DEF IInv, TypeOK, ReferencesAreAlive, PlacesAgree, ExitAgrees
<1>4. WorkersAgree' BY DEF IInv, TypeOK, ReferencesAreAlive, PlacesAgree, WorkersAgree
<1>5. DestructionIsAlone' BY DEF IInv, TypeOK, ReferencesAreAlive, PlacesAgree, WorkersAgree,
  DestructionIsAlone, IsLast, IsLastOwn, References
<1>6. ExitAgrees' BY DEF IInv, TypeOK, ReferencesAreAlive, PlacesAgree, ExitAgrees
<1>7. NoOrphan' BY DEF IInv, TypeOK, PlacesAgree, WorkersAgree, ExitAgrees, NoOrphan, LeftBehind
<1>8. DestroyerAgrees' BY DEF IInv, TypeOK, ReferencesAreAlive, PlacesAgree, WorkersAgree, ExitAgrees, DestroyerAgrees
<1> QED BY <1>1, <1>2, <1>3, <1>4, <1>5, <1>6, <1>7, <1>8 DEF IInv

\* Only a registered runtime is found.
LEMMA FindNativePreserves ==
  ASSUME IInv, NEW t \in Threads, NEW rt \in Runtimes, FindNative(t, rt)
  PROVE  IInv'
<1> USE DEF FindNative, registryVars, runtimeVars
<1>1. TypeOK' BY DEF IInv, TypeOK
<1>2. ReferencesAreAlive' BY DEF IInv, TypeOK, ReferencesAreAlive, PlacesAgree, WorkersAgree
<1>3. PlacesAgree' BY DEF IInv, TypeOK, ReferencesAreAlive, PlacesAgree, ExitAgrees
<1>4. WorkersAgree' BY DEF IInv, TypeOK, ReferencesAreAlive, PlacesAgree, WorkersAgree
<1>5. DestructionIsAlone' BY DEF IInv, TypeOK, ReferencesAreAlive, PlacesAgree, WorkersAgree,
  DestructionIsAlone, IsLast, IsLastOwn, References
<1>6. ExitAgrees' BY DEF IInv, TypeOK, ReferencesAreAlive, PlacesAgree, ExitAgrees
<1>7. NoOrphan' BY DEF IInv, TypeOK, PlacesAgree, WorkersAgree, ExitAgrees, NoOrphan, LeftBehind
<1>8. DestroyerAgrees' BY DEF IInv, TypeOK, ReferencesAreAlive, PlacesAgree, WorkersAgree, DestroyerAgrees
<1> QED BY <1>1, <1>2, <1>3, <1>4, <1>5, <1>6, <1>7, <1>8 DEF IInv

\* The submitting call itself keeps the runtime alive.
LEMMA InvokeAsyncAfterPreserves ==
  ASSUME IInv, NEW t \in Threads, InvokeAsyncAfter(t)
  PROVE  IInv'
<1> USE DEF InvokeAsyncAfter, registryVars, runtimeVars
<1>1. TypeOK'
  <2>1. holds[t] \in Runtimes BY DEF IInv, TypeOK, PlacesAgree
  <2>2. pending[holds[t]] + 1 \in 0..MaximumPending BY <2>1 DEF IInv, TypeOK
  <2> QED BY <2>1, <2>2 DEF IInv, TypeOK
<1>2. ReferencesAreAlive' BY DEF IInv, TypeOK, ReferencesAreAlive, PlacesAgree, WorkersAgree
<1>3. PlacesAgree' BY DEF IInv, TypeOK, ReferencesAreAlive, PlacesAgree, ExitAgrees
<1>4. WorkersAgree' BY DEF IInv, TypeOK, ReferencesAreAlive, PlacesAgree, WorkersAgree
<1>5. DestructionIsAlone' BY DEF IInv, TypeOK, ReferencesAreAlive, PlacesAgree, WorkersAgree,
  DestructionIsAlone, IsLast, IsLastOwn, References
<1>6. ExitAgrees' BY DEF IInv, TypeOK, ReferencesAreAlive, PlacesAgree, ExitAgrees
<1>7. NoOrphan' BY DEF IInv, TypeOK, PlacesAgree, WorkersAgree, ExitAgrees, NoOrphan, LeftBehind
<1>8. DestroyerAgrees' BY DEF IInv, TypeOK, ReferencesAreAlive, PlacesAgree, WorkersAgree, DestroyerAgrees
<1> QED BY <1>1, <1>2, <1>3, <1>4, <1>5, <1>6, <1>7, <1>8 DEF IInv

\* The call goes on to drop its reference.
LEMMA AccessorReturnsPreserves ==
  ASSUME IInv, NEW t \in Threads, AccessorReturns(t)
  PROVE  IInv'
<1> USE DEF AccessorReturns, registryVars, runtimeVars
<1>1. TypeOK' BY DEF IInv, TypeOK
<1>2. ReferencesAreAlive' BY DEF IInv, TypeOK, ReferencesAreAlive, PlacesAgree, WorkersAgree
<1>3. PlacesAgree' BY DEF IInv, TypeOK, ReferencesAreAlive, PlacesAgree, ExitAgrees
<1>4. WorkersAgree' BY DEF IInv, TypeOK, ReferencesAreAlive, PlacesAgree, WorkersAgree
<1>5. DestructionIsAlone' BY DEF IInv, TypeOK, ReferencesAreAlive, PlacesAgree, WorkersAgree,
  DestructionIsAlone, IsLast, IsLastOwn, References
<1>6. ExitAgrees' BY DEF IInv, TypeOK, ReferencesAreAlive, PlacesAgree, ExitAgrees
<1>7. NoOrphan' BY DEF IInv, TypeOK, PlacesAgree, WorkersAgree, ExitAgrees, NoOrphan, LeftBehind
<1>8. DestroyerAgrees' BY DEF IInv, TypeOK, ReferencesAreAlive, PlacesAgree, WorkersAgree, DestroyerAgrees
<1> QED BY <1>1, <1>2, <1>3, <1>4, <1>5, <1>6, <1>7, <1>8 DEF IInv

\* The call goes on to shut the runtime down.
LEMMA RuntimeShutdownPreserves ==
  ASSUME IInv, NEW t \in Threads, RuntimeShutdown(t)
  PROVE  IInv'
<1> USE DEF RuntimeShutdown, registryVars, runtimeVars
<1>1. TypeOK' BY DEF IInv, TypeOK
<1>2. ReferencesAreAlive' BY DEF IInv, TypeOK, ReferencesAreAlive, PlacesAgree, WorkersAgree
<1>3. PlacesAgree' BY DEF IInv, TypeOK, ReferencesAreAlive, PlacesAgree, ExitAgrees
<1>4. WorkersAgree' BY DEF IInv, TypeOK, ReferencesAreAlive, PlacesAgree, WorkersAgree
<1>5. DestructionIsAlone' BY DEF IInv, TypeOK, ReferencesAreAlive, PlacesAgree, WorkersAgree,
  DestructionIsAlone, IsLast, IsLastOwn, References
<1>6. ExitAgrees' BY DEF IInv, TypeOK, ReferencesAreAlive, PlacesAgree, ExitAgrees
<1>7. NoOrphan' BY DEF IInv, TypeOK, PlacesAgree, WorkersAgree, ExitAgrees, NoOrphan, LeftBehind
<1>8. DestroyerAgrees' BY DEF IInv, TypeOK, ReferencesAreAlive, PlacesAgree, WorkersAgree, DestroyerAgrees
<1> QED BY <1>1, <1>2, <1>3, <1>4, <1>5, <1>6, <1>7, <1>8 DEF IInv

\* The released runtime is in the hands of the caller, or in retired_.
LEMMA ReleasePreserves ==
  ASSUME IInv, NEW t \in Threads, NEW rt \in Runtimes, Release(t, rt)
  PROVE  IInv'
<1> USE DEF Release, registryVars, runtimeVars
<1>1. TypeOK' BY DEF IInv, TypeOK
<1>2. ReferencesAreAlive' BY DEF IInv, TypeOK, ReferencesAreAlive, PlacesAgree, WorkersAgree
<1>3. PlacesAgree' BY DEF IInv, TypeOK, ReferencesAreAlive, PlacesAgree, ExitAgrees
<1>4. WorkersAgree' BY DEF IInv, TypeOK, ReferencesAreAlive, PlacesAgree, WorkersAgree
<1>5. DestructionIsAlone'
  <2>1. ~exiting /\ state' = state /\ pending' = pending BY DEF IInv, ExitAgrees
  <2> SUFFICES ASSUME NEW s \in Threads, pc'[s] = "destroy" PROVE IsLast(holds[s], s)'
    BY <2>1 DEF IInv, TypeOK, DestructionIsAlone
  <2>2. s # t /\ pc[s] = "destroy" /\ holds'[s] = holds[s] BY DEF IInv, TypeOK
  <2>3. IsLast(holds[s], s) BY <2>1, <2>2 DEF IInv, DestructionIsAlone
  <2>4. holds[s] # rt BY <2>3 DEF IsLast, References
  <2> QED BY <2>1, <2>2, <2>3, <2>4 DEF IInv, TypeOK, PlacesAgree, IsLast, References
<1>6. ExitAgrees' BY DEF IInv, TypeOK, ReferencesAreAlive, PlacesAgree, ExitAgrees
<1>7. NoOrphan' BY DEF IInv, TypeOK, PlacesAgree, WorkersAgree, ExitAgrees, NoOrphan, LeftBehind
<1>8. DestroyerAgrees' BY DEF IInv, TypeOK, ReferencesAreAlive, PlacesAgree, WorkersAgree, DestroyerAgrees
<1> QED BY <1>1, <1>2, <1>3, <1>4, <1>5, <1>6, <1>7, <1>8 DEF IInv

\* A worker of the pool goes on, any other thread waits.
LEMMA ShutdownPreserves ==
  ASSUME IInv, NEW t \in Threads, Shutdown(t)
  PROVE  IInv'
<1> USE DEF Shutdown, registryVars, runtimeVars
<1>1. TypeOK'
  <2>1. holds[t] \in Runtimes BY DEF IInv, TypeOK, PlacesAgree
  <2>2. stopping' \subseteq Runtimes BY <2>1 DEF IInv, TypeOK
  <2> QED BY <2>2 DEF IInv, TypeOK
<1>2. ReferencesAreAlive' BY DEF IInv, TypeOK, ReferencesAreAlive, PlacesAgree, WorkersAgree
<1>3. PlacesAgree' BY DEF IInv, TypeOK, ReferencesAreAlive, PlacesAgree, ExitAgrees
<1>4. WorkersAgree' BY DEF IInv, TypeOK, ReferencesAreAlive, PlacesAgree, WorkersAgree
<1>5. DestructionIsAlone' BY DEF IInv, TypeOK, ReferencesAreAlive, PlacesAgree, WorkersAgree,
  DestructionIsAlone, IsLast, IsLastOwn, References
<1>6. ExitAgrees' BY DEF IInv, TypeOK, ReferencesAreAlive, PlacesAgree, ExitAgrees
<1>7. NoOrphan' BY DEF IInv, TypeOK, PlacesAgree, WorkersAgree, ExitAgrees, NoOrphan, LeftBehind
<1>8. DestroyerAgrees' BY DEF IInv, TypeOK, ReferencesAreAlive, PlacesAgree, WorkersAgree, DestroyerAgrees
<1> QED BY <1>1, <1>2, <1>3, <1>4, <1>5, <1>6, <1>7, <1>8 DEF IInv

\* The caller that waited leaves a runtime whose workers have ended.
LEMMA JoinPreserves ==
  ASSUME IInv, NEW t \in Threads, Join(t)
  PROVE  IInv'
<1> USE DEF Join, registryVars, runtimeVars
<1>1. TypeOK' BY DEF IInv, TypeOK
<1>2. ReferencesAreAlive' BY DEF IInv, TypeOK, ReferencesAreAlive, PlacesAgree, WorkersAgree
<1>3. PlacesAgree' BY DEF IInv, TypeOK, ReferencesAreAlive, PlacesAgree, ExitAgrees
<1>4. WorkersAgree' BY DEF IInv, TypeOK, ReferencesAreAlive, PlacesAgree, WorkersAgree
<1>5. DestructionIsAlone' BY DEF IInv, TypeOK, ReferencesAreAlive, PlacesAgree, WorkersAgree,
  DestructionIsAlone, IsLast, IsLastOwn, References
<1>6. ExitAgrees' BY DEF IInv, TypeOK, ReferencesAreAlive, PlacesAgree, ExitAgrees
<1>7. NoOrphan' BY DEF IInv, TypeOK, PlacesAgree, WorkersAgree, ExitAgrees, NoOrphan, LeftBehind
<1>8. DestroyerAgrees' BY DEF IInv, TypeOK, ReferencesAreAlive, PlacesAgree, WorkersAgree, DestroyerAgrees
<1> QED BY <1>1, <1>2, <1>3, <1>4, <1>5, <1>6, <1>7, <1>8 DEF IInv

\* A reference that is not the last one goes.
LEMMA DropPreserves ==
  ASSUME IInv, NEW t \in Threads, Drop(t)
  PROVE  IInv'
<1> USE DEF Drop, registryVars, runtimeVars
<1>1. TypeOK' BY DEF IInv, TypeOK
<1>2. ReferencesAreAlive' BY DEF IInv, TypeOK, ReferencesAreAlive, PlacesAgree, WorkersAgree
<1>3. PlacesAgree' BY DEF IInv, TypeOK, ReferencesAreAlive, PlacesAgree, ExitAgrees
<1>4. WorkersAgree' BY DEF IInv, TypeOK, ReferencesAreAlive, PlacesAgree, WorkersAgree
<1>5. DestructionIsAlone' BY DEF IInv, TypeOK, ReferencesAreAlive, PlacesAgree, WorkersAgree,
  DestructionIsAlone, IsLast, IsLastOwn, References
<1>6. ExitAgrees' BY DEF IInv, TypeOK, ReferencesAreAlive, PlacesAgree, ExitAgrees
<1>7. NoOrphan' BY DEF IInv, TypeOK, PlacesAgree, WorkersAgree, ExitAgrees, NoOrphan, LeftBehind,
  IsLast, References
<1>8. DestroyerAgrees' BY DEF IInv, TypeOK, ReferencesAreAlive, PlacesAgree, WorkersAgree, DestroyerAgrees
<1> QED BY <1>1, <1>2, <1>3, <1>4, <1>5, <1>6, <1>7, <1>8 DEF IInv

\* The last reference goes, on a thread outside the pool.
LEMMA DropLastPreserves ==
  ASSUME IInv, NEW t \in Threads, DropLast(t)
  PROVE  IInv'
<1> USE DEF DropLast, registryVars, runtimeVars
<1>1. TypeOK'
  <2>1. holds[t] \in Runtimes BY DEF IInv, TypeOK, PlacesAgree
  <2>2. stopping' \subseteq Runtimes BY <2>1 DEF IInv, TypeOK
  <2> QED BY <2>2 DEF IInv, TypeOK
<1>2. ReferencesAreAlive' BY DEF IInv, TypeOK, ReferencesAreAlive, PlacesAgree, WorkersAgree
<1>3. PlacesAgree' BY DEF IInv, TypeOK, ReferencesAreAlive, PlacesAgree, ExitAgrees
<1>4. WorkersAgree' BY DEF IInv, TypeOK, ReferencesAreAlive, PlacesAgree, WorkersAgree
<1>5. DestructionIsAlone' BY DEF IInv, TypeOK, ReferencesAreAlive, PlacesAgree, WorkersAgree,
  DestructionIsAlone, IsLast, IsLastOwn, References
<1>6. ExitAgrees' BY DEF IInv, TypeOK, ReferencesAreAlive, PlacesAgree, ExitAgrees
<1>7. NoOrphan' BY DEF IInv, TypeOK, PlacesAgree, WorkersAgree, ExitAgrees, NoOrphan, LeftBehind
<1>8. DestroyerAgrees' BY DEF IInv, TypeOK, ReferencesAreAlive, PlacesAgree, WorkersAgree, DestroyerAgrees
<1> QED BY <1>1, <1>2, <1>3, <1>4, <1>5, <1>6, <1>7, <1>8 DEF IInv

\* The destructor joined the workers.
LEMMA DestroyPreserves ==
  ASSUME IInv, NEW t \in Threads, Destroy(t)
  PROVE  IInv'
<1> USE DEF Destroy, registryVars, runtimeVars
<1>a. /\ holds[t] \in Runtimes /\ t \notin WorkersOf(holds[t])
      /\ holds[t] \notin registered \cup retired /\ pending[holds[t]] = 0
      /\ \A s \in Threads \ {t} : holds[s] # holds[t]
  BY DEF IInv, TypeOK, PlacesAgree, DestructionIsAlone, IsLast, IsLastOwn, References
<1>b. \A w \in WorkersOf(holds[t]) : pc[w] = "exited" BY <1>a
<1>1. TypeOK' BY DEF IInv, TypeOK
<1>2. ReferencesAreAlive' BY <1>a DEF IInv, TypeOK, ReferencesAreAlive, PlacesAgree, WorkersAgree
<1>3. PlacesAgree' BY DEF IInv, TypeOK, ReferencesAreAlive, PlacesAgree, ExitAgrees
<1>4. WorkersAgree' BY <1>a, <1>b DEF IInv, TypeOK, ReferencesAreAlive, PlacesAgree, WorkersAgree
<1>5. DestructionIsAlone' BY DEF IInv, TypeOK, ReferencesAreAlive, PlacesAgree, WorkersAgree,
  DestructionIsAlone, IsLast, IsLastOwn, References
<1>6. ExitAgrees' BY DEF IInv, TypeOK, ReferencesAreAlive, PlacesAgree, ExitAgrees
<1>7. NoOrphan' BY DEF IInv, TypeOK, PlacesAgree, WorkersAgree, ExitAgrees, NoOrphan, LeftBehind
<1>8. DestroyerAgrees' BY <1>a, <1>b DEF IInv, TypeOK, ReferencesAreAlive, PlacesAgree, WorkersAgree, DestroyerAgrees
<1> QED BY <1>1, <1>2, <1>3, <1>4, <1>5, <1>6, <1>7, <1>8 DEF IInv

\* The process ends on a worker that destroys its own runtime.
LEMMA AbortPreserves ==
  ASSUME IInv, NEW w \in Workers, Abort(w)
  PROVE  IInv'
<1> USE DEF Abort, registryVars, runtimeVars
<1>a. /\ holds[w] \in Runtimes /\ w \in WorkersOf(holds[w]) /\ ExitWithoutReaper
      /\ holds[w] \notin registered \cup retired /\ pending[holds[w]] = 0
  BY DEF IInv, TypeOK, PlacesAgree, DestructionIsAlone, IsLastOwn, References
<1>1. TypeOK' BY <1>a DEF IInv, TypeOK
<1>2. ReferencesAreAlive' BY <1>a DEF IInv, TypeOK, ReferencesAreAlive
<1>3. PlacesAgree' BY <1>a DEF IInv, TypeOK, PlacesAgree
<1>4. WorkersAgree' BY <1>a DEF IInv, TypeOK, WorkersAgree
<1>5. DestructionIsAlone' BY <1>a DEF IInv, TypeOK, DestructionIsAlone
<1>6. ExitAgrees' BY <1>a DEF IInv, TypeOK, ExitAgrees
<1>7. NoOrphan' BY <1>a DEF IInv, TypeOK, NoOrphan, LeftBehind
<1>8. DestroyerAgrees' BY <1>a DEF IInv, TypeOK, DestroyerAgrees
<1> QED BY <1>1, <1>2, <1>3, <1>4, <1>5, <1>6, <1>7, <1>8 DEF IInv

\* A worker takes an operation, and its reference with it.
LEMMA TakePreserves ==
  ASSUME IInv, NEW w \in Workers, Take(w)
  PROVE  IInv'
<1> USE DEF Take, registryVars, runtimeVars
<1>1. TypeOK' BY DEF IInv, TypeOK
<1>2. ReferencesAreAlive' BY DEF IInv, TypeOK, ReferencesAreAlive, PlacesAgree, WorkersAgree
<1>3. PlacesAgree' BY DEF IInv, TypeOK, ReferencesAreAlive, PlacesAgree, ExitAgrees
<1>4. WorkersAgree' BY DEF IInv, TypeOK, ReferencesAreAlive, PlacesAgree, WorkersAgree
<1>5. DestructionIsAlone' BY DEF IInv, TypeOK, ReferencesAreAlive, PlacesAgree, WorkersAgree,
  DestructionIsAlone, IsLast, IsLastOwn, References
<1>6. ExitAgrees' BY DEF IInv, TypeOK, ReferencesAreAlive, PlacesAgree, ExitAgrees
<1>7. NoOrphan' BY DEF IInv, TypeOK, PlacesAgree, WorkersAgree, ExitAgrees, NoOrphan, LeftBehind
<1>8. DestroyerAgrees' BY DEF IInv, TypeOK, ReferencesAreAlive, PlacesAgree, WorkersAgree, DestroyerAgrees
<1> QED BY <1>1, <1>2, <1>3, <1>4, <1>5, <1>6, <1>7, <1>8 DEF IInv

\* A worker drops the reference of its operation: the last one only after an exit
\* without a reaper.
LEMMA FinishPreserves ==
  ASSUME IInv, NEW w \in Workers, Finish(w)
  PROVE  IInv'
<1> USE DEF Finish, registryVars, runtimeVars
<1>a. /\ HomeOf[w] \in Runtimes /\ state[HomeOf[w]] = "alive" /\ holds[w] = NoRuntime
      /\ IsLastOwn(w) => ExitWithoutReaper
  BY DEF IInv, TypeOK, PlacesAgree, WorkersAgree, NoOrphan, LeftBehind, IsLastOwn, References
<1>1. TypeOK' BY <1>a DEF IInv, TypeOK
<1>2. ReferencesAreAlive' BY <1>a DEF IInv, TypeOK, ReferencesAreAlive, PlacesAgree, WorkersAgree
<1>3. PlacesAgree'
  <2>1. CASE IsLastOwn(w)
    BY <1>a, <2>1 DEF IInv, TypeOK, PlacesAgree
  <2>2. CASE ~IsLastOwn(w)
    BY <1>a, <2>2 DEF IInv, TypeOK, PlacesAgree
  <2> QED BY <2>1, <2>2
<1>4. WorkersAgree' BY <1>a DEF IInv, TypeOK, ReferencesAreAlive, PlacesAgree, WorkersAgree
<1>5. DestructionIsAlone' BY <1>a DEF IInv, TypeOK, ReferencesAreAlive, PlacesAgree, WorkersAgree,
  DestructionIsAlone, IsLast, IsLastOwn, References
<1>6. ExitAgrees' BY <1>a DEF IInv, TypeOK, ReferencesAreAlive, PlacesAgree, ExitAgrees
<1>7. NoOrphan'
  <2> SUFFICES ASSUME NEW rt \in Runtimes, state[rt] = "alive", rt \notin registered \cup retired
               PROVE  \/ Exited(rt)'
                      \/ \E t \in Threads \ WorkersOf(rt) :
                           holds'[t] = rt /\ pc'[t] \in {"shutdown", "join", "destroy"}
                      \/ LeftBehind(rt)'
    BY DEF NoOrphan
  <2>1. CASE Exited(rt) BY <2>1 DEF IInv, TypeOK
  <2>2. ASSUME NEW t \in Threads \ WorkersOf(rt), holds[t] = rt,
               pc[t] \in {"shutdown", "join", "destroy"}
        PROVE  holds'[t] = rt /\ pc'[t] = pc[t]
    BY <1>a, <2>2 DEF IInv, TypeOK
  <2>3. CASE LeftBehind(rt)
    <3>1. ExitWithoutReaper' BY <2>3 DEF LeftBehind, IInv, TypeOK
    <3>2. CASE IsLastOwn(w) /\ HomeOf[w] = rt
      BY <1>a, <3>1, <3>2 DEF LeftBehind, IInv, TypeOK
    <3>3. CASE ~IsLastOwn(w) /\ HomeOf[w] = rt
      <4>1. \/ pending[rt] > 0 \/ (\E t \in Threads \ {w} : holds[t] = rt)
            \/ (\E v \in WorkersOf(rt) \ {w} : Busy(v))
        BY <3>3 DEF IsLastOwn, References
      <4>2. /\ pending' = pending
            /\ \A t \in Threads \ {w} : holds'[t] = holds[t] /\ pc'[t] = pc[t]
        BY DEF IInv, TypeOK
      <4> QED BY <3>1, <4>1, <4>2 DEF LeftBehind
    <3>4. CASE HomeOf[w] # rt
      <4>1. /\ pending' = pending /\ pc'[Reaper] = pc[Reaper]
            /\ \A v \in WorkersOf(rt) : pc'[v] = pc[v]
            /\ \A t \in Threads : holds[t] = rt => holds'[t] = rt
        BY <1>a, <3>4 DEF IInv, TypeOK
      <4> QED BY <2>3, <3>1, <4>1 DEF LeftBehind
    <3> QED BY <3>2, <3>3, <3>4
  <2> QED BY <2>1, <2>2, <2>3 DEF IInv, NoOrphan
<1>8. DestroyerAgrees' BY <1>a DEF IInv, TypeOK, ReferencesAreAlive, PlacesAgree, WorkersAgree, DestroyerAgrees
<1> QED BY <1>1, <1>2, <1>3, <1>4, <1>5, <1>6, <1>7, <1>8 DEF IInv

\* A worker ends.
LEMMA ExitPreserves ==
  ASSUME IInv, NEW w \in Workers, Exit(w)
  PROVE  IInv'
<1> USE DEF Exit, registryVars, runtimeVars
<1>1. TypeOK' BY DEF IInv, TypeOK
<1>2. ReferencesAreAlive' BY DEF IInv, TypeOK, ReferencesAreAlive, PlacesAgree, WorkersAgree
<1>3. PlacesAgree' BY DEF IInv, TypeOK, ReferencesAreAlive, PlacesAgree, ExitAgrees
<1>4. WorkersAgree' BY DEF IInv, TypeOK, ReferencesAreAlive, PlacesAgree, WorkersAgree
<1>5. DestructionIsAlone' BY DEF IInv, TypeOK, ReferencesAreAlive, PlacesAgree, WorkersAgree,
  DestructionIsAlone, IsLast, IsLastOwn, References
<1>6. ExitAgrees' BY DEF IInv, TypeOK, ReferencesAreAlive, PlacesAgree, ExitAgrees
<1>7. NoOrphan' BY DEF IInv, TypeOK, PlacesAgree, WorkersAgree, ExitAgrees, NoOrphan, LeftBehind
<1>8. DestroyerAgrees' BY DEF IInv, TypeOK, ReferencesAreAlive, PlacesAgree, WorkersAgree, DestroyerAgrees
<1> QED BY <1>1, <1>2, <1>3, <1>4, <1>5, <1>6, <1>7, <1>8 DEF IInv

\* The reaper takes over what a worker retired.
LEMMA ReaperTakePreserves ==
  ASSUME IInv, ReaperTake
  PROVE  IInv'
<1> USE DEF ReaperTake, registryVars, runtimeVars
<1>1. TypeOK' BY DEF IInv, TypeOK
<1>2. ReferencesAreAlive' BY DEF IInv, TypeOK, ReferencesAreAlive, PlacesAgree, WorkersAgree
<1>3. PlacesAgree' BY DEF IInv, TypeOK, ReferencesAreAlive, PlacesAgree, ExitAgrees
<1>4. WorkersAgree' BY DEF IInv, TypeOK, ReferencesAreAlive, PlacesAgree, WorkersAgree
<1>5. DestructionIsAlone' BY DEF IInv, TypeOK, ReferencesAreAlive, PlacesAgree, WorkersAgree,
  DestructionIsAlone, IsLast, IsLastOwn, References
<1>6. ExitAgrees' BY DEF IInv, TypeOK, ReferencesAreAlive, PlacesAgree, ExitAgrees
<1>7. NoOrphan' BY DEF IInv, TypeOK, PlacesAgree, WorkersAgree, ExitAgrees, NoOrphan, LeftBehind
<1>8. DestroyerAgrees' BY DEF IInv, TypeOK, ReferencesAreAlive, PlacesAgree, WorkersAgree, DestroyerAgrees
<1> QED BY <1>1, <1>2, <1>3, <1>4, <1>5, <1>6, <1>7, <1>8 DEF IInv

\* The reaper waits.
LEMMA ReaperParkPreserves ==
  ASSUME IInv, ReaperPark
  PROVE  IInv'
<1> USE DEF ReaperPark, registryVars, runtimeVars
<1>1. TypeOK' BY DEF IInv, TypeOK
<1>2. ReferencesAreAlive' BY DEF IInv, TypeOK, ReferencesAreAlive, PlacesAgree, WorkersAgree
<1>3. PlacesAgree' BY DEF IInv, TypeOK, ReferencesAreAlive, PlacesAgree, ExitAgrees
<1>4. WorkersAgree' BY DEF IInv, TypeOK, ReferencesAreAlive, PlacesAgree, WorkersAgree
<1>5. DestructionIsAlone' BY DEF IInv, TypeOK, ReferencesAreAlive, PlacesAgree, WorkersAgree,
  DestructionIsAlone, IsLast, IsLastOwn, References
<1>6. ExitAgrees' BY DEF IInv, TypeOK, ReferencesAreAlive, PlacesAgree, ExitAgrees
<1>7. NoOrphan' BY DEF IInv, TypeOK, PlacesAgree, WorkersAgree, ExitAgrees, NoOrphan, LeftBehind
<1>8. DestroyerAgrees' BY DEF IInv, TypeOK, ReferencesAreAlive, PlacesAgree, WorkersAgree, DestroyerAgrees
<1> QED BY <1>1, <1>2, <1>3, <1>4, <1>5, <1>6, <1>7, <1>8 DEF IInv

\* The reaper ends.
LEMMA ReaperReturnsPreserves ==
  ASSUME IInv, ReaperReturns
  PROVE  IInv'
<1> USE DEF ReaperReturns, registryVars, runtimeVars
<1>1. TypeOK' BY DEF IInv, TypeOK
<1>2. ReferencesAreAlive' BY DEF IInv, TypeOK, ReferencesAreAlive, PlacesAgree, WorkersAgree
<1>3. PlacesAgree' BY DEF IInv, TypeOK, ReferencesAreAlive, PlacesAgree, ExitAgrees
<1>4. WorkersAgree' BY DEF IInv, TypeOK, ReferencesAreAlive, PlacesAgree, WorkersAgree
<1>5. DestructionIsAlone' BY DEF IInv, TypeOK, ReferencesAreAlive, PlacesAgree, WorkersAgree,
  DestructionIsAlone, IsLast, IsLastOwn, References
<1>6. ExitAgrees' BY DEF IInv, TypeOK, ReferencesAreAlive, PlacesAgree, ExitAgrees
<1>7. NoOrphan' BY DEF IInv, TypeOK, PlacesAgree, WorkersAgree, ExitAgrees, NoOrphan, LeftBehind
<1>8. DestroyerAgrees' BY DEF IInv, TypeOK, ReferencesAreAlive, PlacesAgree, WorkersAgree, DestroyerAgrees
<1> QED BY <1>1, <1>2, <1>3, <1>4, <1>5, <1>6, <1>7, <1>8 DEF IInv

\* The registry retires everything.
LEMMA LeaveMainPreserves ==
  ASSUME IInv, LeaveMain
  PROVE  IInv'
<1> USE DEF LeaveMain, registryVars, runtimeVars
<1>1. TypeOK' BY DEF IInv, TypeOK
<1>2. ReferencesAreAlive' BY DEF IInv, TypeOK, ReferencesAreAlive, PlacesAgree, WorkersAgree
<1>3. PlacesAgree' BY DEF IInv, TypeOK, ReferencesAreAlive, PlacesAgree, ExitAgrees
<1>4. WorkersAgree' BY DEF IInv, TypeOK, ReferencesAreAlive, PlacesAgree, WorkersAgree
<1>5. DestructionIsAlone' BY DEF IInv, TypeOK, ReferencesAreAlive, PlacesAgree, WorkersAgree,
  DestructionIsAlone, IsLast, IsLastOwn, References
<1>6. ExitAgrees' BY DEF IInv, TypeOK, ReferencesAreAlive, PlacesAgree, ExitAgrees
<1>7. NoOrphan' BY DEF IInv, TypeOK, PlacesAgree, WorkersAgree, ExitAgrees, NoOrphan, LeftBehind
<1>8. DestroyerAgrees' BY DEF IInv, TypeOK, ReferencesAreAlive, PlacesAgree, WorkersAgree, DestroyerAgrees
<1> QED BY <1>1, <1>2, <1>3, <1>4, <1>5, <1>6, <1>7, <1>8 DEF IInv

\* The registry is gone.
LEMMA JoinReaperPreserves ==
  ASSUME IInv, JoinReaper
  PROVE  IInv'
<1> USE DEF JoinReaper, registryVars, runtimeVars
<1>1. TypeOK' BY DEF IInv, TypeOK
<1>2. ReferencesAreAlive' BY DEF IInv, TypeOK, ReferencesAreAlive, PlacesAgree, WorkersAgree
<1>3. PlacesAgree' BY DEF IInv, TypeOK, ReferencesAreAlive, PlacesAgree, ExitAgrees
<1>4. WorkersAgree' BY DEF IInv, TypeOK, ReferencesAreAlive, PlacesAgree, WorkersAgree
<1>5. DestructionIsAlone' BY DEF IInv, TypeOK, ReferencesAreAlive, PlacesAgree, WorkersAgree,
  DestructionIsAlone, IsLast, IsLastOwn, References
<1>6. ExitAgrees' BY DEF IInv, TypeOK, ReferencesAreAlive, PlacesAgree, ExitAgrees
<1>7. NoOrphan' BY DEF IInv, TypeOK, PlacesAgree, WorkersAgree, ExitAgrees, NoOrphan, LeftBehind
<1>8. DestroyerAgrees' BY DEF IInv, TypeOK, ReferencesAreAlive, PlacesAgree, WorkersAgree, DestroyerAgrees
<1> QED BY <1>1, <1>2, <1>3, <1>4, <1>5, <1>6, <1>7, <1>8 DEF IInv

\* Without a reaper the main thread drops what is left.
LEMMA SweepPreserves ==
  ASSUME IInv, Sweep
  PROVE  IInv'
<1> USE DEF Sweep, registryVars, runtimeVars
<1>1. TypeOK' BY DEF IInv, TypeOK
<1>2. ReferencesAreAlive' BY DEF IInv, TypeOK, ReferencesAreAlive, PlacesAgree, WorkersAgree
<1>3. PlacesAgree' BY DEF IInv, TypeOK, ReferencesAreAlive, PlacesAgree, ExitAgrees
<1>4. WorkersAgree' BY DEF IInv, TypeOK, ReferencesAreAlive, PlacesAgree, WorkersAgree
<1>5. DestructionIsAlone' BY DEF IInv, TypeOK, ReferencesAreAlive, PlacesAgree, WorkersAgree,
  DestructionIsAlone, IsLast, IsLastOwn, References
<1>6. ExitAgrees' BY DEF IInv, TypeOK, ReferencesAreAlive, PlacesAgree, ExitAgrees
<1>7. NoOrphan' BY DEF IInv, TypeOK, PlacesAgree, WorkersAgree, ExitAgrees, NoOrphan, LeftBehind
<1>8. DestroyerAgrees' BY DEF IInv, TypeOK, ReferencesAreAlive, PlacesAgree, WorkersAgree, DestroyerAgrees
<1> QED BY <1>1, <1>2, <1>3, <1>4, <1>5, <1>6, <1>7, <1>8 DEF IInv

\* The registry is gone.
LEMMA SweepEndsPreserves ==
  ASSUME IInv, SweepEnds
  PROVE  IInv'
<1> USE DEF SweepEnds, registryVars, runtimeVars
<1>1. TypeOK' BY DEF IInv, TypeOK
<1>2. ReferencesAreAlive' BY DEF IInv, TypeOK, ReferencesAreAlive, PlacesAgree, WorkersAgree
<1>3. PlacesAgree' BY DEF IInv, TypeOK, ReferencesAreAlive, PlacesAgree, ExitAgrees
<1>4. WorkersAgree' BY DEF IInv, TypeOK, ReferencesAreAlive, PlacesAgree, WorkersAgree
<1>5. DestructionIsAlone' BY DEF IInv, TypeOK, ReferencesAreAlive, PlacesAgree, WorkersAgree,
  DestructionIsAlone, IsLast, IsLastOwn, References
<1>6. ExitAgrees' BY DEF IInv, TypeOK, ReferencesAreAlive, PlacesAgree, ExitAgrees
<1>7. NoOrphan' BY DEF IInv, TypeOK, PlacesAgree, WorkersAgree, ExitAgrees, NoOrphan, LeftBehind
<1>8. DestroyerAgrees' BY DEF IInv, TypeOK, ReferencesAreAlive, PlacesAgree, WorkersAgree, DestroyerAgrees
<1> QED BY <1>1, <1>2, <1>3, <1>4, <1>5, <1>6, <1>7, <1>8 DEF IInv

\* Every step preserves the invariant.
LEMMA NextPreserves ==
  ASSUME IInv, [Next]_vars
  PROVE  IInv'
<1>1. CASE UNCHANGED vars
  BY <1>1 DEF vars, registryVars, runtimeVars, IInv, TypeOK, ReferencesAreAlive, PlacesAgree,
    WorkersAgree, DestructionIsAlone, IsLast, References, ExitAgrees, NoOrphan,
    LeftBehind, IsLastOwn, DestroyerAgrees
<1>2. ASSUME NEW t \in Threads, Call(t) PROVE IInv'
  BY <1>2, CreatePreserves, CreateRefusedPreserves, FindNativePreserves, ReleasePreserves,
     InvokeAsyncAfterPreserves, RuntimeShutdownPreserves DEF Call
<1>3. ASSUME NEW t \in Threads, Return(t) PROVE IInv'
  BY <1>3, AccessorReturnsPreserves, ShutdownPreserves, JoinPreserves, DropPreserves,
     DropLastPreserves, DestroyPreserves, AbortPreserves DEF Return
<1>4. ASSUME NEW w \in Workers, WorkerStep(w) \/ Finish(w) PROVE IInv'
  BY <1>4, TakePreserves, ExitPreserves, FinishPreserves DEF WorkerStep
<1>5. CASE ReaperStep
  BY <1>5, ReaperTakePreserves, ReaperParkPreserves, ReaperReturnsPreserves DEF ReaperStep
<1>6. CASE LeaveMain \/ MainStep
  BY <1>6, LeaveMainPreserves, JoinReaperPreserves, SweepPreserves, SweepEndsPreserves
     DEF MainStep
<1>7. CASE Finished BY <1>1, <1>7 DEF Finished
<1> QED BY <1>1, <1>2, <1>3, <1>4, <1>5, <1>6, <1>7 DEF Next

\* The invariant holds in every reachable state, whenever main() is left.
THEOREM Invariance == Spec => []IInv
<1>1. Init => IInv BY InitEstablishes
<1>2. IInv /\ [Next]_vars => IInv' BY NextPreserves
<1> QED BY <1>1, <1>2, PTL DEF Spec

\* No runtime is destroyed by a worker of its own pool, unless main() is left before
\* any reaper was started.
THEOREM DestroyedElsewhereTheorem == Spec => []DestroyedElsewhere
<1>1. IInv => DestroyedElsewhere
  BY DEF IInv, TypeOK, DestructionIsAlone, ExitAgrees, DestroyedElsewhere
<1>2. Spec => []IInv BY Invariance
<1> QED BY <1>1, <1>2, PTL

\* A destroyed runtime has no reference left, and no running worker unless one of them
\* destroyed it.
THEOREM DestroyedIsUnusedTheorem == Spec => []DestroyedIsUnused
<1>1. IInv => DestroyedIsUnused
  BY DEF IInv, TypeOK, ReferencesAreAlive, DestroyerAgrees, DestroyedIsUnused
<1>2. Spec => []IInv BY Invariance
<1> QED BY <1>1, <1>2, PTL

\* Every runtime that lives is named by a table, waited for by a thread outside its
\* pool, or its workers have ended, or was left behind by an exit without a reaper.
THEOREM NoOrphanTheorem == Spec => []NoOrphan
<1>1. IInv => NoOrphan BY DEF IInv
<1>2. Spec => []IInv BY Invariance
<1> QED BY <1>1, <1>2, PTL
----------------------------------------------------------------------------
(* Waiting.                                                                *)

\* A call of the ABI that finds, starts or stops a runtime.
LEMMA CallsKeepWaiting ==
  ASSUME IInv, ShutdownAgrees, ReaperIsAwake, NEW t \in Threads, NEW rt \in Runtimes,
         \/ Create(t, rt)
         \/ CreateRefused(t, rt)
         \/ FindNative(t, rt)
         \/ Release(t, rt)
  PROVE  ShutdownAgrees' /\ ReaperIsAwake'
<1> USE DEF IInv, TypeOK, PlacesAgree, ExitAgrees, ShutdownAgrees, ReaperIsAwake, MayStop,
            registryVars, runtimeVars
<1>1. CASE Create(t, rt) BY <1>1 DEF Create, WorkersAgree
<1>2. CASE CreateRefused(t, rt) BY <1>2 DEF CreateRefused
<1>3. CASE FindNative(t, rt) BY <1>3 DEF FindNative
<1>4. CASE Release(t, rt) BY <1>4 DEF Release
<1> QED BY <1>1, <1>2, <1>3, <1>4

\* The rest of the call.
LEMMA ReturnsKeepWaiting ==
  ASSUME IInv, ShutdownAgrees, ReaperIsAwake, NEW t \in Threads,
         \/ AccessorReturns(t)
         \/ RuntimeShutdown(t)
         \/ InvokeAsyncAfter(t)
         \/ Shutdown(t)
         \/ Join(t)
         \/ Drop(t)
         \/ DropLast(t)
         \/ Destroy(t)
         \/ t \in Workers /\ Abort(t)
  PROVE  ShutdownAgrees' /\ ReaperIsAwake'
<1> USE DEF IInv, TypeOK, PlacesAgree, ExitAgrees, ShutdownAgrees, ReaperIsAwake, MayStop,
            registryVars, runtimeVars
<1>1. CASE AccessorReturns(t) BY <1>1 DEF AccessorReturns
<1>2. CASE RuntimeShutdown(t) BY <1>2 DEF RuntimeShutdown
<1>3. CASE InvokeAsyncAfter(t) BY <1>3 DEF InvokeAsyncAfter
<1>4. CASE Shutdown(t) BY <1>4 DEF Shutdown
<1>5. CASE Join(t) BY <1>5 DEF Join
<1>6. CASE Drop(t) BY <1>6 DEF Drop
<1>7. CASE DropLast(t) BY <1>7 DEF DropLast
<1>8. CASE Destroy(t) BY <1>8 DEF Destroy
<1>9. CASE t \in Workers /\ Abort(t) BY <1>9 DEF Abort
<1> QED BY <1>1, <1>2, <1>3, <1>4, <1>5, <1>6, <1>7, <1>8, <1>9

\* A worker of a pool.
LEMMA WorkersKeepWaiting ==
  ASSUME IInv, ShutdownAgrees, ReaperIsAwake, NEW w \in Workers,
         \/ Take(w)
         \/ Exit(w)
         \/ Finish(w)
  PROVE  ShutdownAgrees' /\ ReaperIsAwake'
<1> USE DEF IInv, TypeOK, PlacesAgree, ExitAgrees, ShutdownAgrees, ReaperIsAwake, MayStop,
            registryVars, runtimeVars
<1>1. CASE Take(w) BY <1>1 DEF Take
<1>2. CASE Exit(w) BY <1>2 DEF Exit
<1>3. CASE Finish(w) BY <1>3 DEF Finish
<1> QED BY <1>1, <1>2, <1>3

\* The reaper and the end of the process.
LEMMA ReaperKeepsWaiting ==
  ASSUME IInv, ShutdownAgrees, ReaperIsAwake,
         \/ ReaperTake
         \/ ReaperPark
         \/ ReaperReturns
         \/ LeaveMain
         \/ JoinReaper
         \/ Sweep
         \/ SweepEnds
  PROVE  ShutdownAgrees' /\ ReaperIsAwake'
<1> USE DEF IInv, TypeOK, PlacesAgree, ExitAgrees, ShutdownAgrees, ReaperIsAwake, MayStop,
            registryVars, runtimeVars
<1>1. CASE ReaperTake BY <1>1 DEF ReaperTake
<1>2. CASE ReaperPark BY <1>2 DEF ReaperPark
<1>3. CASE ReaperReturns BY <1>3 DEF ReaperReturns
<1>4. CASE LeaveMain BY <1>4 DEF LeaveMain
<1>5. CASE JoinReaper BY <1>5 DEF JoinReaper
<1>6. CASE Sweep BY <1>6 DEF Sweep
<1>7. CASE SweepEnds BY <1>7 DEF SweepEnds
<1> QED BY <1>1, <1>2, <1>3, <1>4, <1>5, <1>6, <1>7

LEMMA WaitingInvariance == Spec => [](IInv /\ ShutdownAgrees /\ ReaperIsAwake)
<1>1. Init => ShutdownAgrees /\ ReaperIsAwake BY DEF Init, ShutdownAgrees, ReaperIsAwake
<1>2. ASSUME IInv, ShutdownAgrees, ReaperIsAwake, [Next]_vars
      PROVE  ShutdownAgrees' /\ ReaperIsAwake'
  <2>1. CASE UNCHANGED vars
    BY <1>2, <2>1 DEF vars, registryVars, runtimeVars, ShutdownAgrees, ReaperIsAwake, MayStop
  <2>2. ASSUME NEW t \in Threads, Call(t) PROVE ShutdownAgrees' /\ ReaperIsAwake'
    BY <1>2, <2>2, CallsKeepWaiting, ReturnsKeepWaiting DEF Call
  <2>3. ASSUME NEW t \in Threads, Return(t) PROVE ShutdownAgrees' /\ ReaperIsAwake'
    BY <1>2, <2>3, ReturnsKeepWaiting DEF Return
  <2>4. ASSUME NEW w \in Workers, WorkerStep(w) \/ Finish(w) PROVE ShutdownAgrees' /\ ReaperIsAwake'
    BY <1>2, <2>4, WorkersKeepWaiting DEF WorkerStep
  <2>5. CASE ReaperStep \/ LeaveMain \/ MainStep
    BY <1>2, <2>5, ReaperKeepsWaiting DEF ReaperStep, MainStep
  <2>6. CASE Finished BY <2>1, <2>6 DEF Finished
  <2> QED BY <1>2, <2>1, <2>2, <2>3, <2>4, <2>5, <2>6 DEF Next
<1>3. IInv /\ ShutdownAgrees /\ ReaperIsAwake /\ [Next]_vars => ShutdownAgrees' /\ ReaperIsAwake'
  BY <1>2
<1>4. Spec => []IInv BY Invariance
<1> QED BY <1>1, <1>3, <1>4, PTL DEF Spec

\* The reaper misses neither a deferred release nor the end of the process.
THEOREM ReaperIsAwakeTheorem == Spec => []ReaperIsAwake
BY WaitingInvariance, PTL

\* Without completions that stop foreign runtimes no thread joins for ever: the
\* workers it waits for end, or destroy a runtime whose workers end.
THEOREM JoinsEndTheorem == Spec => []JoinsEnd
<1>1. ASSUME IInv, ShutdownAgrees PROVE JoinsEnd
  <2> SUFFICES ASSUME NEW t \in Threads, Waits(t), ~CrossRelease
               PROVE  \E w \in Workers :
                        /\ pc[w] # "exited" /\ HomeOf[w] \in stopping /\ ~Waits(w)
                        /\ \/ HomeOf[w] = holds[t]
                           \/ \E v \in WorkersOf(holds[t]) : holds[v] = HomeOf[w]
    BY DEF JoinsEnd
  <2>1. holds[t] \in stopping BY <1>1 DEF Waits, ShutdownAgrees
  <2>2. PICK w \in WorkersOf(holds[t]) : pc[w] # "exited" BY DEF Waits
  <2>3. CASE ~Waits(w) BY <2>1, <2>2, <2>3
  <2>4. CASE Waits(w)
    <3>1. pc[w] = "destroy" /\ w \notin WorkersOf(holds[w])
      BY <1>1, <2>4 DEF Waits, ShutdownAgrees, MayStop, IInv, PlacesAgree
    <3>2. holds[w] \in Runtimes /\ holds[w] \in stopping /\ IsLast(holds[w], w)
      BY <1>1, <3>1 DEF IInv, TypeOK, PlacesAgree, ShutdownAgrees, DestructionIsAlone
    <3>3. PICK v \in WorkersOf(holds[w]) : pc[v] # "exited" BY <2>4 DEF Waits
    <3>4. pc[v] \in Idle BY <3>2, <3>3 DEF IsLast
    <3>5. ~Waits(v) BY <3>4 DEF Waits
    <3> QED BY <2>2, <3>2, <3>3, <3>5
  <2> QED BY <2>3, <2>4
<1>2. IInv /\ ShutdownAgrees => JoinsEnd BY <1>1
<1> QED BY <1>2, WaitingInvariance, PTL
================================================================================
