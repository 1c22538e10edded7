------------------------- MODULE NativeRuntimeProofs -------------------------
(***************************************************************************)
(* Theorems about NativeRuntime for every number of callers, workers and   *)
(* operations and every width of the counters.  IInv is inductive: one     *)
(* lemma per action, one step per conjunct.  The safety properties and the *)
(* refinement of AsyncOperation follow from it.                            *)
(***************************************************************************)
EXTENDS NativeRuntime, TLAPS

USE ThreadsDisjoint, WorkersExist, DetachedAreOperations, NoOperationIsNone, OperationIdsPositive,
    MaximumHandlePositive, ForeignIsBoolean
USE DEF Home, Goto, Threads, Completing, Tables, StartPoints, CallerPoints, WorkerPoints,
        HoldsNothing, Undecided, Reporting, Starting, Accepted, Cancelling,
        MayReserve, MayCancel, Erased, Outstanding, WorkersEnded, WaitsForPool,
        Exhausted, Issued, Incremented, Stored, GotResult,
        vars, recordVars, handleVars, poolVars, contextVars

\* A runtime that was just created satisfies the invariant.
LEMMA InitEstablishes == Init => IInv
<1> SUFFICES ASSUME Init PROVE IInv OBVIOUS
<1> USE DEF Init
<1>1. TypeOK
  <2>1. /\ nextOperation \in 0..(OperationIds - 1) /\ operationId \in [Operations -> 0..(OperationIds - 1)]
        /\ nextHandle \in [Tables -> 1..MaximumHandle] /\ handleOf \in [Operations -> 0..(MaximumHandle - 1)]
    OBVIOUS
  <2>2. /\ pc \in [Threads -> CallerPoints \cup WorkerPoints]
        /\ \A c \in Callers : pc[c] \in CallerPoints
        /\ \A w \in Workers : pc[w] \in WorkerPoints
    OBVIOUS
  <2> QED BY <2>1, <2>2 DEF TypeOK
<1>2. OneOwner BY DEF OneOwner
<1>3. ProgressByPlace BY DEF ProgressByPlace
<1>4. NoneLost BY DEF NoneLost
<1>5. HandleAgrees BY DEF HandleAgrees
<1>6. RecordsAgree BY DEF RecordsAgree
<1>7. ShutdownProgress BY DEF ShutdownProgress
<1>8. NumbersAgree BY DEF NumbersAgree, IdentifiersAreUnique, ReportedResultResolves
<1> QED BY <1>1, <1>2, <1>3, <1>4, <1>5, <1>6, <1>7, <1>8 DEF IInv

----------------------------------------------------------------------------
(* One lemma per action.                                                   *)

\* A start takes a new operation to one thread.
LEMMA StartKeeps ==
  ASSUME IInv, NEW th \in Threads, NEW o \in Operations, Start(th, o)
  PROVE  IInv'
<1> USE DEF IInv, TypeOK, Start
<1>1. TypeOK' OBVIOUS
<1>2. OneOwner' BY DEF OneOwner
<1>3. ProgressByPlace' BY DEF ProgressByPlace
<1>4. NoneLost' BY DEF NoneLost
<1>5. HandleAgrees' BY DEF HandleAgrees
<1>6. RecordsAgree' BY DEF RecordsAgree
<1>7. ShutdownProgress' BY DEF ShutdownProgress
<1>8. NumbersAgree' BY DEF NumbersAgree, IdentifiersAreUnique, ReportedResultResolves
<1> QED BY <1>1, <1>2, <1>3, <1>4, <1>5, <1>6, <1>7, <1>8

\* cancelOperation() moves a listed handle out of Active and records that it won.
LEMMA CancelOperationKeeps ==
  ASSUME IInv, NEW th \in Threads, NEW o \in Operations, CancelOperation(th, o)
  PROVE  IInv'
<1> USE DEF IInv, TypeOK, CancelOperation
<1>1. TypeOK' OBVIOUS
<1>2. OneOwner' BY DEF OneOwner
<1>3. ProgressByPlace' BY DEF ProgressByPlace
<1>4. NoneLost' BY DEF NoneLost
<1>5. HandleAgrees' BY DEF HandleAgrees
<1>6. RecordsAgree' BY DEF RecordsAgree
<1>7. ShutdownProgress' BY DEF ShutdownProgress
<1>8. NumbersAgree' BY DEF NumbersAgree, IdentifiersAreUnique, ReportedResultResolves
<1> QED BY <1>1, <1>2, <1>3, <1>4, <1>5, <1>6, <1>7, <1>8

\* A released record leaves the operation where it is.
LEMMA ReleaseOperationKeeps ==
  ASSUME IInv, NEW th \in Threads, NEW o \in Operations, ReleaseOperation(th, o)
  PROVE  IInv'
<1> USE DEF IInv, TypeOK, ReleaseOperation
<1>1. TypeOK' OBVIOUS
<1>2. OneOwner' BY DEF OneOwner
<1>3. ProgressByPlace' BY DEF ProgressByPlace
<1>4. NoneLost' BY DEF NoneLost
<1>5. HandleAgrees' BY DEF HandleAgrees
<1>6. RecordsAgree' BY DEF RecordsAgree
<1>7. ShutdownProgress' BY DEF ShutdownProgress
<1>8. NumbersAgree' BY DEF NumbersAgree, IdentifiersAreUnique, ReportedResultResolves
<1> QED BY <1>1, <1>2, <1>3, <1>4, <1>5, <1>6, <1>7, <1>8

\* A result or an error is given back only after its operation reported.
LEMMA ReleaseHandleKeeps ==
  ASSUME IInv, NEW th \in Threads, NEW o \in Operations, ReleaseHandle(th, o)
  PROVE  IInv'
<1> USE DEF IInv, TypeOK, ReleaseHandle
<1>1. TypeOK' OBVIOUS
<1>2. OneOwner' BY DEF OneOwner
<1>3. ProgressByPlace' BY DEF ProgressByPlace
<1>4. NoneLost' BY DEF NoneLost
<1>5. HandleAgrees' BY DEF HandleAgrees
<1>6. RecordsAgree' BY DEF RecordsAgree
<1>7. ShutdownProgress' BY DEF ShutdownProgress
<1>8. NumbersAgree' BY DEF NumbersAgree, IdentifiersAreUnique, ReportedResultResolves, OneOwner, ProgressByPlace
<1> QED BY <1>1, <1>2, <1>3, <1>4, <1>5, <1>6, <1>7, <1>8

\* The first shutdown cancels every listed handle under the mutex that Reserve takes.
LEMMA ShutdownKeeps ==
  ASSUME IInv, NEW th \in Threads, Shutdown(th)
  PROVE  IInv'
<1> USE DEF IInv, TypeOK, Shutdown
<1>1. TypeOK' OBVIOUS
<1>2. OneOwner' BY DEF OneOwner
<1>3. ProgressByPlace' BY DEF ProgressByPlace
<1>4. NoneLost' BY DEF NoneLost
<1>5. HandleAgrees' BY DEF HandleAgrees, RecordsAgree, ProgressByPlace
<1>6. RecordsAgree' BY DEF RecordsAgree
<1>7. ShutdownProgress' BY DEF ShutdownProgress
<1>8. NumbersAgree' BY DEF NumbersAgree, IdentifiersAreUnique, ReportedResultResolves
<1> QED BY <1>1, <1>2, <1>3, <1>4, <1>5, <1>6, <1>7, <1>8

\* A repeated shutdown changes nothing on its way to the pool.
LEMMA ShutdownAgainKeeps ==
  ASSUME IInv, NEW th \in Threads, ShutdownAgain(th)
  PROVE  IInv'
<1> USE DEF IInv, TypeOK, ShutdownAgain
<1>1. TypeOK' OBVIOUS
<1>2. OneOwner' BY DEF OneOwner
<1>3. ProgressByPlace' BY DEF ProgressByPlace
<1>4. NoneLost' BY DEF NoneLost
<1>5. HandleAgrees' BY DEF HandleAgrees
<1>6. RecordsAgree' BY DEF RecordsAgree
<1>7. ShutdownProgress' BY DEF ShutdownProgress
<1>8. NumbersAgree' BY DEF NumbersAgree, IdentifiersAreUnique, ReportedResultResolves
<1> QED BY <1>1, <1>2, <1>3, <1>4, <1>5, <1>6, <1>7, <1>8

\* A reservation is made only while the runtime is Running, with a fresh identifier.
LEMMA ReserveKeeps ==
  ASSUME IInv, NEW th \in Threads, Reserve(th)
  PROVE  IInv'
<1> USE DEF IInv, TypeOK, Reserve
<1>1. TypeOK' BY DEF OneOwner
<1>2. OneOwner' BY DEF OneOwner
<1>3. ProgressByPlace' BY DEF ProgressByPlace
<1>4. NoneLost' BY DEF NoneLost, OneOwner
<1>5. HandleAgrees' BY DEF HandleAgrees
<1>6. RecordsAgree' BY DEF RecordsAgree, OneOwner, ProgressByPlace
<1>7. ShutdownProgress' BY DEF ShutdownProgress
<1>8. NumbersAgree' BY DEF NumbersAgree, IdentifiersAreUnique, ReportedResultResolves
<1> QED BY <1>1, <1>2, <1>3, <1>4, <1>5, <1>6, <1>7, <1>8

\* A start that gets no record is refused.
LEMMA ReserveThrowsKeeps ==
  ASSUME IInv, NEW th \in Threads, ReserveThrows(th)
  PROVE  IInv'
<1> USE DEF IInv, TypeOK, ReserveThrows
<1>1. TypeOK' BY ZenonT(60)
<1>2. OneOwner' BY DEF OneOwner
<1>3. ProgressByPlace' BY DEF ProgressByPlace, OneOwner
<1>4. NoneLost' BY DEF NoneLost
<1>5. HandleAgrees' BY DEF HandleAgrees
<1>6. RecordsAgree' BY DEF RecordsAgree
<1>7. ShutdownProgress' BY DEF ShutdownProgress
<1>8. NumbersAgree' BY DEF NumbersAgree, IdentifiersAreUnique, ReportedResultResolves
<1> QED BY <1>1, <1>2, <1>3, <1>4, <1>5, <1>6, <1>7, <1>8

\* A checked operation is still with its thread.
LEMMA SubmitKeeps ==
  ASSUME IInv, NEW th \in Threads, Submit(th)
  PROVE  IInv'
<1> USE DEF IInv, TypeOK, Submit
<1>1. TypeOK' OBVIOUS
<1>2. OneOwner' BY DEF OneOwner
<1>3. ProgressByPlace' BY DEF ProgressByPlace
<1>4. NoneLost' BY DEF NoneLost
<1>5. HandleAgrees' BY DEF HandleAgrees
<1>6. RecordsAgree' BY DEF RecordsAgree
<1>7. ShutdownProgress' BY DEF ShutdownProgress
<1>8. NumbersAgree' BY DEF NumbersAgree, IdentifiersAreUnique, ReportedResultResolves
<1> QED BY <1>1, <1>2, <1>3, <1>4, <1>5, <1>6, <1>7, <1>8

\* An exception on the way to the queue leaves the operation with its thread.
LEMMA SubmitThrowsKeeps ==
  ASSUME IInv, NEW th \in Threads, SubmitThrows(th)
  PROVE  IInv'
<1> USE DEF IInv, TypeOK, SubmitThrows
<1>1. TypeOK' OBVIOUS
<1>2. OneOwner' BY DEF OneOwner
<1>3. ProgressByPlace' BY DEF ProgressByPlace
<1>4. NoneLost' BY DEF NoneLost
<1>5. HandleAgrees' BY DEF HandleAgrees
<1>6. RecordsAgree' BY DEF RecordsAgree
<1>7. ShutdownProgress' BY DEF ShutdownProgress
<1>8. NumbersAgree' BY DEF NumbersAgree, IdentifiersAreUnique, ReportedResultResolves
<1> QED BY <1>1, <1>2, <1>3, <1>4, <1>5, <1>6, <1>7, <1>8

\* The operation passes from its starting thread to the queue, before the pool stops.
LEMMA EnqueueKeeps ==
  ASSUME IInv, NEW th \in Threads, Enqueue(th)
  PROVE  IInv'
<1> USE DEF IInv, TypeOK, Enqueue
<1>1. TypeOK' BY DEF OneOwner
<1>2. OneOwner' BY DEF OneOwner
<1>3. ProgressByPlace' BY DEF ProgressByPlace, OneOwner
<1>4. NoneLost' BY DEF NoneLost
<1>5. HandleAgrees' BY DEF HandleAgrees
<1>6. RecordsAgree' BY DEF RecordsAgree
<1>7. ShutdownProgress' BY DEF ShutdownProgress
<1>8. NumbersAgree' BY DEF NumbersAgree, IdentifiersAreUnique, ReportedResultResolves
<1> QED BY <1>1, <1>2, <1>3, <1>4, <1>5, <1>6, <1>7, <1>8

\* A pool that stops refuses the operation its thread still has.
LEMMA EnqueueThrowsKeeps ==
  ASSUME IInv, NEW th \in Threads, EnqueueThrows(th)
  PROVE  IInv'
<1> USE DEF IInv, TypeOK, EnqueueThrows
<1>1. TypeOK' OBVIOUS
<1>2. OneOwner' BY DEF OneOwner
<1>3. ProgressByPlace' BY DEF ProgressByPlace
<1>4. NoneLost' BY DEF NoneLost
<1>5. HandleAgrees' BY DEF HandleAgrees
<1>6. RecordsAgree' BY DEF RecordsAgree
<1>7. ShutdownProgress' BY DEF ShutdownProgress
<1>8. NumbersAgree' BY DEF NumbersAgree, IdentifiersAreUnique, ReportedResultResolves
<1> QED BY <1>1, <1>2, <1>3, <1>4, <1>5, <1>6, <1>7, <1>8

\* The catch block erases the record of an operation that was never queued.
LEMMA AbandonKeeps ==
  ASSUME IInv, NEW th \in Threads, Abandon(th)
  PROVE  IInv'
<1> USE DEF IInv, TypeOK, Abandon
<1>1. TypeOK' BY ZenonT(60)
<1>2. OneOwner' BY DEF OneOwner
<1>3. ProgressByPlace' BY DEF ProgressByPlace, OneOwner
<1>4. NoneLost' BY DEF NoneLost
<1>5. HandleAgrees' BY DEF HandleAgrees
<1>6. RecordsAgree' BY DEF RecordsAgree
<1>7. ShutdownProgress' BY DEF ShutdownProgress
<1>8. NumbersAgree' BY DEF NumbersAgree, IdentifiersAreUnique, ReportedResultResolves
<1> QED BY <1>1, <1>2, <1>3, <1>4, <1>5, <1>6, <1>7, <1>8

\* The identifier is returned, whatever became of the operation meanwhile.
LEMMA StartReturnsKeeps ==
  ASSUME IInv, NEW th \in Threads, StartReturns(th)
  PROVE  IInv'
<1> USE DEF IInv, TypeOK, StartReturns
<1>1. TypeOK' BY ZenonT(60)
<1>2. OneOwner' BY DEF OneOwner
<1>3. ProgressByPlace' BY DEF ProgressByPlace
<1>4. NoneLost' BY DEF NoneLost, OneOwner
<1>5. HandleAgrees' BY DEF HandleAgrees
<1>6. RecordsAgree' BY DEF RecordsAgree
<1>7. ShutdownProgress' BY DEF ShutdownProgress
<1>8. NumbersAgree' BY DEF NumbersAgree, IdentifiersAreUnique, ReportedResultResolves
<1> QED BY <1>1, <1>2, <1>3, <1>4, <1>5, <1>6, <1>7, <1>8

\* The pool cancels what is queued and what is running in one critical section.
LEMMA RequestShutdownKeeps ==
  ASSUME IInv, NEW th \in Threads, RequestShutdown(th)
  PROVE  IInv'
<1> USE DEF IInv, TypeOK, RequestShutdown
<1>1. TypeOK' OBVIOUS
<1>2. OneOwner' BY DEF OneOwner
<1>3. ProgressByPlace' BY DEF ProgressByPlace
<1>4. NoneLost' BY DEF NoneLost
<1>5. HandleAgrees' BY DEF HandleAgrees, OneOwner, ProgressByPlace
<1>6. RecordsAgree' BY DEF RecordsAgree
<1>7. ShutdownProgress' BY DEF ShutdownProgress
<1>8. NumbersAgree' BY DEF NumbersAgree, IdentifiersAreUnique, ReportedResultResolves
<1> QED BY <1>1, <1>2, <1>3, <1>4, <1>5, <1>6, <1>7, <1>8

\* A joining caller goes on when every worker has ended, so the pool is stopping.
LEMMA AwaitTerminationKeeps ==
  ASSUME IInv, NEW c \in Callers, AwaitTermination(c)
  PROVE  IInv'
<1> USE DEF IInv, TypeOK, AwaitTermination
<1>1. TypeOK' OBVIOUS
<1>2. OneOwner' BY DEF OneOwner
<1>3. ProgressByPlace' BY DEF ProgressByPlace
<1>4. NoneLost' BY DEF NoneLost
<1>5. HandleAgrees' BY DEF HandleAgrees
<1>6. RecordsAgree' BY DEF RecordsAgree
<1>7. ShutdownProgress' BY DEF ShutdownProgress
<1>8. NumbersAgree' BY DEF NumbersAgree, IdentifiersAreUnique, ReportedResultResolves
<1> QED BY <1>1, <1>2, <1>3, <1>4, <1>5, <1>6, <1>7, <1>8

\* Stopped is published by a caller that has joined the workers.
LEMMA PublishStoppedKeeps ==
  ASSUME IInv, NEW c \in Callers, PublishStopped(c)
  PROVE  IInv'
<1> USE DEF IInv, TypeOK, PublishStopped
<1>1. TypeOK' OBVIOUS
<1>2. OneOwner' BY DEF OneOwner
<1>3. ProgressByPlace' BY DEF ProgressByPlace
<1>4. NoneLost' BY DEF NoneLost
<1>5. HandleAgrees' BY DEF HandleAgrees
<1>6. RecordsAgree' BY DEF RecordsAgree
<1>7. ShutdownProgress' BY DEF ShutdownProgress
<1>8. NumbersAgree' BY DEF NumbersAgree, IdentifiersAreUnique, ReportedResultResolves
<1> QED BY <1>1, <1>2, <1>3, <1>4, <1>5, <1>6, <1>7, <1>8

\* The operation moves from the queue to one worker.
LEMMA TakeKeeps ==
  ASSUME IInv, NEW w \in Workers, Take(w)
  PROVE  IInv'
<1> USE DEF IInv, TypeOK, Take
<1>1. TypeOK' OBVIOUS
<1>2. OneOwner' BY DEF OneOwner
<1>3. ProgressByPlace' BY DEF ProgressByPlace
<1>4. NoneLost' BY DEF NoneLost, OneOwner
<1>5. HandleAgrees' BY DEF HandleAgrees
<1>6. RecordsAgree' BY DEF RecordsAgree
<1>7. ShutdownProgress' BY DEF ShutdownProgress
<1>8. NumbersAgree' BY DEF NumbersAgree, IdentifiersAreUnique, ReportedResultResolves
<1> QED BY <1>1, <1>2, <1>3, <1>4, <1>5, <1>6, <1>7, <1>8

\* A worker ends only when the pool is stopping and the queue is empty.
LEMMA ExitKeeps ==
  ASSUME IInv, NEW w \in Workers, Exit(w)
  PROVE  IInv'
<1> USE DEF IInv, TypeOK, Exit
<1>1. TypeOK' OBVIOUS
<1>2. OneOwner' BY DEF OneOwner
<1>3. ProgressByPlace' BY DEF ProgressByPlace
<1>4. NoneLost' BY DEF NoneLost
<1>5. HandleAgrees' BY DEF HandleAgrees
<1>6. RecordsAgree' BY DEF RecordsAgree
<1>7. ShutdownProgress' BY DEF ShutdownProgress
<1>8. NumbersAgree' BY DEF NumbersAgree, IdentifiersAreUnique, ReportedResultResolves
<1> QED BY <1>1, <1>2, <1>3, <1>4, <1>5, <1>6, <1>7, <1>8

\* The exchange on the handle decides the terminal state of the worker's operation.
LEMMA DecideKeeps ==
  ASSUME IInv, NEW w \in Workers, Decide(w)
  PROVE  IInv'
<1> USE DEF IInv, TypeOK, Decide
<1>1. TypeOK' BY DEF OneOwner
<1>2. OneOwner' BY DEF OneOwner
<1>3. ProgressByPlace' BY SMTT(30) DEF ProgressByPlace, OneOwner
<1>4. NoneLost' BY DEF NoneLost
<1>5. HandleAgrees' BY SMTT(30) DEF HandleAgrees, OneOwner, ProgressByPlace
<1>6. RecordsAgree' BY DEF RecordsAgree
<1>7. ShutdownProgress' BY DEF ShutdownProgress
<1>8. NumbersAgree' BY DEF NumbersAgree, IdentifiersAreUnique, ReportedResultResolves
<1> QED BY <1>1, <1>2, <1>3, <1>4, <1>5, <1>6, <1>7, <1>8

\* The record is erased before anything is delivered.
LEMMA RemoveActiveKeeps ==
  ASSUME IInv, NEW w \in Workers, RemoveActive(w)
  PROVE  IInv'
<1> USE DEF IInv, TypeOK, RemoveActive
<1>1. TypeOK' OBVIOUS
<1>2. OneOwner' BY DEF OneOwner
<1>3. ProgressByPlace' BY DEF ProgressByPlace
<1>4. NoneLost' BY DEF NoneLost
<1>5. HandleAgrees' BY DEF HandleAgrees
<1>6. RecordsAgree' BY DEF RecordsAgree
<1>7. ShutdownProgress' BY DEF ShutdownProgress
<1>8. NumbersAgree' BY DEF NumbersAgree, IdentifiersAreUnique, ReportedResultResolves
<1> QED BY <1>1, <1>2, <1>3, <1>4, <1>5, <1>6, <1>7, <1>8

\* A result is stored under a number that was never used.
LEMMA RetainResultKeeps ==
  ASSUME IInv, NEW w \in Workers, RetainResult(w)
  PROVE  IInv'
<1> USE DEF IInv, TypeOK, RetainResult
<1>1. TypeOK'
  <2>1. running[w] \in Operations BY DEF OneOwner
  <2>2. nextHandle' \in [Tables -> 1..MaximumHandle] OBVIOUS
  <2>3. Issued("Success") \in 0..(MaximumHandle - 1)
    <3>1. nextHandle["Success"] \in 1..MaximumHandle OBVIOUS
    <3> HIDE DEF IInv, TypeOK, RetainResult
    <3> QED BY <3>1
  <2>4. retained' \subseteq Operations BY <2>1
  <2>5. pc' \in [Threads -> CallerPoints \cup WorkerPoints] OBVIOUS
  <2>6. kind' \in [Operations -> {"None", "Success", "Failed", "Cancelled"}] BY <2>1
  <2>7. handleOf' \in [Operations -> 0..(MaximumHandle - 1)]
    <3> HIDE DEF Issued
    <3> QED BY <2>3
  <2> QED BY <2>2, <2>4, <2>5, <2>6, <2>7
<1>2. OneOwner' BY DEF OneOwner
<1>3. ProgressByPlace' BY SMTT(30) DEF ProgressByPlace, OneOwner
<1>4. NoneLost' BY DEF NoneLost
<1>5. HandleAgrees' BY DEF HandleAgrees
<1>6. RecordsAgree' BY DEF RecordsAgree
<1>7. ShutdownProgress' BY DEF ShutdownProgress
<1>8. NumbersAgree' BY SMTT(30) DEF NumbersAgree, IdentifiersAreUnique, ReportedResultResolves, OneOwner, ProgressByPlace
<1> QED BY <1>1, <1>2, <1>3, <1>4, <1>5, <1>6, <1>7, <1>8

\* Without a result the adapter goes on to the error.
LEMMA NoResultKeeps ==
  ASSUME IInv, NEW w \in Workers, NoResult(w)
  PROVE  IInv'
<1> USE DEF IInv, TypeOK, NoResult
<1>1. TypeOK' OBVIOUS
<1>2. OneOwner' BY DEF OneOwner
<1>3. ProgressByPlace' BY DEF ProgressByPlace
<1>4. NoneLost' BY DEF NoneLost
<1>5. HandleAgrees' BY DEF HandleAgrees
<1>6. RecordsAgree' BY DEF RecordsAgree
<1>7. ShutdownProgress' BY DEF ShutdownProgress
<1>8. NumbersAgree' BY DEF NumbersAgree, IdentifiersAreUnique, ReportedResultResolves
<1> QED BY <1>1, <1>2, <1>3, <1>4, <1>5, <1>6, <1>7, <1>8

\* A cancellation needs neither a result nor an error.
LEMMA PassCancelledKeeps ==
  ASSUME IInv, NEW w \in Workers, PassCancelled(w)
  PROVE  IInv'
<1> USE DEF IInv, TypeOK, PassCancelled
<1>1. TypeOK' OBVIOUS
<1>2. OneOwner' BY DEF OneOwner
<1>3. ProgressByPlace' BY SMTT(30) DEF ProgressByPlace, OneOwner
<1>4. NoneLost' BY DEF NoneLost
<1>5. HandleAgrees' BY DEF HandleAgrees
<1>6. RecordsAgree' BY DEF RecordsAgree
<1>7. ShutdownProgress' BY DEF ShutdownProgress
<1>8. NumbersAgree' BY SMTT(30) DEF NumbersAgree, IdentifiersAreUnique, ReportedResultResolves, OneOwner, ProgressByPlace
<1> QED BY <1>1, <1>2, <1>3, <1>4, <1>5, <1>6, <1>7, <1>8

\* An error is stored under a number that was never used, or reported without one.
LEMMA RetainErrorKeeps ==
  ASSUME IInv, NEW w \in Workers, RetainError(w)
  PROVE  IInv'
<1> USE DEF IInv, TypeOK, RetainError
<1>1. TypeOK' BY DEF OneOwner
<1>2. OneOwner' BY DEF OneOwner
<1>3. ProgressByPlace' BY SMTT(30) DEF ProgressByPlace, OneOwner
<1>4. NoneLost' BY DEF NoneLost
<1>5. HandleAgrees' BY SMTT(30) DEF HandleAgrees, OneOwner, ProgressByPlace
<1>6. RecordsAgree' BY DEF RecordsAgree
<1>7. ShutdownProgress' BY DEF ShutdownProgress
<1>8. NumbersAgree' BY SMTT(30) DEF NumbersAgree, IdentifiersAreUnique, ReportedResultResolves, OneOwner, ProgressByPlace
<1> QED BY <1>1, <1>2, <1>3, <1>4, <1>5, <1>6, <1>7, <1>8

\* The one report of an operation, made by the one worker that has it.
LEMMA ReportKeeps ==
  ASSUME IInv, NEW w \in Workers, Report(w)
  PROVE  IInv'
<1> USE DEF IInv, TypeOK, Report
<1>1. TypeOK' BY DEF OneOwner
<1>2. OneOwner' BY DEF OneOwner
<1>3. ProgressByPlace' BY SMTT(30) DEF ProgressByPlace, OneOwner
<1>4. NoneLost' BY DEF NoneLost
<1>5. HandleAgrees' BY DEF HandleAgrees
<1>6. RecordsAgree' BY DEF RecordsAgree
<1>7. ShutdownProgress' BY DEF ShutdownProgress
<1>8. NumbersAgree' BY DEF NumbersAgree, IdentifiersAreUnique, ReportedResultResolves
<1> QED BY <1>1, <1>2, <1>3, <1>4, <1>5, <1>6, <1>7, <1>8

\* The completion is over.
LEMMA CompletionReturnsKeeps ==
  ASSUME IInv, NEW w \in Workers, CompletionReturns(w)
  PROVE  IInv'
<1> USE DEF IInv, TypeOK, CompletionReturns
<1>1. TypeOK' OBVIOUS
<1>2. OneOwner' BY DEF OneOwner
<1>3. ProgressByPlace' BY DEF ProgressByPlace
<1>4. NoneLost' BY DEF NoneLost
<1>5. HandleAgrees' BY DEF HandleAgrees
<1>6. RecordsAgree' BY DEF RecordsAgree
<1>7. ShutdownProgress' BY DEF ShutdownProgress
<1>8. NumbersAgree' BY DEF NumbersAgree, IdentifiersAreUnique, ReportedResultResolves
<1> QED BY <1>1, <1>2, <1>3, <1>4, <1>5, <1>6, <1>7, <1>8

\* A completion that throws gives its result or error back.
LEMMA CompletionThrowsKeeps ==
  ASSUME IInv, NEW w \in Workers, CompletionThrows(w)
  PROVE  IInv'
<1> USE DEF IInv, TypeOK, CompletionThrows
<1>1. TypeOK' OBVIOUS
<1>2. OneOwner' BY DEF OneOwner
<1>3. ProgressByPlace' BY DEF ProgressByPlace
<1>4. NoneLost' BY DEF NoneLost
<1>5. HandleAgrees' BY DEF HandleAgrees
<1>6. RecordsAgree' BY DEF RecordsAgree
<1>7. ShutdownProgress' BY DEF ShutdownProgress
<1>8. NumbersAgree' BY SMTT(30) DEF NumbersAgree, IdentifiersAreUnique, ReportedResultResolves, OneOwner, ProgressByPlace
<1> QED BY <1>1, <1>2, <1>3, <1>4, <1>5, <1>6, <1>7, <1>8

\* The worker lets go of an operation that is over.
LEMMA FinishKeeps ==
  ASSUME IInv, NEW w \in Workers, Finish(w)
  PROVE  IInv'
<1> USE DEF IInv, TypeOK, Finish
<1>1. TypeOK' OBVIOUS
<1>2. OneOwner' BY DEF OneOwner
<1>3. ProgressByPlace' BY DEF ProgressByPlace
<1>4. NoneLost' BY SMTT(30) DEF NoneLost, OneOwner, RecordsAgree, ProgressByPlace
<1>5. HandleAgrees' BY DEF HandleAgrees
<1>6. RecordsAgree' BY DEF RecordsAgree
<1>7. ShutdownProgress' BY DEF ShutdownProgress
<1>8. NumbersAgree' BY DEF NumbersAgree, IdentifiersAreUnique, ReportedResultResolves
<1> QED BY <1>1, <1>2, <1>3, <1>4, <1>5, <1>6, <1>7, <1>8

----------------------------------------------------------------------------
\* A step that changes nothing preserves the invariant.
LEMMA StutterKeeps == IInv /\ UNCHANGED vars => IInv'
BY DEF IInv, TypeOK, OneOwner, ProgressByPlace, NoneLost, HandleAgrees, RecordsAgree,
       ShutdownProgress, NumbersAgree, IdentifiersAreUnique, ReportedResultResolves

\* Every step preserves the invariant: one lemma above for each action.
LEMMA NextPreserves == IInv /\ [Next]_vars => IInv'
<1> SUFFICES ASSUME IInv, [Next]_vars PROVE IInv' OBVIOUS
<1>1. ASSUME NEW th \in Threads, Call(th) PROVE IInv'
  BY <1>1, StartKeeps, CancelOperationKeeps, ReleaseOperationKeeps, ReleaseHandleKeeps,
     ShutdownKeeps, ShutdownAgainKeeps DEF Call
<1>2. ASSUME NEW th \in Threads, CallStep(th) PROVE IInv'
  BY <1>2, ReserveKeeps, ReserveThrowsKeeps, SubmitKeeps, SubmitThrowsKeeps, EnqueueKeeps,
     EnqueueThrowsKeeps, AbandonKeeps, StartReturnsKeeps, RequestShutdownKeeps DEF CallStep
<1>3. ASSUME NEW c \in Callers, CallerStep(c) PROVE IInv'
  BY <1>2, <1>3, AwaitTerminationKeeps, PublishStoppedKeeps DEF CallerStep
<1>4. ASSUME NEW w \in Workers, WorkerStep(w) PROVE IInv'
  BY <1>2, <1>4, TakeKeeps, ExitKeeps, DecideKeeps, RemoveActiveKeeps, RetainResultKeeps,
     NoResultKeeps, PassCancelledKeeps, RetainErrorKeeps, ReportKeeps, CompletionReturnsKeeps,
     CompletionThrowsKeeps, FinishKeeps DEF WorkerStep
<1> QED BY <1>1, <1>3, <1>4, StutterKeeps DEF Next

\* Every reachable state of every instance satisfies the inductive invariant.
THEOREM Invariance == Spec => []IInv
BY InitEstablishes, NextPreserves, PTL DEF Spec

\* Every variable keeps its range.
THEOREM TypeCorrectness == Spec => []TypeOK
<1>1. IInv => TypeOK BY DEF IInv
<1> QED BY <1>1, Invariance, PTL

\* Neither operationHandles_ nor activeOperations_ keeps an operation that has
\* reported, or whose start was refused.
THEOREM NoRecordOutlivesOperationTheorem == Spec => []NoRecordOutlivesOperation
<1>1. IInv => NoRecordOutlivesOperation
  <2> SUFFICES ASSUME IInv, NEW o \in Operations, reports[o] > 0
               PROVE  o \notin operationHandles \cup activeOperations
    BY DEF IInv, RecordsAgree, NoRecordOutlivesOperation
  <2>1. terminal[o] # "None" /\ Accepted(o) BY DEF IInv, TypeOK, ProgressByPlace
  <2>2. CASE \E w \in Workers : running[w] = o
    BY <2>1, <2>2 DEF IInv, TypeOK, OneOwner, ProgressByPlace, RecordsAgree
  <2>3. CASE o \in queue BY <2>1, <2>3 DEF IInv, ProgressByPlace
  <2> QED BY <2>1, <2>2, <2>3 DEF IInv, NoneLost
<1> QED BY <1>1, Invariance, PTL

\* A cancellation that took effect is what the completion is told, and it is told
\* Cancelled for no other reason but a foreign cancellation.
THEOREM CancelReachesCallerTheorem == Spec => []CancelReachesCaller
<1>1. IInv => CancelReachesCaller BY DEF IInv, TypeOK, HandleAgrees, CancelReachesCaller
<1> QED BY <1>1, Invariance, PTL

\* A shutdown reaches what has a record, and then what is accepted and undecided.
THEOREM ShutdownReachesEverythingTheorem == Spec => []ShutdownReachesEverything
<1>1. IInv => ShutdownReachesEverything
  BY DEF IInv, TypeOK, OneOwner, NoneLost, ShutdownProgress, ShutdownReachesEverything
<1> QED BY <1>1, Invariance, PTL

\* Stopped means that every accepted operation is decided, unlisted and reported.
THEOREM StoppedIsCompleteTheorem == Spec => []StoppedIsComplete
<1>1. IInv => StoppedIsComplete
  BY DEF IInv, TypeOK, OneOwner, NoneLost, ShutdownProgress, StoppedIsComplete
<1> QED BY <1>1, Invariance, PTL

\* No identifier and no handle is given out twice.
THEOREM IdentifiersAreUniqueTheorem == Spec => []IdentifiersAreUnique
<1>1. IInv => IdentifiersAreUnique BY DEF IInv, NumbersAgree
<1> QED BY <1>1, Invariance, PTL

\* A completion that is told Success gets a handle that resolves.
THEOREM ReportedResultResolvesTheorem == Spec => []ReportedResultResolves
<1>1. IInv => ReportedResultResolves BY DEF IInv, NumbersAgree
<1> QED BY <1>1, Invariance, PTL

\* After Stopped no completion is entered and nothing is decided: every worker ended.
THEOREM NothingAfterStoppedTheorem == Spec => NothingAfterStopped
<1>1. IInv /\ [Next]_vars =>
        [runtime = "Stopped" => reports' = reports /\ kind' = kind /\ terminal' = terminal]_vars
  <2> SUFFICES ASSUME IInv, Next, runtime = "Stopped"
               PROVE  reports' = reports /\ kind' = kind /\ terminal' = terminal
    OBVIOUS
  <2>1. \A w \in Workers : pc[w] = "exited" BY DEF IInv, ShutdownProgress
  <2>2. ASSUME NEW th \in Threads, Call(th) \/ CallStep(th)
        PROVE  reports' = reports /\ kind' = kind /\ terminal' = terminal
    BY <2>2 DEF Call, Start, CancelOperation, ReleaseOperation, ReleaseHandle, Shutdown,
                ShutdownAgain, CallStep, Reserve, ReserveThrows, Submit, SubmitThrows, Enqueue,
                EnqueueThrows, Abandon, StartReturns, RequestShutdown
  <2>3. ASSUME NEW c \in Callers, AwaitTermination(c) \/ PublishStopped(c)
        PROVE  reports' = reports /\ kind' = kind /\ terminal' = terminal
    BY <2>3 DEF AwaitTermination, PublishStopped
  <2>4. ASSUME NEW w \in Workers, WorkerStep(w), ~CallStep(w) PROVE FALSE
    BY <2>1, <2>4 DEF WorkerStep, Take, Exit, Decide, RemoveActive, RetainResult, NoResult,
                      PassCancelled, RetainError, Report, CompletionReturns, CompletionThrows,
                      Finish
  <2> QED BY <2>2, <2>3, <2>4 DEF Next, CallerStep
<1> QED BY <1>1, Invariance, PTL DEF Spec, NothingAfterStopped

----------------------------------------------------------------------------
(* The refinement of AsyncOperation.                                       *)
Status == [o \in Completing |-> ObservedStatus(o)]
Reports == [o \in Completing |-> reports[o]]

\* A step that leaves the observed variables alone is a stutter of the contract.
LEMMA InvisibleStep ==
  ASSUME UNCHANGED <<phase, kind, cancelled, reports>>
  PROVE  [Contract!Next]_<<Status, Reports>>
BY DEF Status, Reports, ObservedStatus

\* A refused start maps to the refusal of the abstract operation.
LEMMA RefusedStep ==
  ASSUME IInv, NEW th \in Threads, pc[th] \in {"reserve", "abandon"},
         phase' = [phase EXCEPT ![arg[th]] = "refused"],
         UNCHANGED <<kind, cancelled, reports>>
  PROVE  [Contract!Next]_<<Status, Reports>>
<1> DEFINE o == arg[th]
<1>1. PICK p \in Operations : p = arg[th] BY DEF IInv, OneOwner
<1>2. phase[p] = "starting" BY <1>1 DEF IInv, OneOwner
<1>3. kind[p] = "None" BY <1>2 DEF IInv, ProgressByPlace
<1>4. Reports' = Reports BY DEF Reports
<1>5. \A q \in Completing : q # p => ObservedStatus(q)' = ObservedStatus(q)
  BY <1>1 DEF IInv, TypeOK, ObservedStatus
<1>6. CASE p \notin Completing BY <1>4, <1>5, <1>6 DEF Status
<1>7. CASE p \in Completing
  <2>1. Status[p] \in {"pending", "cancelling"} BY <1>2, <1>3, <1>7 DEF Status, ObservedStatus
  <2>2. ObservedStatus(p)' = "refused" BY <1>1 DEF IInv, TypeOK, ObservedStatus
  <2>3. Status' = [Status EXCEPT ![p] = "refused"] BY <1>5, <1>7, <2>2 DEF Status
  <2>4. Contract!Refuse(p) BY <1>4, <2>1, <2>3 DEF Contract!Refuse, Contract!Undecided, Status, Reports
  <2> QED BY <1>7, <2>4 DEF Contract!Next
<1> QED BY <1>6, <1>7

\* A set of handles that are cancelled maps to cancellations of the abstract operations.
LEMMA CancelStep ==
  ASSUME IInv, NEW S \in SUBSET Operations,
         \A o \in S : handle[o] = "Active" /\ phase[o] \notin {"new", "refused"},
         cancelled' = cancelled \cup S, UNCHANGED <<phase, kind, reports>>
  PROVE  [Contract!Next]_<<Status, Reports>>
<1> DEFINE T == S \cap Completing
<1>1. \A o \in S : terminal[o] = "None" /\ kind[o] = "None" /\ o \notin cancelled
  BY DEF IInv, TypeOK, HandleAgrees, ProgressByPlace
<1>2. \A o \in T : Status[o] = "pending" BY <1>1 DEF Status, ObservedStatus
<1>3. Status' = [o \in Completing |-> IF o \in T THEN "cancelling" ELSE Status[o]]
  BY <1>1 DEF Status, ObservedStatus
<1>4. Reports' = Reports BY DEF Reports
<1>5. Contract!Cancel(T) BY <1>2, <1>3, <1>4 DEF Contract!Cancel, Status, Reports
<1> QED BY <1>5 DEF Contract!Next

\* The kind passed to the adapter maps to the abstract decision.
LEMMA OutcomeStep ==
  ASSUME IInv, NEW w \in Workers, pc[w] \in {"retain", "retainError"},
         NEW outcome \in {"Success", "Failed", "Cancelled"},
         outcome = "Cancelled" <=> terminal[running[w]] = "Cancelled",
         kind' = [kind EXCEPT ![running[w]] = outcome],
         UNCHANGED <<phase, cancelled, reports>>
  PROVE  [Contract!Next]_<<Status, Reports>>
<1>1. running[w] # NoOperation BY DEF IInv, OneOwner
<1>2. PICK p \in Operations : p = running[w] BY <1>1 DEF IInv, TypeOK
<1>3. Accepted(p) /\ kind[p] = "None" /\ terminal[p] # "None"
  BY <1>1, <1>2 DEF IInv, OneOwner, ProgressByPlace
<1>4. Reports' = Reports BY DEF Reports
<1>5. \A q \in Completing : q # p => ObservedStatus(q)' = ObservedStatus(q)
  BY <1>2 DEF IInv, TypeOK, ObservedStatus
<1>6. CASE p \notin Completing BY <1>4, <1>5, <1>6 DEF Status
<1>7. CASE p \in Completing
  <2>1. Status[p] = IF p \in cancelled THEN "cancelling" ELSE "pending"
    BY <1>3, <1>7 DEF Status, ObservedStatus
  <2>2. /\ outcome = "Cancelled" => p \in cancelled \/ ForeignCancellation
        /\ p \in cancelled => outcome = "Cancelled"
    BY <1>2, <1>3 DEF IInv, TypeOK, HandleAgrees
  <2>3. ObservedStatus(p)' = outcome BY <1>2, <1>3 DEF IInv, TypeOK, ObservedStatus
  <2>4. Status' = [Status EXCEPT ![p] = outcome] BY <1>5, <1>7, <2>3 DEF Status
  <2>5. Contract!Decide(p)
    BY ZenonT(60), <1>4, <2>1, <2>2, <2>4
       DEF Contract!Decide, Contract!Undecided, Contract!Outcomes, Status, Reports
  <2> QED BY <1>7, <2>5 DEF Contract!Next
<1> QED BY <1>6, <1>7

\* Every step of the runtime is a step of the contract, or leaves it as it is.
LEMMA RefinementStep == IInv /\ [Next]_vars => [Contract!Next]_<<Status, Reports>>
<1> SUFFICES ASSUME IInv, [Next]_vars PROVE [Contract!Next]_<<Status, Reports>> OBVIOUS
<1>0. ASSUME UNCHANGED <<phase, kind, cancelled, reports>>
      PROVE  [Contract!Next]_<<Status, Reports>>
  BY <1>0, InvisibleStep
<1>1. ASSUME NEW th \in Threads, NEW o \in Operations, Start(th, o)
      PROVE  [Contract!Next]_<<Status, Reports>>
  <2>1. phase[o] = "new" /\ kind[o] = "None" /\ o \notin cancelled
    BY <1>1 DEF Start, IInv, ProgressByPlace, HandleAgrees
  <2>2. \A q \in Completing : q # o => ObservedStatus(q)' = ObservedStatus(q)
    BY <1>1 DEF Start, IInv, TypeOK, ObservedStatus
  <2>3. Reports' = Reports BY <1>1 DEF Start, Reports
  <2>4. ObservedStatus(o) = "new" /\ ObservedStatus(o)' = "pending"
    BY <1>1, <2>1 DEF Start, IInv, TypeOK, ObservedStatus
  <2>5. CASE o \notin Completing BY <2>2, <2>3, <2>5 DEF Status
  <2>6. CASE o \in Completing
    <3>1. Contract!Submit(o) BY <2>2, <2>3, <2>4, <2>6 DEF Contract!Submit, Status, Reports
    <3> QED BY <2>6, <3>1 DEF Contract!Next
  <2> QED BY <2>5, <2>6
<1>2. ASSUME NEW th \in Threads, NEW o \in Operations, CancelOperation(th, o)
      PROVE  [Contract!Next]_<<Status, Reports>>
  <2>1. {o} \in SUBSET Operations /\ \A p \in {o} : handle[p] = "Active" /\ phase[p] \notin {"new", "refused"}
    BY <1>2 DEF CancelOperation
  <2>2. cancelled' = cancelled \cup {o} /\ UNCHANGED <<phase, kind, reports>>
    BY <1>2 DEF CancelOperation
  <2> QED BY <2>1, <2>2, CancelStep
<1>3. ASSUME NEW th \in Threads, Shutdown(th) PROVE [Contract!Next]_<<Status, Reports>>
  <2> DEFINE S == {o \in operationHandles : handle[o] = "Active"}
  <2>1. S \in SUBSET Operations /\ \A o \in S : handle[o] = "Active" /\ phase[o] \notin {"new", "refused"}
    BY DEF IInv, TypeOK, RecordsAgree
  <2>2. cancelled' = cancelled \cup S /\ UNCHANGED <<phase, kind, reports>> BY <1>3 DEF Shutdown
  <2> QED BY <2>1, <2>2, CancelStep
<1>4. ASSUME NEW th \in Threads, RequestShutdown(th) PROVE [Contract!Next]_<<Status, Reports>>
  <2> DEFINE S == IF stopping THEN {} ELSE Outstanding
  <2>1. S \in SUBSET Operations /\ \A o \in S : handle[o] = "Active" /\ phase[o] \notin {"new", "refused"}
    BY DEF IInv, TypeOK, OneOwner
  <2>2. cancelled' = cancelled \cup S /\ UNCHANGED <<phase, kind, reports>>
    BY <1>4 DEF RequestShutdown
  <2> HIDE DEF S
  <2> QED BY <2>1, <2>2, CancelStep
<1>5. ASSUME NEW th \in Threads, Enqueue(th) \/ StartReturns(th)
      PROVE  [Contract!Next]_<<Status, Reports>>
  <2>1. arg[th] \in Operations /\ phase[arg[th]] \in {"starting", "accepted"}
    BY <1>5 DEF Enqueue, StartReturns, IInv, OneOwner
  <2>2. \A q \in Completing : ObservedStatus(q)' = ObservedStatus(q)
    BY <1>5, <2>1 DEF Enqueue, StartReturns, IInv, TypeOK, ObservedStatus
  <2> QED BY <1>5, <2>2 DEF Enqueue, StartReturns, Status, Reports
<1>6. ASSUME NEW th \in Threads, CallStep(th) PROVE [Contract!Next]_<<Status, Reports>>
  BY <1>0, <1>4, <1>5, <1>6, RefusedStep
     DEF CallStep, Reserve, ReserveThrows, Submit, SubmitThrows, EnqueueThrows, Abandon
<1>7. ASSUME NEW th \in Threads, Call(th) PROVE [Contract!Next]_<<Status, Reports>>
  BY <1>0, <1>1, <1>2, <1>3, <1>7 DEF Call, ReleaseOperation, ReleaseHandle, ShutdownAgain
<1>8. ASSUME NEW w \in Workers, RetainResult(w) \/ PassCancelled(w) \/ RetainError(w)
      PROVE  [Contract!Next]_<<Status, Reports>>
  BY <1>8, OutcomeStep DEF RetainResult, PassCancelled, RetainError, IInv, ProgressByPlace
<1>9. ASSUME NEW w \in Workers, Report(w) PROVE [Contract!Next]_<<Status, Reports>>
  <2>1. running[w] # NoOperation BY <1>9 DEF Report, IInv, OneOwner
  <2>2. PICK p \in Operations : p = running[w] BY <2>1 DEF IInv, TypeOK
  <2>3. Accepted(p) /\ kind[p] # "None" /\ reports[p] = 0
    BY <1>9, <2>1, <2>2 DEF Report, IInv, OneOwner, ProgressByPlace
  <2>4. reports' = [reports EXCEPT ![p] = 1] BY <1>9, <2>2, <2>3 DEF Report, IInv, TypeOK
  <2>5. Status' = Status BY <1>9 DEF Report, Status, ObservedStatus
  <2>6. CASE p \notin Completing BY <2>4, <2>5, <2>6 DEF IInv, TypeOK, Reports
  <2>7. CASE p \in Completing
    <3>1. Status[p] \in Contract!Outcomes
      BY <2>3, <2>7 DEF IInv, TypeOK, Status, ObservedStatus, Contract!Outcomes
    <3>2. Reports[p] = 0 /\ Reports' = [Reports EXCEPT ![p] = 1]
      BY <2>3, <2>4, <2>7 DEF IInv, TypeOK, Reports
    <3>3. Contract!Report(p) BY <2>5, <3>1, <3>2 DEF Contract!Report, Status, Reports
    <3> QED BY <2>7, <3>3 DEF Contract!Next
  <2> QED BY <2>6, <2>7
<1>10. ASSUME NEW w \in Workers, WorkerStep(w) PROVE [Contract!Next]_<<Status, Reports>>
  BY <1>0, <1>6, <1>8, <1>9, <1>10
     DEF WorkerStep, Take, Exit, Decide, RemoveActive, NoResult, CompletionReturns,
         CompletionThrows, Finish
<1>11. ASSUME NEW c \in Callers, CallerStep(c) PROVE [Contract!Next]_<<Status, Reports>>
  BY <1>0, <1>6, <1>11 DEF CallerStep, AwaitTermination, PublishStopped
<1> QED BY <1>0, <1>7, <1>10, <1>11 DEF Next

\* Through the ABI an operation with a completion keeps the contract of a pool task.
THEOREM ContractTheorem == Spec => ImplementsContract
<1>1. Init => Contract!Init BY DEF Init, Contract!Init, ObservedStatus
<1>2. IInv /\ [Next]_vars =>
        [Contract!Next]_<<[o \in Completing |-> ObservedStatus(o)], [o \in Completing |-> reports[o]]>>
  BY RefinementStep DEF Status, Reports
<1> QED BY <1>1, <1>2, Invariance, PTL DEF Spec, ImplementsContract, Contract!Spec

----------------------------------------------------------------------------
(* What the runtime asks of its pool.                                      *)

Gone == {w \in Workers : pc[w] = "exited"}
PoolView == <<queue, running, stopping, Gone>>

\* A step that leaves the pool alone and ends no worker.
LEMMA OutOfView ==
  ASSUME IInv, NEW th \in Threads, NEW point, point # "exited", pc[th] # "exited",
         pc' = [pc EXCEPT ![th] = point], UNCHANGED poolVars
  PROVE  UNCHANGED PoolView
BY DEF PoolView, Gone, poolVars, IInv, TypeOK

\* The steps of a thread outside the pool's own code: only Enqueue and RequestShutdown
\* reach the pool.
LEMMA CallUsesPool ==
  ASSUME IInv, NEW th \in Threads, Call(th) \/ CallStep(th)
  PROVE  [Pool!Next]_PoolView
<1>t. /\ pc \in [Threads -> CallerPoints \cup WorkerPoints] /\ queue \subseteq Operations
      /\ running \in [Workers -> Operations \cup {NoOperation}]
  BY DEF IInv, TypeOK
<1>1. CASE Enqueue(th)
  <2>1. arg[th] \in Operations /\ ~Accepted(arg[th])
    BY <1>1 DEF Enqueue, IInv, OneOwner, Starting, StartPoints, Accepted
  <2>2. arg[th] \notin queue /\ \A w \in Workers : running[w] # arg[th]
    BY <2>1, NoOperationIsNone DEF IInv, OneOwner
  <2>3. Gone' = Gone BY <1>t, <1>1 DEF Enqueue, Goto, Gone
  <2>4. Pool!Accept(arg[th])
    BY <1>1, <2>2, <2>3 DEF Enqueue, Pool!Accept, Gone
  <2> QED BY <2>1, <2>4 DEF Pool!Next
<1>2. CASE RequestShutdown(th)
  <2>1. Gone' = Gone BY <1>t, <1>2 DEF RequestShutdown, Goto, Gone
  <2>2. Pool!Stop BY <1>2, <2>1 DEF RequestShutdown, Pool!Stop, Gone
  <2> QED BY <2>2 DEF Pool!Next
<1>3. CASE \E o \in Operations :
             CancelOperation(th, o) \/ ReleaseOperation(th, o) \/ ReleaseHandle(th, o)
  BY <1>3 DEF CancelOperation, ReleaseOperation, ReleaseHandle, PoolView, Gone, poolVars
<1>4. Home(th) # "exited" BY DEF Home
<1>5. CASE \/ \E o \in Operations : Start(th, o)
           \/ Shutdown(th) \/ ShutdownAgain(th) \/ Reserve(th) \/ ReserveThrows(th)
           \/ Submit(th) \/ SubmitThrows(th) \/ EnqueueThrows(th)
           \/ Abandon(th) \/ StartReturns(th)
  BY <1>4, <1>5, OutOfView
     DEF Start, Shutdown, ShutdownAgain, Reserve, ReserveThrows, Submit, SubmitThrows,
         EnqueueThrows, Abandon, StartReturns, Goto
<1> QED BY <1>1, <1>2, <1>3, <1>5 DEF Call, CallStep

\* Every step of the runtime is a step of that pool, or leaves it as it is.
LEMMA PoolStep == IInv /\ [Next]_vars => [Pool!Next]_PoolView
<1> SUFFICES ASSUME IInv, [Next]_vars PROVE [Pool!Next]_PoolView OBVIOUS
<1>t. /\ pc \in [Threads -> CallerPoints \cup WorkerPoints] /\ queue \subseteq Operations
      /\ running \in [Workers -> Operations \cup {NoOperation}]
  BY DEF IInv, TypeOK
<1>1. ASSUME NEW c \in Callers, CallerStep(c) PROVE [Pool!Next]_PoolView
  <2>1. CASE AwaitTermination(c) \/ PublishStopped(c)
    BY <2>1, OutOfView DEF AwaitTermination, PublishStopped, Goto, Threads
  <2> QED BY <1>1, <2>1, CallUsesPool DEF CallerStep, Threads
<1>2. ASSUME NEW w \in Workers, Take(w) PROVE Pool!Next
  <2>1. PICK o \in queue : queue' = queue \ {o} /\ running' = [running EXCEPT ![w] = o]
    BY <1>2 DEF Take
  <2>2. running[w] = NoOperation /\ w \notin Gone
    BY <1>2 DEF Take, IInv, OneOwner, HoldsNothing, Gone
  <2>3. Gone' = Gone BY <1>t, <1>2 DEF Take, Goto, Gone
  <2>4. Pool!Take(w, o) BY <1>2, <2>1, <2>2, <2>3 DEF Take, Pool!Take, Gone
  <2> QED BY <1>t, <2>1, <2>4 DEF Pool!Next
<1>3. ASSUME NEW w \in Workers, Finish(w) PROVE Pool!Next
  <2>1. running[w] # NoOperation BY <1>3 DEF Finish, IInv, OneOwner, HoldsNothing
  <2>2. Gone' = Gone BY <1>t, <1>3 DEF Finish, Goto, Gone
  <2>3. Pool!Finish(w) BY <1>3, <2>1, <2>2 DEF Finish, Pool!Finish, Gone
  <2> QED BY <2>3 DEF Pool!Next
<1>4. ASSUME NEW w \in Workers, Exit(w) PROVE Pool!Next
  <2>1. running[w] = NoOperation BY <1>4 DEF Exit, IInv, OneOwner, HoldsNothing
  <2>2. Gone' = Gone \cup {w} BY <1>t, <1>4 DEF Exit, Goto, Gone, Threads
  <2>3. Pool!Leave(w) BY <1>4, <2>1, <2>2 DEF Exit, Pool!Leave, Gone, poolVars
  <2> QED BY <2>3 DEF Pool!Next
<1>5. ASSUME NEW w \in Workers,
             \/ Decide(w) \/ RemoveActive(w) \/ RetainResult(w) \/ NoResult(w) \/ PassCancelled(w)
             \/ RetainError(w) \/ Report(w) \/ CompletionReturns(w) \/ CompletionThrows(w)
      PROVE  [Pool!Next]_PoolView
  BY <1>5, OutOfView
     DEF Decide, RemoveActive, RetainResult, NoResult, PassCancelled, RetainError, Report,
         CompletionReturns, CompletionThrows, Goto, Threads
<1>6. ASSUME NEW w \in Workers, WorkerStep(w) PROVE [Pool!Next]_PoolView
  BY <1>2, <1>3, <1>4, <1>5, <1>6, CallUsesPool DEF WorkerStep, Threads
<1>7. CASE UNCHANGED vars BY <1>7 DEF vars, poolVars, PoolView, Gone
<1> QED BY <1>1, <1>6, <1>7, CallUsesPool DEF Next

\* For every number of threads and operations the runtime uses its pool as TaskScheduler
\* allows it, and asks no more of it than UnorderedPool says.
THEOREM UsesPoolTheorem == Spec => UsesPool
<1>1. Init => Pool!Init BY DEF Init, Pool!Init, Threads
<1>2. IInv /\ [Next]_vars => [Pool!Next]_<<queue, running, stopping, {w \in Workers : pc[w] = "exited"}>>
  BY PoolStep DEF PoolView, Gone
<1> QED BY <1>1, <1>2, Invariance, PTL DEF Spec, UsesPool, Pool!Spec, Pool!poolVars
=============================================================================
