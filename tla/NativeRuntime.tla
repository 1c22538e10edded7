---------------------------- MODULE NativeRuntime ----------------------------
(***************************************************************************)
(* One native runtime behind the C ABI: the operation records, lifecycle   *)
(* and shutdown of src/runtime/NativeRuntime.cpp, the completion adapter   *)
(* of crossaInvokeAsyncAfter (CrossaAbi.cpp) and the handle tables of      *)
(* CrossaRuntimeContext.cpp, over a pool that keeps the contract           *)
(* TaskScheduler is checked against: a start waits for a place in the      *)
(* queue, queued work is taken by some worker, a decision is made once on  *)
(* the handle, a shutdown cancels what is queued or running, wakes whoever *)
(* waits for a place and ends the workers when the queue is empty.         *)
(*                                                                         *)
(* One action is one critical section of operationMutex_, of the context's *)
(* mutex_ or of the pool, or one stretch of foreign code.                  *)
(***************************************************************************)
EXTENDS Naturals, FiniteSets

CONSTANTS
  Callers,              \* platform threads that call the C ABI
  Workers,              \* the threads of scheduler_
  Operations,           \* the invocations of a behaviour
  Detached,             \* those made by crossaInvokeAsync: no completion
  OperationIds,         \* values of the type of nextOperation_ (2^64)
  MaximumHandle,        \* numeric_limits<CrossaResultHandle>::max()
  MaximumQueuedTasks,   \* the pool's maximumQueuedTasks_
  ForeignCancellation,  \* may a body raise a cancellation that is not its handle's?
  NoOperation

ASSUME ThreadsDisjoint == Callers \cap Workers = {}
ASSUME WorkersExist == Workers # {}
ASSUME DetachedAreOperations == Detached \subseteq Operations
ASSUME NoOperationIsNone == NoOperation \notin Operations
ASSUME OperationIdsPositive == OperationIds \in Nat \ {0, 1}
ASSUME MaximumHandlePositive == MaximumHandle \in Nat \ {0}
ASSUME QueueBoundPositive == MaximumQueuedTasks \in Nat \ {0}
ASSUME ForeignIsBoolean == ForeignCancellation \in BOOLEAN

Threads == Callers \cup Workers
Completing == Operations \ Detached   \* those made by crossaInvokeAsyncAfter
Tables == {"Success", "Failed"}       \* results_ and errors_

VARIABLES
  \* NativeRuntime, guarded by operationMutex_
  runtime,           \* lifecycle_
  nextOperation,     \* nextOperation_
  operationHandles,  \* the operations with an entry in operationHandles_
  activeOperations,  \* activeOperations_
  \* the RequestHandle of each operation
  handle, cancelled, \* cancelled: some cancel() returned true (history)
  \* the pool
  queue, running, stopping,
  \* CrossaRuntimeContext, guarded by its mutex_
  nextHandle,        \* nextResult_ and nextError_
  retained,          \* the operations whose result or error is still stored
  \* threads
  pc, arg,
  \* what callers observe
  phase,             \* "new", "starting", "accepted", "returned" or "refused"
  operationId,       \* the identifier of each operation, 0 before it has one
  terminal,          \* the CrossaState the pool decided on
  kind, handleOf,    \* the completion kind and handle the adapter passes on
  reports            \* how often the completion was called

recordVars  == <<runtime, nextOperation, operationHandles, activeOperations, operationId>>
handleVars  == <<handle, cancelled>>
poolVars    == <<queue, running, stopping>>
contextVars == <<nextHandle, retained, kind, handleOf>>
vars == <<recordVars, handleVars, poolVars, contextVars, pc, arg, phase, terminal, reports>>

Home(th) == IF th \in Workers THEN "callback" ELSE "ready"

StartPoints == {"reserve", "submit", "enqueue", "abandon", "started", "requestShutdown"}
CallerPoints == {"ready", "join", "publish"} \cup StartPoints
WorkerPoints == {"loop", "run", "remove", "retain", "retainError", "report", "callback",
                 "finish", "exited"} \cup StartPoints

(***************************************************************************)
(* The conditions the runtime branches on and the sets it updates, some    *)
(* preceded by a faulty form under a name of its own: a mistake that the   *)
(* properties below must detect.                                           *)
(***************************************************************************)
MayReserve == runtime = "Running" /\ nextOperation # 0

\* The predicate of enqueue's wait; the fault leaves a stop out of it.
HasSpace == Cardinality(queue) < MaximumQueuedTasks
WaitsForSpace == HasSpace
MayGoOn == stopping \/ HasSpace

\* find() and then cancel() on the handle found; the fault cancels what is
\* decided already.
CancelsClosed(o) == o \in operationHandles /\ handle[o] # "CancellationRequested"
MayCancel(o) == o \in operationHandles /\ handle[o] = "Active"

\* removeActiveOperation.
Erased(o) == operationHandles \ {o}

\* What scheduler_.requestShutdown cancels; the fault relies on the records.
OutstandingRecords == {o \in operationHandles : handle[o] = "Active"}
Outstanding ==
  {o \in Operations : /\ o \in queue \/ \E w \in Workers : running[w] = o
                      /\ handle[o] = "Active"}

\* What awaitTermination waits for.
WorkersEnded == \A w \in Workers : pc[w] = "exited"

\* Only a thread outside the pool waits for it in shutdown; the fault: any does.
AnyoneWaits(th) == TRUE
WaitsForPool(th) == th \notin Workers

\* retainResult and retainError: the number given out (0 at the limit), the next
\* one, and what is stored.
Exhausted(table) == nextHandle[table] = MaximumHandle
Issued(table) == IF Exhausted(table) THEN 0 ELSE nextHandle[table]
Incremented(table) == IF Exhausted(table) THEN nextHandle[table] ELSE nextHandle[table] + 1
Stored(table, o) == IF Exhausted(table) THEN retained ELSE retained \cup {o}

\* deliverAsyncAfter looks at the number it got; the fault passes 0 on.
AssumesResult == TRUE
GotResult == Issued("Success") # 0

(***************************************************************************)
(* The type invariant: every variable in its range.                        *)
(***************************************************************************)
TypeOK ==
  /\ runtime \in {"Running", "ShutdownRequested", "Stopped"}
  /\ nextOperation \in 0..(OperationIds - 1)
  /\ operationHandles \subseteq Operations /\ activeOperations \subseteq Operations
  /\ operationId \in [Operations -> 0..(OperationIds - 1)]
  /\ handle \in [Operations -> {"Active", "CancellationRequested", "Completed"}]
  /\ cancelled \subseteq Operations
  /\ queue \subseteq Operations
  /\ running \in [Workers -> Operations \cup {NoOperation}]
  /\ stopping \in BOOLEAN
  /\ nextHandle \in [Tables -> 1..MaximumHandle]
  /\ retained \subseteq Operations
  /\ pc \in [Threads -> CallerPoints \cup WorkerPoints]
  /\ \A c \in Callers : pc[c] \in CallerPoints
  /\ \A w \in Workers : pc[w] \in WorkerPoints
  /\ arg \in [Threads -> Operations \cup {NoOperation}]
  /\ phase \in [Operations -> {"new", "starting", "accepted", "returned", "refused"}]
  /\ terminal \in [Operations -> {"None", "Success", "Failed", "Cancelled"}]
  /\ kind \in [Operations -> {"None", "Success", "Failed", "Cancelled"}]
  /\ handleOf \in [Operations -> 0..(MaximumHandle - 1)]
  /\ reports \in [Operations -> Nat]

Init ==
  /\ runtime = "Running" /\ nextOperation = 1
  /\ operationHandles = {} /\ activeOperations = {}
  /\ operationId = [o \in Operations |-> 0]
  /\ handle = [o \in Operations |-> "Active"] /\ cancelled = {}
  /\ queue = {} /\ running = [w \in Workers |-> NoOperation] /\ stopping = FALSE
  /\ nextHandle = [table \in Tables |-> 1] /\ retained = {}
  /\ pc = [th \in Threads |-> IF th \in Workers THEN "loop" ELSE "ready"]
  /\ arg = [th \in Threads |-> NoOperation]
  /\ phase = [o \in Operations |-> "new"]
  /\ terminal = [o \in Operations |-> "None"]
  /\ kind = [o \in Operations |-> "None"]
  /\ handleOf = [o \in Operations |-> 0]
  /\ reports = [o \in Operations |-> 0]

Goto(th, point) == pc' = [pc EXCEPT ![th] = point]

----------------------------------------------------------------------------
(* startAsync and startAsyncAfter, from an outside thread or a completion. *)
Start(th, o) ==
  /\ pc[th] = Home(th)
  /\ phase[o] = "new"
  /\ phase' = [phase EXCEPT ![o] = "starting"]
  /\ arg' = [arg EXCEPT ![th] = o]
  /\ Goto(th, "reserve")
  /\ UNCHANGED <<recordVars, handleVars, poolVars, contextVars, terminal, reports>>

\* reserveOperation: the record exists before the work does.
Reserve(th) ==
  /\ pc[th] = "reserve"
  /\ MayReserve
  /\ operationId' = [operationId EXCEPT ![arg[th]] = nextOperation]
  /\ nextOperation' = IF nextOperation + 1 = OperationIds THEN 0 ELSE nextOperation + 1
  /\ operationHandles' = operationHandles \cup {arg[th]}
  /\ activeOperations' = activeOperations \cup {arg[th]}
  /\ Goto(th, "submit")
  /\ UNCHANGED <<runtime, handleVars, poolVars, contextVars, arg, phase, terminal, reports>>

ReserveThrows(th) ==
  /\ pc[th] = "reserve"
  /\ ~MayReserve
  /\ phase' = [phase EXCEPT ![arg[th]] = "refused"]
  /\ arg' = [arg EXCEPT ![th] = NoOperation]
  /\ Goto(th, Home(th))
  /\ UNCHANGED <<recordVars, handleVars, poolVars, contextVars, terminal, reports>>

\* The interpreter gives a known operation with the right arguments to the pool.
Submit(th) ==
  /\ pc[th] = "submit"
  /\ Goto(th, "enqueue")
  /\ UNCHANGED <<recordVars, handleVars, poolVars, contextVars, arg, phase, terminal, reports>>

\* An unknown operation, wrong arguments or globals that fail to initialize: the
\* exception passes through the catch block.
SubmitThrows(th) ==
  /\ pc[th] = "submit"
  /\ Goto(th, "abandon")
  /\ UNCHANGED <<recordVars, handleVars, poolVars, contextVars, arg, phase, terminal, reports>>

\* enqueue: neither of the next two can be taken while the queue is full and the
\* pool is not stopping, and then th waits, on a worker too.
Enqueue(th) ==
  /\ pc[th] = "enqueue"
  /\ MayGoOn /\ ~stopping
  /\ queue' = queue \cup {arg[th]}
  /\ phase' = [phase EXCEPT ![arg[th]] = "accepted"]
  /\ Goto(th, "started")
  /\ UNCHANGED <<recordVars, handleVars, running, stopping, contextVars, arg, terminal, reports>>

EnqueueThrows(th) ==
  /\ pc[th] = "enqueue"
  /\ MayGoOn /\ stopping
  /\ Goto(th, "abandon")
  /\ UNCHANGED <<recordVars, handleVars, poolVars, contextVars, arg, phase, terminal, reports>>

Abandon(th) ==
  /\ pc[th] = "abandon"
  /\ operationHandles' = operationHandles \ {arg[th]}
  /\ activeOperations' = activeOperations \ {arg[th]}
  /\ phase' = [phase EXCEPT ![arg[th]] = "refused"]
  /\ arg' = [arg EXCEPT ![th] = NoOperation]
  /\ Goto(th, Home(th))
  /\ UNCHANGED <<runtime, nextOperation, operationId, handleVars, poolVars, contextVars,
                 terminal, reports>>

\* Only now does the caller hold the identifier; the operation may be over.
StartReturns(th) ==
  /\ pc[th] = "started"
  /\ phase' = [phase EXCEPT ![arg[th]] = "returned"]
  /\ arg' = [arg EXCEPT ![th] = NoOperation]
  /\ Goto(th, Home(th))
  /\ UNCHANGED <<recordVars, handleVars, poolVars, contextVars, terminal, reports>>

----------------------------------------------------------------------------
(* Calls on an operation or a result whose identifier the caller was given. *)
CancelOperation(th, o) ==
  /\ pc[th] = Home(th) /\ phase[o] = "returned"
  /\ MayCancel(o)
  /\ handle' = [handle EXCEPT ![o] = "CancellationRequested"]
  /\ cancelled' = cancelled \cup {o}
  /\ UNCHANGED <<recordVars, poolVars, contextVars, pc, arg, phase, terminal, reports>>

ReleaseOperation(th, o) ==
  /\ pc[th] = Home(th) /\ phase[o] = "returned"
  /\ o \in operationHandles
  /\ operationHandles' = operationHandles \ {o}
  /\ activeOperations' = activeOperations \ {o}
  /\ UNCHANGED <<runtime, nextOperation, operationId, handleVars, poolVars, contextVars,
                 pc, arg, phase, terminal, reports>>

\* crossaReleaseResult and crossaReleaseError
ReleaseHandle(th, o) ==
  /\ pc[th] = Home(th) /\ reports[o] > 0
  /\ o \in retained
  /\ retained' = retained \ {o}
  /\ UNCHANGED <<recordVars, handleVars, poolVars, nextHandle, kind, handleOf,
                 pc, arg, phase, terminal, reports>>

----------------------------------------------------------------------------
(* shutdown                                                                *)
Cancelling(S) ==
  /\ handle' = [o \in Operations |-> IF o \in S THEN "CancellationRequested" ELSE handle[o]]
  /\ cancelled' = cancelled \cup S

Shutdown(th) ==
  /\ pc[th] = Home(th)
  /\ runtime = "Running"
  /\ runtime' = "ShutdownRequested"
  /\ Cancelling({o \in operationHandles : handle[o] = "Active"})
  /\ Goto(th, "requestShutdown")
  /\ UNCHANGED <<nextOperation, operationHandles, activeOperations, operationId, poolVars,
                 contextVars, arg, phase, terminal, reports>>

\* A repeated shutdown cancels nothing itself but waits like the first.
ShutdownAgain(th) ==
  /\ pc[th] = Home(th)
  /\ runtime # "Running"
  /\ Goto(th, "requestShutdown")
  /\ UNCHANGED <<recordVars, handleVars, poolVars, contextVars, arg, phase, terminal, reports>>

\* scheduler_.requestShutdown, then isWorkerThread: a worker does not wait.
RequestShutdown(th) ==
  /\ pc[th] = "requestShutdown"
  /\ stopping' = TRUE
  /\ Cancelling(IF stopping THEN {} ELSE Outstanding)
  /\ Goto(th, IF WaitsForPool(th) THEN "join" ELSE "callback")
  /\ UNCHANGED <<recordVars, queue, running, contextVars, arg, phase, terminal, reports>>

AwaitTermination(c) ==
  /\ pc[c] = "join"
  /\ WorkersEnded
  /\ Goto(c, "publish")
  /\ UNCHANGED <<recordVars, handleVars, poolVars, contextVars, arg, phase, terminal, reports>>

PublishStopped(c) ==
  /\ pc[c] = "publish"
  /\ runtime' = "Stopped"
  /\ activeOperations' = {}
  /\ Goto(c, "ready")
  /\ UNCHANGED <<nextOperation, operationHandles, operationId, handleVars, poolVars,
                 contextVars, arg, phase, terminal, reports>>

----------------------------------------------------------------------------
(* A worker: the pool's part ...                                           *)
Take(w) ==
  /\ pc[w] = "loop"
  /\ \E o \in queue :
       /\ queue' = queue \ {o}
       /\ running' = [running EXCEPT ![w] = o]
  /\ Goto(w, "run")
  /\ UNCHANGED <<recordVars, handleVars, stopping, contextVars, arg, phase, terminal, reports>>

Exit(w) ==
  /\ pc[w] = "loop"
  /\ stopping /\ queue = {}
  /\ Goto(w, "exited")
  /\ UNCHANGED <<recordVars, handleVars, poolVars, contextVars, arg, phase, terminal, reports>>

Decide(w) ==
  /\ pc[w] = "run"
  /\ \E outcome \in {"Success", "Failed", "Cancelled"} :
       /\ IF handle[running[w]] = "Active"
            THEN outcome # "Cancelled" \/ ForeignCancellation
            ELSE outcome = "Cancelled"
       /\ terminal' = [terminal EXCEPT ![running[w]] = outcome]
  /\ handle' = [handle EXCEPT ![running[w]] = "Completed"]
  /\ Goto(w, "remove")
  /\ UNCHANGED <<recordVars, cancelled, poolVars, contextVars, arg, phase, reports>>

\* ... and the completion the runtime gave it: removeActiveOperation first,
RemoveActive(w) ==
  /\ pc[w] = "remove"
  /\ operationHandles' = Erased(running[w])
  /\ activeOperations' = activeOperations \ {running[w]}
  /\ Goto(w, IF running[w] \in Detached THEN "finish" ELSE "retain")
  /\ UNCHANGED <<runtime, nextOperation, operationId, handleVars, poolVars, contextVars,
                 arg, phase, terminal, reports>>

\* deliverAsyncAfter and retainResult, whose 0 turns a success into a failure,
RetainResult(w) ==
  /\ pc[w] = "retain"
  /\ terminal[running[w]] = "Success" /\ GotResult
  /\ kind' = [kind EXCEPT ![running[w]] = "Success"]
  /\ handleOf' = [handleOf EXCEPT ![running[w]] = Issued("Success")]
  /\ nextHandle' = [nextHandle EXCEPT !["Success"] = Incremented("Success")]
  /\ retained' = Stored("Success", running[w])
  /\ Goto(w, "report")
  /\ UNCHANGED <<recordVars, handleVars, poolVars, arg, phase, terminal, reports>>

NoResult(w) ==
  /\ pc[w] = "retain"
  /\ \/ terminal[running[w]] = "Failed"
     \/ terminal[running[w]] = "Success" /\ ~GotResult
  /\ Goto(w, "retainError")
  /\ UNCHANGED <<recordVars, handleVars, poolVars, contextVars, arg, phase, terminal, reports>>

PassCancelled(w) ==
  /\ pc[w] = "retain"
  /\ terminal[running[w]] = "Cancelled"
  /\ kind' = [kind EXCEPT ![running[w]] = "Cancelled"]
  /\ Goto(w, "report")
  /\ UNCHANGED <<recordVars, handleVars, poolVars, nextHandle, retained, handleOf,
                 arg, phase, terminal, reports>>

\* the adapter's retainError,
RetainError(w) ==
  /\ pc[w] = "retainError"
  /\ kind' = [kind EXCEPT ![running[w]] = "Failed"]
  /\ handleOf' = [handleOf EXCEPT ![running[w]] = Issued("Failed")]
  /\ nextHandle' = [nextHandle EXCEPT !["Failed"] = Incremented("Failed")]
  /\ retained' = Stored("Failed", running[w])
  /\ Goto(w, "report")
  /\ UNCHANGED <<recordVars, handleVars, poolVars, arg, phase, terminal, reports>>

\* and the platform's completion, which may call back in and may throw.
Report(w) ==
  /\ pc[w] = "report"
  /\ reports' = [reports EXCEPT ![running[w]] = @ + 1]
  /\ Goto(w, "callback")
  /\ UNCHANGED <<recordVars, handleVars, poolVars, contextVars, arg, phase, terminal>>

CompletionReturns(w) ==
  /\ pc[w] = "callback"
  /\ Goto(w, "finish")
  /\ UNCHANGED <<recordVars, handleVars, poolVars, contextVars, arg, phase, terminal, reports>>

CompletionThrows(w) ==
  /\ pc[w] = "callback"
  /\ retained' = retained \ {running[w]}
  /\ Goto(w, "finish")
  /\ UNCHANGED <<recordVars, handleVars, poolVars, nextHandle, kind, handleOf,
                 arg, phase, terminal, reports>>

Finish(w) ==
  /\ pc[w] = "finish"
  /\ running' = [running EXCEPT ![w] = NoOperation]
  /\ Goto(w, "loop")
  /\ UNCHANGED <<recordVars, handleVars, queue, stopping, contextVars, arg, phase, terminal, reports>>

----------------------------------------------------------------------------
Call(th) ==
  \/ \E o \in Operations :
       Start(th, o) \/ CancelOperation(th, o) \/ ReleaseOperation(th, o) \/ ReleaseHandle(th, o)
  \/ Shutdown(th) \/ ShutdownAgain(th)

CallStep(th) ==
  \/ Reserve(th) \/ ReserveThrows(th) \/ Submit(th) \/ SubmitThrows(th)
  \/ Enqueue(th) \/ EnqueueThrows(th) \/ Abandon(th) \/ StartReturns(th) \/ RequestShutdown(th)

CallerStep(c) == CallStep(c) \/ AwaitTermination(c) \/ PublishStopped(c)

WorkerStep(w) ==
  \/ CallStep(w)
  \/ Take(w) \/ Exit(w) \/ Decide(w) \/ RemoveActive(w)
  \/ RetainResult(w) \/ NoResult(w) \/ PassCancelled(w) \/ RetainError(w) \/ Report(w)
  \/ CompletionReturns(w) \/ CompletionThrows(w) \/ Finish(w)

Next ==
  \/ \E th \in Threads : Call(th)
  \/ \E c \in Callers : CallerStep(c)
  \/ \E w \in Workers : WorkerStep(w)

Spec == Init /\ [][Next]_vars

(***************************************************************************)
(* Fairness.  Threads are scheduled and mutexes handed out; bodies end and *)
(* completions return, even one that calls the ABI on its way.  Nobody is  *)
(* obliged to call the runtime.                                            *)
(***************************************************************************)
Fairness ==
  /\ \A c \in Callers : WF_vars(CallerStep(c))
  /\ \A w \in Workers : WF_vars(WorkerStep(w)) /\ SF_vars(CompletionReturns(w))

FairSpec == Spec /\ Fairness

----------------------------------------------------------------------------
(* What the runtime promises                                               *)

Accepted(o) == phase[o] \in {"accepted", "returned"}

\* No record outlives its operation: when a completion runs, and when a start was
\* refused, the operation is in neither operationHandles_ nor activeOperations_
\* ("removes the operation from both the active execution set and the handle map").
NoRecordOutlivesOperation ==
  \A o \in Operations : reports[o] > 0 \/ phase[o] = "refused" =>
    o \notin operationHandles \cup activeOperations

\* A cancelOperation() or shutdown that took effect is what the caller's completion
\* is told, and it is told Cancelled for no other reason but a foreign cancellation.
CancelReachesCaller ==
  \A o \in Operations : kind[o] # "None" =>
    /\ o \in cancelled => kind[o] = "Cancelled"
    /\ kind[o] = "Cancelled" => o \in cancelled \/ ForeignCancellation

\* Shutdown reaches everything: what has a record when the runtime leaves Running
\* (a start in flight included), and when the pool stops whatever is accepted and
\* undecided, its record released or not.
ShutdownReachesEverything ==
  /\ runtime # "Running" => \A o \in operationHandles : handle[o] # "Active"
  /\ stopping => \A o \in Operations :
       Accepted(o) /\ terminal[o] = "None" => handle[o] # "Active"

\* Stopped means over: every accepted operation is decided, has no record and has
\* reported exactly once if it has a completion.
StoppedIsComplete ==
  runtime = "Stopped" => \A o \in Operations : Accepted(o) =>
    /\ terminal[o] # "None" /\ o \notin operationHandles
    /\ o \in Completing => reports[o] = 1

\* ... and nothing happens afterwards: no completion is entered and no result stored.
NothingAfterStopped ==
  [][runtime = "Stopped" => reports' = reports /\ kind' = kind /\ terminal' = terminal]_vars

\* An identifier names one thing for ever: neither an operation identifier nor a
\* result or error handle is given out twice, whatever was released in between
\* and up to the last value of its type.
IdentifiersAreUnique ==
  \A o, p \in Operations : o # p =>
    /\ operationId[o] = operationId[p] => operationId[o] = 0
    /\ kind[o] = kind[p] /\ handleOf[o] = handleOf[p] => handleOf[o] = 0

\* Success is never reported without a result that resolves: from the report on, the
\* handle is not 0 and its value is stored until somebody gives it back.
ReportedResultResolves ==
  \A w \in Workers : pc[w] = "report" /\ kind[running[w]] = "Success" =>
    handleOf[running[w]] # 0 /\ running[w] \in retained

\* Every worker runs a completion that waits for a place in the queue, which only
\* a worker could make: nothing but a shutdown from outside ends it.
Jammed == ~stopping /\ ~HasSpace /\ \A w \in Workers : pc[w] = "enqueue"

\* Every accepted operation with a completion reports, cancelled or not, beside any
\* shutdown ("produces exactly one CrossaState<T> terminal result",
\* docs/runtime/scheduling.md).
AcceptedOperationsReport ==
  \A o \in Completing : Accepted(o) ~> (reports[o] = 1)

\* Every call from outside the pool returns, shutdown included.
CallsReturn == \A c \in Callers : (pc[c] # "ready") ~> (pc[c] = "ready")

\* No call and no accepted operation stays unfinished, unless all workers wait for a
\* place at once and nobody ever shuts the runtime down: a full queue alone, with one
\* worker left to make room, holds nobody for ever, and a shutdown ends every jam.
EverythingEnds == <>[]Jammed \/ (CallsReturn /\ AcceptedOperationsReport)

----------------------------------------------------------------------------
(***************************************************************************)
(* The inductive invariant.                                                *)
(***************************************************************************)
HoldsNothing == {"loop", "exited"}
Undecided == {"run"}
Reporting == {"callback", "finish"} \cup StartPoints
Starting == StartPoints \ {"requestShutdown"}

\* Where an operation is: with one starting thread, queued, or with one worker.
OneOwner ==
  /\ \A w \in Workers : running[w] = NoOperation <=> pc[w] \in HoldsNothing
  /\ \A v, w \in Workers : running[v] = running[w] /\ running[v] # NoOperation => v = w
  /\ \A w \in Workers : running[w] \notin queue
  /\ \A o \in queue : Accepted(o)
  /\ \A w \in Workers : running[w] # NoOperation => Accepted(running[w])
  /\ \A th \in Threads : pc[th] \in Starting => arg[th] \in Operations
  /\ \A th \in Threads : pc[th] \in Starting =>
       phase[arg[th]] = IF pc[th] = "started" THEN "accepted" ELSE "starting"
  /\ \A th, oh \in Threads :
       pc[th] \in Starting /\ pc[oh] \in Starting /\ arg[th] = arg[oh] => th = oh

\* How far an accepted operation got.
ProgressByPlace ==
  /\ \A o \in Operations : ~Accepted(o) => terminal[o] = "None"
  /\ \A o \in queue : terminal[o] = "None"
  /\ \A w \in Workers : pc[w] = "run" => terminal[running[w]] = "None"
  /\ \A w \in Workers : pc[w] \notin HoldsNothing \cup Undecided => terminal[running[w]] # "None"
  /\ \A w \in Workers : pc[w] \in {"remove", "retain", "retainError"} =>
       kind[running[w]] = "None" /\ reports[running[w]] = 0
  /\ \A w \in Workers : pc[w] = "report" =>
       kind[running[w]] # "None" /\ reports[running[w]] = 0
  /\ \A w \in Workers : pc[w] \in Reporting /\ running[w] \in Completing =>
       reports[running[w]] = 1
  /\ \A w \in Workers : pc[w] = "retainError" => terminal[running[w]] # "Cancelled"
  /\ \A o \in Operations : terminal[o] = "None" => kind[o] = "None" /\ reports[o] = 0
  /\ \A o \in Operations : reports[o] \in {0, 1}

\* No accepted operation is dropped.
NoneLost ==
  \A o \in Operations : Accepted(o) =>
    \/ o \in queue
    \/ \E w \in Workers : running[w] = o
    \/ terminal[o] # "None" /\ (o \in Completing => reports[o] = 1)
       /\ o \notin operationHandles \cup activeOperations

\* What the handle says, and what of it the caller is told.
HandleAgrees ==
  /\ \A o \in Operations : terminal[o] = "None" =>
       IF o \in cancelled THEN handle[o] = "CancellationRequested" ELSE handle[o] = "Active"
  /\ \A o \in Operations : terminal[o] # "None" => handle[o] = "Completed"
  /\ \A o \in Operations : terminal[o] \in Tables => o \notin cancelled
  /\ \A o \in Operations : terminal[o] = "Cancelled" => o \in cancelled \/ ForeignCancellation
  /\ \A o \in Operations : kind[o] \in Tables => terminal[o] \in Tables
  /\ \A o \in Operations : kind[o] = "Cancelled" => terminal[o] = "Cancelled"
  /\ \A o \in Operations : phase[o] = "new" => o \notin cancelled

\* Which operations may still have a record.
RecordsAgree ==
  /\ \A o \in operationHandles \cup activeOperations : phase[o] \notin {"new", "refused"}
  /\ \A th \in Threads : pc[th] = "reserve" =>
       arg[th] \notin operationHandles \cup activeOperations
  /\ \A w \in Workers : pc[w] \notin HoldsNothing \cup {"run", "remove"} =>
       running[w] \notin operationHandles \cup activeOperations

\* What a shutdown has reached so far.
ShutdownProgress ==
  /\ \A th \in Threads : pc[th] = "requestShutdown" => runtime # "Running"
  /\ stopping => runtime # "Running"
  /\ runtime # "Running" => \A o \in operationHandles : handle[o] # "Active"
  /\ stopping => \A o \in queue : handle[o] # "Active"
  /\ stopping => \A w \in Workers : running[w] # NoOperation => handle[running[w]] # "Active"
  /\ \A w \in Workers : pc[w] = "exited" => stopping /\ queue = {}
  /\ \A c \in Callers : pc[c] = "join" => stopping
  /\ \A c \in Callers : pc[c] = "publish" => stopping /\ WorkersEnded
  /\ runtime = "Stopped" => stopping /\ WorkersEnded

\* The counters are ahead of everything they gave out.
NumbersAgree ==
  /\ IdentifiersAreUnique
  /\ nextOperation # 0 => \A o \in Operations : operationId[o] < nextOperation
  /\ \A o \in Operations : kind[o] \in Tables => handleOf[o] < nextHandle[kind[o]]
  /\ \A o \in Operations : kind[o] \notin Tables => handleOf[o] = 0
  /\ ReportedResultResolves

\* The conjunction that every step preserves.
IInv ==
  /\ TypeOK /\ OneOwner /\ ProgressByPlace /\ NoneLost /\ HandleAgrees
  /\ RecordsAgree /\ ShutdownProgress /\ NumbersAgree

----------------------------------------------------------------------------
\* What the caller of an operation with a completion can observe of it.
ObservedStatus(o) ==
  IF phase[o] \in {"new", "refused"} THEN phase[o]
  ELSE IF kind[o] # "None" THEN kind[o]
  ELSE IF o \in cancelled THEN "cancelling" ELSE "pending"

Contract == INSTANCE AsyncOperation
  WITH Tasks <- Completing,
       SelfCancelling <- ForeignCancellation,
       status  <- [o \in Completing |-> ObservedStatus(o)],
       reports <- [o \in Completing |-> reports[o]]

\* Through the ABI a completion operation still keeps the contract of the pool's
\* tasks: refused, or one outcome decided between cancel and completion, reported once.
ImplementsContract == Contract!Spec

Pool == INSTANCE UnorderedPool
  WITH Tasks <- Operations, NoTask <- NoOperation, waiting <- queue, held <- running,
       gone <- {w \in Workers : pc[w] = "exited"}

\* Of its pool the runtime asks no more than TaskScheduler keeps: it submits each operation
\* once, however starts, abandoned starts and a shutdown meet, and nothing after the stop.
UsesPool == Pool!Spec
=============================================================================
