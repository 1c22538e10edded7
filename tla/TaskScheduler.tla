---------------------------- MODULE TaskScheduler ----------------------------
(***************************************************************************)
(* The bounded worker pool of the native runtime                           *)
(* (src/runtime/scheduler/TaskScheduler.cpp) together with the cancellation *)
(* handle every task shares with its submitter (RequestHandle.cpp).         *)
(*                                                                         *)
(* One action is one critical section of mutex_, one atomic access of a    *)
(* handle, one condition-variable notification made after the mutex is     *)
(* released, or one stretch of foreign code (a task body, a completion).   *)
(* A condition variable is the set of threads parked on it: a thread that  *)
(* finds its predicate false parks, a notification takes threads out, and  *)
(* a thread taken out evaluates its predicate again.                       *)
(***************************************************************************)
EXTENDS Naturals, Sequences, FiniteSets

CONSTANTS
  Workers,              \* the threads the constructor starts
  Clients,              \* every other thread that calls the scheduler
  Tasks,                \* the submissions of a behaviour, each with its own handle
  Futures,              \* the tasks given to submit(): the caller awaits a future
  Callbacks,            \* the tasks given to submitWithCompletion()
  MaximumQueuedTasks,   \* maximumQueuedTasks_
  CallbacksSubmit,      \* may a completion submit again (the C ABI allows it)?
  ForeignCancellation,  \* may a body raise a cancellation that is not its handle's?
  NoTask                \* a worker with no entry in activeHandles_

ASSUME ThreadsDisjoint == Workers \cap Clients = {}
ASSUME WorkersFinite == IsFiniteSet(Workers) /\ Workers # {}
ASSUME ClientsFinite == IsFiniteSet(Clients)
ASSUME QueueBoundPositive == MaximumQueuedTasks \in Nat \ {0}
ASSUME NoTaskIsNoTask == NoTask \notin Tasks
ASSUME KindsAreTasks == Futures \subseteq Tasks /\ Callbacks \subseteq Tasks \ Futures
ASSUME SwitchesAreBoolean ==
  CallbacksSubmit \in BOOLEAN /\ ForeignCancellation \in BOOLEAN

Threads == Workers \cup Clients

VARIABLES
  \* RequestHandle
  lifecycle,    \* lifecycle[t]: the atomic of t's handle
  cancelWon,    \* the tasks for which some cancel() returned true (history)
  \* TaskScheduler, guarded by mutex_
  tasks,        \* tasks_
  activeTasks,  \* activeTasks_
  active,       \* activeHandles_, by worker
  workerIds,    \* workerIds_
  stopping, joining, terminated,
  \* threads parked on taskAvailable_, queueSpaceAvailable_ and idle_
  waitTask, waitSpace, waitIdle,
  \* control state of each thread, and its locals
  pc,
  arg,          \* the task a caller is submitting or awaiting
  outcome,      \* how the body run by a worker ended: "value" or "error"
  \* what submitters observe
  stage,        \* "new", "submitting", "rejected" or "accepted"
  started,      \* the tasks whose body was entered (history)
  terminal,     \* the CrossaState runTask decided on
  delivered     \* how often a completion ran or a future was set

handleVars == <<lifecycle, cancelWon>>
lockVars   == <<tasks, activeTasks, active, workerIds, stopping, joining, terminated>>
waitVars   == <<waitTask, waitSpace, waitIdle>>
threadVars == <<pc, arg, outcome>>
taskVars   == <<stage, started, terminal, delivered>>
vars == <<handleVars, lockVars, waitVars, threadVars, taskVars>>

(***************************************************************************)
(* Control points.  "ready" is a client outside the scheduler, "callback" a *)
(* worker inside a completion: both may call the scheduler.                 *)
(***************************************************************************)
Home(th) == IF th \in Workers THEN "callback" ELSE "ready"

CallPoints == {"enqueue", "notifyTask", "notifyWorkers", "notifySubmitters", "stopped"}
RunPoints  == {"check", "body", "complete", "unwind", "unwindActive", "deliver", "return"}
WorkerPoints == {"start", "loop", "callback", "exited"} \cup RunPoints \cup CallPoints
ClientPoints == {"ready", "await", "idleWait", "termination", "termWait", "join",
                 "publish", "notifyIdle"} \cup CallPoints

Queued == {tasks[i] : i \in 1..Len(tasks)}
Running == {active[w] : w \in Workers} \ {NoTask}

(***************************************************************************)
(* The conditions the pool branches on.  Before some of them stands a      *)
(* faulty form, under a name of its own: a mistake that the properties     *)
(* below must detect.                                                      *)
(***************************************************************************)
HasSpace == Len(tasks) < MaximumQueuedTasks

Drained == stopping /\ tasks = <<>>

QuietQueue == tasks = <<>>
Quiet == tasks = <<>> /\ activeTasks = 0

\* push_back and pop_front; the fault leaves the task that is taken.
Pushed(t) == Append(tasks, t)
LeftInPlace == tasks
Popped == Tail(tasks)

\* What a shutdown cancels; the fault forgets activeHandles_.
OutstandingQueued == {t \in Queued : lifecycle[t] = "Active"}
Outstanding == {t \in Queued \cup Running : lifecycle[t] = "Active"}

\* notify_one: one parked thread, if there is one, will look again; the fault
\* wakes nobody.
NotifiedNobody(parked) == {parked}
Notified(parked) == IF parked = {} THEN {{}} ELSE {parked \ {th} : th \in parked}

\* RequestHandle: the flag the body checks, and the two exchanges from Active
\* (completeCancellation).
CancellationRequested(t) == lifecycle[t] = "CancellationRequested"
ExchangesActive(t) == lifecycle[t] = "Active"
ClosedFromActive(t) == IF lifecycle[t] = "Active" THEN "Completed" ELSE lifecycle[t]

(***************************************************************************)
(* The type invariant: each variable in its range, the queue within its    *)
(* bound, workers and clients at control points of their own.              *)
(***************************************************************************)
TypeOK ==
  /\ lifecycle \in [Tasks -> {"Active", "CancellationRequested", "Completed"}]
  /\ cancelWon \subseteq Tasks
  /\ tasks \in Seq(Tasks) /\ Len(tasks) <= MaximumQueuedTasks
  /\ activeTasks \in Nat
  /\ active \in [Workers -> Tasks \cup {NoTask}]
  /\ workerIds \subseteq Workers
  /\ stopping \in BOOLEAN /\ joining \in BOOLEAN /\ terminated \in BOOLEAN
  /\ waitTask \subseteq Workers /\ waitSpace \subseteq Threads /\ waitIdle \subseteq Clients
  /\ pc \in [Threads -> WorkerPoints \cup ClientPoints]
  /\ \A w \in Workers : pc[w] \in WorkerPoints
  /\ \A c \in Clients : pc[c] \in ClientPoints
  /\ arg \in [Threads -> Tasks \cup {NoTask}]
  /\ outcome \in [Workers -> {"value", "error"}]
  /\ stage \in [Tasks -> {"new", "submitting", "rejected", "accepted"}]
  /\ started \subseteq Tasks
  /\ terminal \in [Tasks -> {"None", "Success", "Failed", "Cancelled"}]
  /\ delivered \in [Tasks -> Nat]

\* The constructor has returned: every worker thread is created, none has
\* taken mutex_ yet.
Init ==
  /\ lifecycle = [t \in Tasks |-> "Active"] /\ cancelWon = {}
  /\ tasks = <<>> /\ activeTasks = 0
  /\ active = [w \in Workers |-> NoTask] /\ workerIds = {}
  /\ stopping = FALSE /\ joining = FALSE /\ terminated = FALSE
  /\ waitTask = {} /\ waitSpace = {} /\ waitIdle = {}
  /\ pc = [th \in Threads |-> IF th \in Workers THEN "start" ELSE "ready"]
  /\ arg = [th \in Threads |-> NoTask]
  /\ outcome = [w \in Workers |-> "value"]
  /\ stage = [t \in Tasks |-> "new"] /\ started = {}
  /\ terminal = [t \in Tasks |-> "None"]
  /\ delivered = [t \in Tasks |-> 0]

Goto(th, point) == pc' = [pc EXCEPT ![th] = point]

----------------------------------------------------------------------------
(* RequestHandle::cancel through the handle a submitter holds.             *)
Cancel(th, t) ==
  /\ pc[th] = Home(th)
  /\ stage[t] # "new"
  /\ lifecycle[t] = "Active"
  /\ lifecycle' = [lifecycle EXCEPT ![t] = "CancellationRequested"]
  /\ cancelWon' = cancelWon \cup {t}
  /\ UNCHANGED <<lockVars, waitVars, threadVars, taskVars>>

----------------------------------------------------------------------------
(* submit, submitDetached and submitWithCompletion, then enqueue.          *)
Submit(th, t) ==
  /\ pc[th] = Home(th)
  /\ th \in Workers => CallbacksSubmit /\ t \notin Futures
  /\ stage[t] = "new"
  /\ stage' = [stage EXCEPT ![t] = "submitting"]
  /\ arg' = [arg EXCEPT ![th] = t]
  /\ Goto(th, "enqueue")
  /\ UNCHANGED <<handleVars, lockVars, waitVars, outcome, started, terminal, delivered>>

EnqueueWait(th) ==
  /\ pc[th] = "enqueue" /\ th \notin waitSpace
  /\ ~stopping /\ ~HasSpace
  /\ waitSpace' = waitSpace \cup {th}
  /\ UNCHANGED <<handleVars, lockVars, waitTask, waitIdle, threadVars, taskVars>>

EnqueueReject(th) ==
  /\ pc[th] = "enqueue" /\ th \notin waitSpace
  /\ stopping
  /\ stage' = [stage EXCEPT ![arg[th]] = "rejected"]
  /\ arg' = [arg EXCEPT ![th] = NoTask]
  /\ Goto(th, Home(th))
  /\ UNCHANGED <<handleVars, lockVars, waitVars, outcome, started, terminal, delivered>>

EnqueuePush(th) ==
  /\ pc[th] = "enqueue" /\ th \notin waitSpace
  /\ ~stopping /\ HasSpace
  /\ tasks' = Pushed(arg[th])
  /\ stage' = [stage EXCEPT ![arg[th]] = "accepted"]
  /\ Goto(th, "notifyTask")
  /\ UNCHANGED <<handleVars, activeTasks, active, workerIds, stopping, joining, terminated,
                 waitVars, arg, outcome, started, terminal, delivered>>

\* notify_one after the lock is released; the caller of submit() goes on to await.
EnqueueNotify(th) ==
  /\ pc[th] = "notifyTask"
  /\ waitTask' \in Notified(waitTask)
  /\ Goto(th, IF arg[th] \in Futures THEN "await" ELSE Home(th))
  /\ arg' = [arg EXCEPT ![th] = IF arg[th] \in Futures THEN @ ELSE NoTask]
  /\ UNCHANGED <<handleVars, lockVars, waitSpace, waitIdle, outcome, taskVars>>

\* ScheduledTask::await
Await(c) ==
  /\ pc[c] = "await" /\ delivered[arg[c]] > 0
  /\ arg' = [arg EXCEPT ![c] = NoTask]
  /\ Goto(c, "ready")
  /\ UNCHANGED <<handleVars, lockVars, waitVars, outcome, taskVars>>

----------------------------------------------------------------------------
(* workerLoop                                                              *)
WorkerStart(w) ==
  /\ pc[w] = "start"
  /\ workerIds' = workerIds \cup {w}
  /\ Goto(w, "loop")
  /\ UNCHANGED <<handleVars, tasks, activeTasks, active, stopping, joining, terminated,
                 waitVars, arg, outcome, taskVars>>

WorkerWait(w) ==
  /\ pc[w] = "loop" /\ w \notin waitTask
  /\ ~stopping /\ tasks = <<>>
  /\ waitTask' = waitTask \cup {w}
  /\ UNCHANGED <<handleVars, lockVars, waitSpace, waitIdle, threadVars, taskVars>>

WorkerExit(w) ==
  /\ pc[w] = "loop" /\ w \notin waitTask
  /\ Drained
  /\ workerIds' = workerIds \ {w}
  /\ waitIdle' = IF workerIds' = {} THEN {} ELSE waitIdle
  /\ Goto(w, "exited")
  /\ UNCHANGED <<handleVars, tasks, activeTasks, active, stopping, joining, terminated,
                 waitTask, waitSpace, arg, outcome, taskVars>>

WorkerPop(w) ==
  /\ pc[w] = "loop" /\ w \notin waitTask
  /\ tasks # <<>>
  /\ tasks' = Popped
  /\ active' = [active EXCEPT ![w] = Head(tasks)]
  /\ activeTasks' = activeTasks + 1
  /\ waitSpace' \in Notified(waitSpace)
  /\ Goto(w, "check")
  /\ UNCHANGED <<handleVars, workerIds, stopping, joining, terminated, waitTask, waitIdle,
                 arg, outcome, taskVars>>

\* After the work returned: the bookkeeping section that ends one iteration.
WorkerFinish(w) ==
  /\ pc[w] = "return"
  /\ active' = [active EXCEPT ![w] = NoTask]
  /\ activeTasks' = activeTasks - 1
  /\ waitIdle' = IF tasks = <<>> /\ activeTasks' = 0 THEN {} ELSE waitIdle
  /\ Goto(w, "loop")
  /\ UNCHANGED <<handleVars, tasks, workerIds, stopping, joining, terminated,
                 waitTask, waitSpace, arg, outcome, taskVars>>

----------------------------------------------------------------------------
(* runTask                                                                 *)

\* throwIfCancellationRequested before the body is entered
SkipBody(w) ==
  /\ pc[w] = "check"
  /\ CancellationRequested(active[w])
  /\ Goto(w, "unwind")
  /\ UNCHANGED <<handleVars, lockVars, waitVars, arg, outcome, taskVars>>

EnterBody(w) ==
  /\ pc[w] = "check"
  /\ ~CancellationRequested(active[w])
  /\ started' = started \cup {active[w]}
  /\ Goto(w, "body")
  /\ UNCHANGED <<handleVars, lockVars, waitVars, arg, outcome, stage, terminal, delivered>>

BodyReturns(w) ==
  /\ pc[w] = "body"
  /\ \E result \in {"value", "error"} : outcome' = [outcome EXCEPT ![w] = result]
  /\ Goto(w, "complete")
  /\ UNCHANGED <<handleVars, lockVars, waitVars, arg, taskVars>>

\* The body raises a Cancellation error: it saw its own handle cancelled, or
\* (ForeignCancellation) it passes on one that was raised for another request.
BodyCancelled(w) ==
  /\ pc[w] = "body"
  /\ CancellationRequested(active[w]) \/ ForeignCancellation
  /\ Goto(w, "unwind")
  /\ UNCHANGED <<handleVars, lockVars, waitVars, arg, outcome, taskVars>>

\* tryComplete wins: the body's outcome becomes the terminal state ...
TryComplete(w) ==
  /\ pc[w] = "complete"
  /\ ExchangesActive(active[w])
  /\ lifecycle' = [lifecycle EXCEPT ![active[w]] = "Completed"]
  /\ terminal' = [terminal EXCEPT ![active[w]] =
                     IF outcome[w] = "value" THEN "Success" ELSE "Failed"]
  /\ Goto(w, "deliver")
  /\ UNCHANGED <<cancelWon, lockVars, waitVars, arg, outcome, stage, started, delivered>>

\* ... or a cancel() was faster, and every branch of runTask discards it.
CompleteTooLate(w) ==
  /\ pc[w] = "complete"
  /\ ~ExchangesActive(active[w])
  /\ Goto(w, "unwind")
  /\ UNCHANGED <<handleVars, lockVars, waitVars, arg, outcome, taskVars>>

\* completeCancellation, first exchange: CancellationRequested -> Completed
CompleteCancellation(w) ==
  /\ pc[w] = "unwind"
  /\ CancellationRequested(active[w])
  /\ lifecycle' = [lifecycle EXCEPT ![active[w]] = "Completed"]
  /\ terminal' = [terminal EXCEPT ![active[w]] = "Cancelled"]
  /\ Goto(w, "deliver")
  /\ UNCHANGED <<cancelWon, lockVars, waitVars, arg, outcome, stage, started, delivered>>

NothingToCancel(w) ==
  /\ pc[w] = "unwind"
  /\ ~CancellationRequested(active[w])
  /\ Goto(w, "unwindActive")
  /\ UNCHANGED <<handleVars, lockVars, waitVars, arg, outcome, taskVars>>

\* completeCancellation, second exchange: Active -> Completed, whose failure
\* (a cancel() in between) runTask ignores
CompleteUncancelled(w) ==
  /\ pc[w] = "unwindActive"
  /\ lifecycle' = [lifecycle EXCEPT ![active[w]] = ClosedFromActive(active[w])]
  /\ terminal' = [terminal EXCEPT ![active[w]] = "Cancelled"]
  /\ Goto(w, "deliver")
  /\ UNCHANGED <<cancelWon, lockVars, waitVars, arg, outcome, stage, started, delivered>>

\* The future is set, the completion is entered, or the state is logged.
Deliver(w) ==
  /\ pc[w] = "deliver"
  /\ delivered' = [delivered EXCEPT ![active[w]] = @ + 1]
  /\ Goto(w, IF active[w] \in Callbacks THEN "callback" ELSE "return")
  /\ UNCHANGED <<handleVars, lockVars, waitVars, arg, outcome, stage, started, terminal>>

\* The completion returns, or throws and is logged.
CallbackReturns(w) ==
  /\ pc[w] = "callback"
  /\ Goto(w, "return")
  /\ UNCHANGED <<handleVars, lockVars, waitVars, arg, outcome, taskVars>>

----------------------------------------------------------------------------
(* shutdown: requestShutdown, then awaitTermination off the workers        *)
RequestShutdown(th) ==
  /\ pc[th] = Home(th)
  /\ ~stopping
  /\ stopping' = TRUE
  /\ lifecycle' = [t \in Tasks |-> IF t \in Outstanding THEN "CancellationRequested"
                                                        ELSE lifecycle[t]]
  /\ cancelWon' = cancelWon \cup Outstanding
  /\ Goto(th, "notifyWorkers")
  /\ UNCHANGED <<tasks, activeTasks, active, workerIds, joining, terminated, waitVars,
                 arg, outcome, taskVars>>

\* A shutdown that is already requested returns at once to its caller's wait.
RepeatShutdown(th) ==
  /\ pc[th] = Home(th)
  /\ stopping
  /\ Goto(th, "stopped")
  /\ UNCHANGED <<handleVars, lockVars, waitVars, arg, outcome, taskVars>>

NotifyWorkers(th) ==
  /\ pc[th] = "notifyWorkers"
  /\ waitTask' = {}
  /\ Goto(th, "notifySubmitters")
  /\ UNCHANGED <<handleVars, lockVars, waitSpace, waitIdle, arg, outcome, taskVars>>

NotifySubmitters(th) ==
  /\ pc[th] = "notifySubmitters"
  /\ waitSpace' = {}
  /\ Goto(th, "stopped")
  /\ UNCHANGED <<handleVars, lockVars, waitTask, waitIdle, arg, outcome, taskVars>>

\* isWorkerThread decides whether the caller goes on to wait.
ShutdownCheck(th) ==
  /\ pc[th] = "stopped"
  /\ Goto(th, IF th \in workerIds THEN "callback" ELSE "termination")
  /\ UNCHANGED <<handleVars, lockVars, waitVars, arg, outcome, taskVars>>

\* awaitTermination: return, wait for the joining owner, or become it
AlreadyTerminated(c) ==
  /\ pc[c] \in {"termination", "termWait"} /\ c \notin waitIdle
  /\ terminated
  /\ Goto(c, "ready")
  /\ UNCHANGED <<handleVars, lockVars, waitVars, arg, outcome, taskVars>>

AwaitOwner(c) ==
  /\ pc[c] \in {"termination", "termWait"} /\ c \notin waitIdle
  /\ ~terminated
  /\ pc[c] = "termination" => joining
  /\ waitIdle' = waitIdle \cup {c}
  /\ Goto(c, "termWait")
  /\ UNCHANGED <<handleVars, lockVars, waitTask, waitSpace, arg, outcome, taskVars>>

BecomeOwner(c) ==
  /\ pc[c] = "termination"
  /\ ~terminated /\ ~joining
  /\ joining' = TRUE
  /\ Goto(c, "join")
  /\ UNCHANGED <<handleVars, tasks, activeTasks, active, workerIds, stopping, terminated,
                 waitVars, arg, outcome, taskVars>>

\* joinWorkers returns when the last worker thread has ended.
JoinWorkers(c) ==
  /\ pc[c] = "join"
  /\ \A w \in Workers : pc[w] = "exited"
  /\ Goto(c, "publish")
  /\ UNCHANGED <<handleVars, lockVars, waitVars, arg, outcome, taskVars>>

PublishTermination(c) ==
  /\ pc[c] = "publish"
  /\ terminated' = TRUE
  /\ joining' = FALSE
  /\ Goto(c, "notifyIdle")
  /\ UNCHANGED <<handleVars, tasks, activeTasks, active, workerIds, stopping, waitVars,
                 arg, outcome, taskVars>>

NotifyIdle(c) ==
  /\ pc[c] = "notifyIdle"
  /\ waitIdle' = {}
  /\ Goto(c, "ready")
  /\ UNCHANGED <<handleVars, lockVars, waitTask, waitSpace, arg, outcome, taskVars>>

----------------------------------------------------------------------------
(* waitUntilIdle                                                           *)
WaitUntilIdle(c) ==
  /\ pc[c] = "ready"
  /\ Goto(c, "idleWait")
  /\ UNCHANGED <<handleVars, lockVars, waitVars, arg, outcome, taskVars>>

IdleWait(c) ==
  /\ pc[c] = "idleWait" /\ c \notin waitIdle
  /\ ~Quiet
  /\ waitIdle' = waitIdle \cup {c}
  /\ UNCHANGED <<handleVars, lockVars, waitTask, waitSpace, threadVars, taskVars>>

IdleReached(c) ==
  /\ pc[c] = "idleWait" /\ c \notin waitIdle
  /\ Quiet
  /\ Goto(c, "ready")
  /\ UNCHANGED <<handleVars, lockVars, waitVars, arg, outcome, taskVars>>

----------------------------------------------------------------------------
\* What a thread does of its own accord ...
Call(th) ==
  \/ \E t \in Tasks : Cancel(th, t) \/ Submit(th, t)
  \/ RequestShutdown(th)
  \/ RepeatShutdown(th)

\* ... and the steps that carry a call it made to its end.
CallStep(th) ==
  \/ EnqueueWait(th) \/ EnqueueReject(th) \/ EnqueuePush(th) \/ EnqueueNotify(th)
  \/ NotifyWorkers(th) \/ NotifySubmitters(th) \/ ShutdownCheck(th)

ClientStep(c) ==
  \/ CallStep(c) \/ Await(c)
  \/ AlreadyTerminated(c) \/ AwaitOwner(c) \/ BecomeOwner(c) \/ JoinWorkers(c)
  \/ PublishTermination(c) \/ NotifyIdle(c) \/ IdleWait(c) \/ IdleReached(c)

WorkerStep(w) ==
  \/ CallStep(w)
  \/ WorkerStart(w) \/ WorkerWait(w) \/ WorkerExit(w) \/ WorkerPop(w) \/ WorkerFinish(w)
  \/ SkipBody(w) \/ EnterBody(w) \/ BodyReturns(w) \/ BodyCancelled(w)
  \/ TryComplete(w) \/ CompleteTooLate(w)
  \/ CompleteCancellation(w) \/ NothingToCancel(w) \/ CompleteUncancelled(w)
  \/ Deliver(w) \/ CallbackReturns(w)

Next ==
  \/ \E th \in Threads : Call(th)
  \/ \E c \in Clients : ClientStep(c) \/ WaitUntilIdle(c)
  \/ \E w \in Workers : WorkerStep(w)

Spec == Init /\ [][Next]_vars

(***************************************************************************)
(* Fairness.  The mutex is handed out and threads are scheduled, so a      *)
(* thread inside a call is not passed over for ever; a body ends (network  *)
(* waits are bounded by timeouts and the interpreter by its depth limit);  *)
(* and a completion returns even if it calls the scheduler on its way.     *)
(* Nobody is obliged to cancel, submit or shut down.                       *)
(***************************************************************************)
Fairness ==
  /\ \A c \in Clients : WF_vars(ClientStep(c))
  /\ \A w \in Workers : WF_vars(WorkerStep(w)) /\ SF_vars(CallbackReturns(w))

FairSpec == Spec /\ Fairness

----------------------------------------------------------------------------
(* What the pool promises                                                  *)

\* Cancel and completion are linearized by the handle: a cancel() that returned
\* true forces the state runTask publishes to Cancelled, and a task whose body
\* raises no cancellation of its own is Cancelled only if some cancel() won.
CancelDecides ==
  \A t \in Tasks : terminal[t] # "None" =>
    /\ t \in cancelWon => terminal[t] = "Cancelled"
    /\ terminal[t] = "Cancelled" => t \in cancelWon \/ ForeignCancellation

\* Once a terminal state is decided no later cancel() can return true: the
\* handle is never left Active, whichever exchange of completeCancellation won.
TerminalHandleIsClosed ==
  \A t \in Tasks : terminal[t] # "None" => lifecycle[t] # "Active"

\* requestShutdown reaches every task that was accepted and is unfinished: there
\* is no moment at which a task is neither in tasks_ nor in activeHandles_ and
\* escapes with a handle that is still Active.
ShutdownCancelsOutstanding ==
  stopping => \A t \in Tasks :
    stage[t] = "accepted" /\ delivered[t] = 0 => lifecycle[t] # "Active"

\* When termination is published every accepted task has run to its terminal
\* state and reported it exactly once; nothing is left queued or accepted later.
TerminationIsComplete ==
  terminated => \A t \in Tasks :
    IF stage[t] = "accepted" THEN delivered[t] = 1 ELSE delivered[t] = 0

\* waitUntilIdle returns only at a moment when every accepted task has reported
\* its terminal state (the queue and the counter activeTasks_ agree with reality).
IdleMeansReported ==
  [][\A c \in Clients : pc[c] = "idleWait" /\ pc'[c] = "ready" =>
       \A t \in Tasks : stage[t] = "accepted" => delivered[t] = 1]_vars

\* "Cancellation before execution skips the task body"
\* (docs/runtime/scheduling.md): a handle cancelled before the body was entered
\* keeps the body from ever being entered.
CancelledBodyIsSkipped ==
  [][\A t \in Tasks : t \notin started /\ t \in cancelWon => t \notin started']_vars

\* Every accepted task reports a terminal state, whatever is cancelled and
\* whoever shuts down: no notification is lost and nobody waits on itself.
AcceptedTasksEnd ==
  \A t \in Tasks : (stage[t] = "accepted") ~> (delivered[t] = 1)

\* Every call made from outside the pool returns: submit on a full queue, await,
\* shutdown beside other shutdowns, waitUntilIdle.
CallsReturn ==
  \A c \in Clients : (pc[c] # "ready") ~> (pc[c] = "ready")

\* Nothing that was begun stays unfinished, call or task.
EverythingEnds == CallsReturn /\ AcceptedTasksEnd

----------------------------------------------------------------------------
(***************************************************************************)
(* The inductive invariant.  Where a task is: its submitter, the queue or   *)
(* one worker; how far it got there; what its handle says then; and what    *)
(* stopping and an ended worker imply.                                      *)
(***************************************************************************)
Idle == {"start", "loop", "exited"}                \* points with no entry in activeHandles_
Deciding == {"check", "body", "complete", "unwind", "unwindActive"}
Reporting == {"callback", "return"} \cup CallPoints

\* Every task is in one place: with one submitter, once in the queue, or with
\* one worker.
OneOwner ==
  /\ \A w \in Workers : active[w] = NoTask <=> pc[w] \in Idle
  /\ \A v, w \in Workers : active[v] = active[w] /\ active[v] # NoTask => v = w
  /\ \A i, j \in 1..Len(tasks) : tasks[i] = tasks[j] => i = j
  /\ \A i \in 1..Len(tasks), w \in Workers : tasks[i] # active[w]
  /\ \A th \in Threads : pc[th] \in {"enqueue", "notifyTask", "await"} => arg[th] \in Tasks
  /\ \A th \in Threads : pc[th] = "enqueue" => stage[arg[th]] = "submitting"
  /\ \A w \in Workers : pc[w] \in {"enqueue", "notifyTask"} => arg[w] \notin Futures
  /\ \A th, oh \in Threads :
       pc[th] = "enqueue" /\ pc[oh] = "enqueue" /\ arg[th] = arg[oh] => th = oh
  /\ \A i \in 1..Len(tasks) : stage[tasks[i]] = "accepted"
  /\ \A w \in Workers : active[w] # NoTask => stage[active[w]] = "accepted"

\* How far a task got, by where it is.
ProgressByPlace ==
  /\ \A t \in Tasks : stage[t] # "accepted" => terminal[t] = "None"
  /\ \A i \in 1..Len(tasks) : terminal[tasks[i]] = "None"
  /\ \A w \in Workers : pc[w] \in Deciding => terminal[active[w]] = "None"
  /\ \A w \in Workers : pc[w] = "deliver" =>
       terminal[active[w]] # "None" /\ delivered[active[w]] = 0
  /\ \A w \in Workers : pc[w] \in Reporting => delivered[active[w]] = 1
  /\ \A t \in Tasks : delivered[t] \in {0, 1}
  /\ \A t \in Tasks : terminal[t] = "None" => delivered[t] = 0

\* An accepted task is queued, with a worker, or done: none is dropped.
NoneLost ==
  \A t \in Tasks : stage[t] = "accepted" =>
    \/ \E i \in 1..Len(tasks) : tasks[i] = t
    \/ \E w \in Workers : active[w] = t
    \/ delivered[t] = 1

\* What the handle says at each point of a task's life.
HandleAgrees ==
  /\ \A t \in Tasks : terminal[t] = "None" =>
       IF t \in cancelWon THEN lifecycle[t] = "CancellationRequested"
                          ELSE lifecycle[t] = "Active"
  /\ \A t \in Tasks : terminal[t] \in {"Success", "Failed"} =>
       lifecycle[t] = "Completed" /\ t \notin cancelWon
  /\ \A t \in Tasks : terminal[t] = "Cancelled" =>
       lifecycle[t] # "Active" /\ (t \in cancelWon \/ ForeignCancellation)
  /\ \A t \in Tasks : stage[t] = "new" => t \notin cancelWon
  /\ \A w \in Workers : pc[w] = "unwind" =>
       active[w] \in cancelWon \/ ForeignCancellation
  /\ \A w \in Workers : pc[w] = "unwindActive" => ForeignCancellation

\* What a shutdown has reached so far.
ShutdownProgress ==
  /\ stopping => \A i \in 1..Len(tasks) : lifecycle[tasks[i]] # "Active"
  /\ stopping => \A w \in Workers : active[w] # NoTask => lifecycle[active[w]] # "Active"
  /\ \A w \in Workers : pc[w] = "exited" => stopping /\ tasks = <<>>
  /\ \A c \in Clients : pc[c] = "publish" => \A w \in Workers : pc[w] = "exited"
  /\ terminated => \A w \in Workers : pc[w] = "exited"
  /\ \A w \in Workers : w \in workerIds <=> pc[w] \notin {"start", "exited"}

\* activeTasks_ counts the workers that have a task.
CounterAgrees == activeTasks = Cardinality({w \in Workers : active[w] # NoTask})

\* The conjunction that every step preserves; CancelDecides, ShutdownCancels-
\* Outstanding and TerminationIsComplete follow from it.
IInv ==
  /\ TypeOK /\ OneOwner /\ ProgressByPlace /\ NoneLost
  /\ HandleAgrees /\ ShutdownProgress /\ CounterAgrees

----------------------------------------------------------------------------
(***************************************************************************)
(* Wake-ups.  Every wait of the scheduler is woken by a notification that   *)
(* another thread makes after its own critical section: between the two    *)
(* the waiter relies on that thread, and with notify_one on the number of  *)
(* threads that were woken before it.                                      *)
(***************************************************************************)
At(point) == {th \in Threads : pc[th] = point}
Looking == {w \in Workers : pc[w] = "loop"} \ waitTask   \* will evaluate taskAvailable_ again
Entering == At("enqueue") \ waitSpace                     \* will evaluate queueSpaceAvailable_ again

\* Where a parked thread is, what it has left behind, and which threads are
\* between a shutdown's critical section and the end of the call.
WaitersInPlace ==
  /\ \A w \in waitTask : pc[w] = "loop"
  /\ \A th \in waitSpace : pc[th] = "enqueue"
  /\ \A c \in waitIdle : pc[c] \in {"idleWait", "termWait"}
  /\ \A w \in Workers : pc[w] = "enqueue" => CallbacksSubmit
  /\ \A th \in Threads : pc[th] \in {"notifyTask", "await"} => stage[arg[th]] = "accepted"
  /\ \A th \in Threads :
       pc[th] \in {"notifyWorkers", "notifySubmitters", "stopped", "termination",
                  "termWait", "join", "publish"} => stopping
  /\ \A c \in Clients : pc[c] = "termWait" => joining \/ terminated
  /\ joining => \E c \in Clients : pc[c] \in {"join", "publish"}

\* A worker sleeps only while as many others are on their way to tasks_ as it
\* holds tasks.
WorkersAreWoken ==
  waitTask # {} => Len(tasks) <= Cardinality(Looking) + Cardinality(At("notifyTask"))

\* A submitter sleeps only while as many others are about to enter as there is space.
SubmittersAreWoken ==
  waitSpace # {} /\ ~stopping => MaximumQueuedTasks <= Len(tasks) + Cardinality(Entering)

\* Neither sleeps through a shutdown that will not wake it any more.
ShutdownWakesAll ==
  stopping =>
    /\ waitTask # {} => At("notifyWorkers") # {}
    /\ waitSpace # {} => At("notifyWorkers") \cup At("notifySubmitters") # {}

\* waitUntilIdle sleeps only while the pool is busy, awaitTermination only until
\* the owner that published termination has notified.
IdleIsAnnounced ==
  \A c \in waitIdle : IF pc[c] = "idleWait" THEN ~Quiet ELSE terminated => At("notifyIdle") # {}

\* No thread sleeps on a condition that already holds unless a thread that will
\* see to it is under way.
NoWakeUpIsLost ==
  WorkersAreWoken /\ SubmittersAreWoken /\ ShutdownWakesAll /\ IdleIsAnnounced

\* A thread that has nothing to do until another one moves.
Blocked(th) ==
  \/ th \in waitTask \cup waitSpace \cup waitIdle
  \/ pc[th] \in {"ready", "exited"}
  \/ pc[th] = "await" /\ delivered[arg[th]] = 0
  \/ pc[th] = "join" /\ \E w \in Workers : pc[w] # "exited"

\* A call that has not returned, or a task that has not reported.
Unfinished ==
  \/ \E c \in Clients : pc[c] # "ready"
  \/ \E t \in Tasks : stage[t] = "accepted" /\ delivered[t] = 0

\* Every worker is inside a completion whose own submission waits for space.
Jammed == CallbacksSubmit /\ Workers \subseteq waitSpace /\ ~HasSpace /\ ~stopping

\* While anything is unfinished some thread can go on, unless every worker waits
\* in enqueue for the space that only a worker can make: that is the one deadlock
\* of the pool, and a pool whose completions do not submit has none.
OnlyCompletionsJam == Unfinished => Jammed \/ \E th \in Threads : ~Blocked(th)

----------------------------------------------------------------------------
\* The pool implements the contract: the state a submitter can observe of a task,
\* read off its submission stage, its terminal state and its handle.
ObservedStatus(t) ==
  IF stage[t] = "new" THEN "new"
  ELSE IF stage[t] = "rejected" THEN "refused"
  ELSE IF terminal[t] # "None" THEN terminal[t]
  ELSE IF lifecycle[t] = "Active" THEN "pending" ELSE "cancelling"

Operations == INSTANCE AsyncOperation
  WITH SelfCancelling <- ForeignCancellation,
       status  <- [t \in Tasks |-> ObservedStatus(t)],
       reports <- delivered

\* Exactly one terminal state per accepted task, decided between cancel() and
\* completion by the handle, never changed and reported once.
ImplementsContract == Operations!Spec

\* What a user sees of the pool.  ExecutionEngine takes it for granted.
Pool == INSTANCE WorkPool
  WITH Bound <- MaximumQueuedTasks, waiting <- tasks, held <- active,
       gone <- {w \in Workers : pc[w] = "exited"}

\* Tasks are taken in the order in which they were accepted, each by one worker that has no
\* other; none is accepted once the pool stops, and no worker ends before they are worked off.
ImplementsPool == Pool!Spec

Unordered == INSTANCE UnorderedPool
  WITH waiting <- Queued, held <- active, gone <- {w \in Workers : pc[w] = "exited"}

\* What NativeRuntime relies on: a task is accepted at most once, is then in the queue or with
\* one worker until it is over, and a worker ends only if the queue is empty.
ImplementsUnordered == Unordered!Spec

=============================================================================
