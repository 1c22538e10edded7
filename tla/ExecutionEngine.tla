---------------------------- MODULE ExecutionEngine ----------------------------
(***************************************************************************)
(* One run of a program by the CLI (src/runtime/ExecutionEngine.cpp) and   *)
(* the part of IrInterpreter.cpp that decides which thread executes a      *)
(* function: inline, fire-and-forget, or submitted and awaited.            *)
(*                                                                         *)
(* A thread is a stack of activations.  The main thread evaluates the      *)
(* global initializers and then the top-level expressions, which the       *)
(* pseudo-function Program holds in that order; a worker executes one task *)
(* of the pool at a time.  A statement is a call of a function, the        *)
(* builtin assert, or Work: whatever else it evaluates, which may fail.    *)
(* An if-branch that is not taken skips a statement, a return ends the     *)
(* activation early, and an exception unwinds the whole stack, for the     *)
(* language catches none.                                                  *)
(*                                                                         *)
(* Submitting, popping, idling and stopping are single steps here; the     *)
(* critical sections and wake-ups behind them are those of TaskScheduler.  *)
(* Nobody but the shutdown holds a handle of a task, so that a running or  *)
(* queued task is cancelled exactly when the pool is stopping.             *)
(***************************************************************************)
EXTENDS Naturals, Sequences

CONSTANTS
  Workers, Main,      \* the threads
  Functions,          \* functions_
  Policy,             \* "Sync", "Async" or "AsyncAfter" for each function
  Body,               \* the statements of each function
  TopLevel,           \* the initializers and top-level expressions, in order
  Initializers,       \* how many of them initialize globals
  MaximumCallDepth,   \* 1024 in the code
  MaximumQueuedTasks, \* the bound of the queue
  Program, NoTask, Nobody

Assertion == "assert"
Work == "work"
Statements == Functions \cup {Assertion, Work}
Threads == Workers \cup {Main}

ASSUME MainIsNoWorker == Main \notin Workers
ASSUME BuiltinsAreNoFunctions == {Assertion, Work} \cap Functions = {}
ASSUME ProgramIsNoFunction == Program \notin Functions
ASSUME PoliciesGiven == Policy \in [Functions -> {"Sync", "Async", "AsyncAfter"}]
ASSUME BodiesGiven == Body \in [Functions -> Seq(Statements)]
ASSUME TopLevelGiven == TopLevel \in Seq(Statements)
ASSUME InitializersComeFirst == Initializers \in 0..Len(TopLevel)
ASSUME DepthPositive == MaximumCallDepth \in Nat \ {0}
ASSUME QueuePositive == MaximumQueuedTasks \in Nat \ {0}
ASSUME NobodyIsNoThread == Nobody \notin Threads

VARIABLES
  mode,        \* "run" or "test"
  phase,       \* of the main thread: "executing", "idling", "checking",
               \* "unwinding", "stopping", "joining" or "ended"
  interpreter, \* TRUE until the IrInterpreter is destroyed
  stack,       \* the activations of each thread, the newest last
  queue,       \* tasks_ of the pool
  worker,      \* "idle", "popped", "running", "finished" or "exited"
  task,        \* the task a worker executes
  future,      \* of each thread: the state of the future it awaits
  stopping,    \* stopping_ of the pool
  assertions,  \* assertionCount_
  outcome,     \* how execute ends: "none", "success" or "failure"
  failures     \* what has failed so far, and on whose behalf (history)

poolVars == <<queue, worker, task, stopping>>
vars == <<mode, phase, interpreter, stack, poolVars, future, assertions, outcome, failures>>

Frames == [function : Functions \cup {Program}, at : Nat \ {0}, depth : Nat]
Tasks == [function : Functions, depth : Nat, waiter : Threads \cup {Nobody}]
ASSUME NoTaskIsNoTask == NoTask \notin Tasks
Ends == {"success", "failed", "cancelled"}
Failures == {"caller", "awaited", "detached"} \X {Assertion, Work}

Top(t) == stack[t][Len(stack[t])]
Code(function) == IF function = Program THEN TopLevel ELSE Body[function]
Advanced(frames) == [frames EXCEPT ![Len(frames)].at = @ + 1]
Activation(f, d) == [function |-> f, at |-> 1, depth |-> d]

\* The thread t is about to execute the statement s.
Awaiting(t) == future[t] # "none"
Executing(t) ==
  /\ stack[t] # <<>> /\ ~Awaiting(t)
  /\ t = Main => phase = "executing"
At(t, s) ==
  /\ Executing(t)
  /\ Top(t).at <= Len(Code(Top(t).function))
  /\ s = Code(Top(t).function)[Top(t).at]

(***************************************************************************)
(* What the code branches on and computes, some preceded by a faulty form. *)
(***************************************************************************)
\* isWorkerThread: nested work runs inline.
NeverWorker(t) == FALSE
IsWorkerThread(t) == t \in Workers

\* invokeFunction: the depth at which it gives up, and the cancellation it asks
\* about.  Only the handle of a task can be cancelled.
TooDeep(d) == d >= MaximumCallDepth
CancellationRequested(t) == t \in Workers /\ stopping

\* evaluate, and the lambdas of invokeScheduledFunction: the depth a callee
\* starts at, on the same thread or another.
CalleeDepth(t) == Top(t).depth + 1

\* waitUntilIdle.
QueueIsEmpty == queue = <<>>
Idle == queue = <<>> /\ \A w \in Workers : worker[w] \in {"idle", "exited"}

\* The states of an awaited future after which the caller goes on.
AnyEnd == Ends
GoodEnds == {"success"}

(***************************************************************************)
(* A failure unwinds a whole stack.  On the main thread it leaves execute  *)
(* at once; on a worker runTask turns it into the state of the task.       *)
(***************************************************************************)
Behalf(t) ==
  IF t = Main THEN "caller" ELSE IF task[t].waiter = Nobody THEN "detached" ELSE "awaited"

\* The end of worker w's task reaches the future of the thread that awaits it, if one
\* does; w itself awaits nothing any more.
Publish(w, end) ==
  /\ worker' = [worker EXCEPT ![w] = "finished"]
  /\ stack' = [stack EXCEPT ![w] = <<>>]
  /\ future' = [t \in Threads |->
                  IF t = task[w].waiter THEN end ELSE IF t = w THEN "none" ELSE future[t]]

\* runTask: a failure after a cancellation is a cancellation.
Fail(t, what) ==
  /\ failures' = failures \cup {<<Behalf(t), what>>}
  /\ IF t = Main
     THEN /\ stack' = [stack EXCEPT ![t] = <<>>]
          /\ phase' = "unwinding" /\ outcome' = "failure"
          /\ future' = [future EXCEPT ![t] = "none"]
          /\ UNCHANGED worker
     ELSE /\ Publish(t, IF stopping THEN "cancelled" ELSE "failed")
          /\ UNCHANGED <<phase, outcome>>
  /\ UNCHANGED <<mode, interpreter, queue, task, stopping>>

Cancelled(w) ==
  /\ Publish(w, "cancelled")
  /\ UNCHANGED <<mode, phase, interpreter, queue, task, stopping, assertions, outcome, failures>>

(***************************************************************************)
(* The interpreter.                                                        *)
(***************************************************************************)
\* A call that runs on the thread that makes it.
Inline(t, f) == Policy[f] = "Sync" \/ IsWorkerThread(t)

CallInline(t) ==
  \E f \in Functions :
    /\ At(t, f) /\ Inline(t, f)
    /\ ~TooDeep(CalleeDepth(t)) /\ ~CancellationRequested(t)
    /\ stack' = [stack EXCEPT ![t] = Append(Advanced(@), Activation(f, CalleeDepth(t)))]
    /\ UNCHANGED <<mode, phase, interpreter, poolVars, future, assertions, outcome, failures>>

CallTooDeep(t) ==
  \E f \in Functions :
    /\ At(t, f) /\ Inline(t, f) /\ TooDeep(CalleeDepth(t))
    /\ Fail(t, Work)
    /\ UNCHANGED assertions

CallCancelled(t) ==
  \E f \in Functions :
    /\ At(t, f) /\ Inline(t, f)
    /\ ~TooDeep(CalleeDepth(t)) /\ CancellationRequested(t)
    /\ Cancelled(t)

\* A call that goes to the pool, once the queue has room; @AsyncAfter awaits it.
Submit(t) ==
  \E f \in Functions :
    LET waiter == IF Policy[f] = "AsyncAfter" THEN t ELSE Nobody IN
    /\ At(t, f) /\ ~Inline(t, f)
    /\ Len(queue) < MaximumQueuedTasks
    /\ queue' = Append(queue, [function |-> f, depth |-> CalleeDepth(t), waiter |-> waiter])
    /\ stack' = [stack EXCEPT ![t] = Advanced(@)]
    /\ future' = IF waiter = t THEN [future EXCEPT ![t] = "pending"] ELSE future
    /\ UNCHANGED <<mode, phase, interpreter, worker, task, stopping, assertions, outcome,
                   failures>>

AwaitSucceeds(t) ==
  /\ future[t] \in GoodEnds
  /\ future' = [future EXCEPT ![t] = "none"]
  /\ UNCHANGED <<mode, phase, interpreter, stack, poolVars, assertions, outcome, failures>>

AwaitFails(t) ==
  /\ future[t] \in Ends \ GoodEnds
  /\ Fail(t, Work)
  /\ UNCHANGED assertions

AssertHolds(t) ==
  /\ At(t, Assertion) /\ mode = "test"
  /\ assertions' = assertions + 1
  /\ stack' = [stack EXCEPT ![t] = Advanced(@)]
  /\ UNCHANGED <<mode, phase, interpreter, poolVars, future, outcome, failures>>

AssertFails(t) ==
  /\ At(t, Assertion)
  /\ assertions' = IF mode = "test" THEN assertions + 1 ELSE assertions
  /\ Fail(t, Assertion)

WorkSucceeds(t) ==
  /\ At(t, Work)
  /\ stack' = [stack EXCEPT ![t] = Advanced(@)]
  /\ UNCHANGED <<mode, phase, interpreter, poolVars, future, assertions, outcome, failures>>

WorkFails(t) ==
  /\ At(t, Work)
  /\ Fail(t, Work)
  /\ UNCHANGED assertions

\* A branch that is not taken.
Skip(t) ==
  /\ Executing(t) /\ Top(t).function # Program
  /\ Top(t).at <= Len(Code(Top(t).function))
  /\ stack' = [stack EXCEPT ![t] = Advanced(@)]
  /\ UNCHANGED <<mode, phase, interpreter, poolVars, future, assertions, outcome, failures>>

\* A function returns: to its caller, or to runTask, which finds its handle open
\* or cancelled.
Return(t) ==
  /\ Executing(t) /\ Top(t).function # Program
  /\ IF Len(stack[t]) > 1
     THEN /\ stack' = [stack EXCEPT ![t] = SubSeq(@, 1, Len(@) - 1)]
          /\ UNCHANGED <<worker, future>>
     ELSE Publish(t, IF stopping THEN "cancelled" ELSE "success")
  /\ UNCHANGED <<mode, phase, interpreter, queue, task, stopping, assertions, outcome, failures>>

Interpret(t) ==
  \/ CallInline(t) \/ CallTooDeep(t) \/ CallCancelled(t) \/ Submit(t)
  \/ AwaitSucceeds(t) \/ AwaitFails(t)
  \/ AssertHolds(t) \/ AssertFails(t) \/ WorkSucceeds(t) \/ WorkFails(t)
  \/ Skip(t) \/ Return(t)

(***************************************************************************)
(* The workers.                                                            *)
(***************************************************************************)
Pop(w) ==
  /\ worker[w] = "idle" /\ queue # <<>>
  /\ task' = [task EXCEPT ![w] = Head(queue)]
  /\ queue' = Tail(queue)
  /\ worker' = [worker EXCEPT ![w] = "popped"]
  /\ UNCHANGED <<mode, phase, interpreter, stack, future, stopping, assertions, outcome, failures>>

\* runTask asks for a cancellation, invokeFunction for the depth and again.
BeginCancelled(w) ==
  /\ worker[w] = "popped" /\ CancellationRequested(w)
  /\ Cancelled(w)

BeginTooDeep(w) ==
  /\ worker[w] = "popped" /\ ~CancellationRequested(w) /\ TooDeep(task[w].depth)
  /\ Fail(w, Work)
  /\ UNCHANGED assertions

Begin(w) ==
  /\ worker[w] = "popped" /\ ~CancellationRequested(w) /\ ~TooDeep(task[w].depth)
  /\ worker' = [worker EXCEPT ![w] = "running"]
  /\ stack' = [stack EXCEPT ![w] = <<Activation(task[w].function, task[w].depth)>>]
  /\ UNCHANGED <<mode, phase, interpreter, queue, task, future, stopping, assertions, outcome,
                 failures>>

\* --activeTasks_, after the future is set.
Release(w) ==
  /\ worker[w] = "finished"
  /\ worker' = [worker EXCEPT ![w] = "idle"]
  /\ task' = [task EXCEPT ![w] = NoTask]
  /\ UNCHANGED <<mode, phase, interpreter, stack, queue, future, stopping, assertions, outcome,
                 failures>>

Exit(w) ==
  /\ worker[w] = "idle" /\ stopping /\ queue = <<>>
  /\ worker' = [worker EXCEPT ![w] = "exited"]
  /\ UNCHANGED <<mode, phase, interpreter, stack, queue, task, future, stopping, assertions,
                 outcome, failures>>

WorkerStep(w) ==
  Interpret(w) \/ Pop(w) \/ BeginCancelled(w) \/ BeginTooDeep(w) \/ Begin(w) \/ Release(w) \/ Exit(w)

(***************************************************************************)
(* ExecutionEngine::execute on the main thread.                            *)
(***************************************************************************)
\* interpreter.execute() has returned.
ProgramReturns ==
  /\ Executing(Main) /\ Top(Main).function = Program
  /\ Top(Main).at > Len(TopLevel)
  /\ stack' = [stack EXCEPT ![Main] = <<>>]
  /\ phase' = "idling"
  /\ UNCHANGED <<mode, interpreter, poolVars, future, assertions, outcome, failures>>

BecomesIdle ==
  /\ phase = "idling" /\ Idle
  /\ phase' = "checking"
  /\ UNCHANGED <<mode, interpreter, stack, poolVars, future, assertions, outcome, failures>>

CheckAssertions ==
  /\ phase = "checking"
  /\ phase' = "unwinding"
  /\ outcome' = IF mode = "test" /\ assertions = 0 THEN "failure" ELSE "success"
  /\ UNCHANGED <<mode, interpreter, stack, poolVars, future, assertions, failures>>

\* The locals of execute go in the reverse order of their declaration.
DestroyInterpreter ==
  /\ phase = "unwinding"
  /\ interpreter' = FALSE
  /\ phase' = "stopping"
  /\ UNCHANGED <<mode, stack, poolVars, future, assertions, outcome, failures>>

StopScheduler ==
  /\ phase = "stopping"
  /\ stopping' = TRUE
  /\ phase' = "joining"
  /\ UNCHANGED <<mode, interpreter, stack, queue, worker, task, future, assertions, outcome,
                 failures>>

JoinWorkers ==
  /\ phase = "joining" /\ \A w \in Workers : worker[w] = "exited"
  /\ phase' = "ended"
  /\ UNCHANGED <<mode, interpreter, stack, poolVars, future, assertions, outcome, failures>>

MainStep ==
  Interpret(Main) \/ ProgramReturns \/ BecomesIdle \/ CheckAssertions
  \/ DestroyInterpreter \/ StopScheduler \/ JoinWorkers

Init ==
  /\ mode \in {"run", "test"}
  /\ phase = "executing" /\ interpreter = TRUE
  /\ stack = [t \in Threads |-> IF t = Main THEN <<Activation(Program, 0)>> ELSE <<>>]
  /\ queue = <<>> /\ stopping = FALSE
  /\ worker = [w \in Workers |-> "idle"] /\ task = [w \in Workers |-> NoTask]
  /\ future = [t \in Threads |-> "none"]
  /\ assertions = 0 /\ outcome = "none" /\ failures = {}

Next == MainStep \/ \E w \in Workers : WorkerStep(w)

Spec == Init /\ [][Next]_vars

(***************************************************************************)
(* Every thread that can go on does; a statement ends because requests     *)
(* have timeouts and the language has no loops.                            *)
(***************************************************************************)
FairSpec == Spec /\ WF_vars(MainStep) /\ \A w \in Workers : WF_vars(WorkerStep(w))

(***************************************************************************)
(* Properties.                                                             *)
(***************************************************************************)
TypeOK ==
  /\ mode \in {"run", "test"}
  /\ phase \in {"executing", "idling", "checking", "unwinding", "stopping", "joining", "ended"}
  /\ interpreter \in BOOLEAN
  /\ stack \in [Threads -> Seq(Frames)]
  /\ queue \in Seq(Tasks)
  /\ worker \in [Workers -> {"idle", "popped", "running", "finished", "exited"}]
  /\ task \in [Workers -> Tasks \cup {NoTask}]
  /\ future \in [Threads -> {"none", "pending"} \cup Ends]
  /\ stopping \in BOOLEAN
  /\ assertions \in Nat
  /\ outcome \in {"none", "success", "failure"}
  /\ failures \subseteq Failures

\* Recursion is bounded across threads (MaximumCallDepth in invokeFunction): the
\* activations of a task and those of the caller that awaits it never exceed the
\* bound together, although each runs on a stack of its own.
RecursionIsBounded ==
  /\ \A t \in Threads : Len(stack[t]) <= MaximumCallDepth
  /\ \A w \in Workers : worker[w] = "running" /\ task[w].waiter # Nobody =>
       Len(stack[task[w].waiter]) + Len(stack[w]) <= MaximumCallDepth

\* A run that ends well has nothing left to execute: no task is queued, popped or
\* running when the assertions are counted and the interpreter destroyed.
SuccessIsQuiet ==
  outcome = "success" => /\ queue = <<>>
                         /\ \A w \in Workers : worker[w] \in {"idle", "exited"}

\* A run that ends well had no failure on behalf of the main thread: neither its
\* own, nor of a task it awaited, nor of the @Async functions nested in that task.
FailuresSurface ==
  outcome = "success" => \A f \in failures : f[1] = "detached"

\* Once the pool is stopping, no function of the program is entered any more, on
\* whatever stack.
StoppedEntersNothing ==
  [][stopping => \A t \in Threads : Len(stack'[t]) <= Len(stack[t])]_vars

\* Every run ends: no worker waits for a task that only a worker could execute.
ProgramEnds == <>(phase = "ended")

\* Each activation is one call deeper than the one below it, and the first one of a
\* task one deeper than the statement that submitted it; none is too deep.
Base(t) == IF t = Main THEN 0 ELSE task[t].depth
DepthsAgree ==
  \A t \in Threads : \A i \in 1..Len(stack[t]) :
    stack[t][i].depth = Base(t) + i - 1 /\ stack[t][i].depth < MaximumCallDepth

\* A worker has activations exactly while it runs a task, and exits only when the
\* pool stops.
WorkersAgree ==
  \A w \in Workers :
    /\ stack[w] # <<>> <=> worker[w] = "running"
    /\ worker[w] \in {"popped", "running", "finished"} => task[w] \in Tasks
    /\ worker[w] = "exited" => stopping /\ queue = <<>>

\* Only the main thread awaits, and one task at a time, which is queued or executed
\* once and starts where the main thread stands.
Entrusted(w) == worker[w] \in {"popped", "running"} /\ task[w].waiter # Nobody
AwaitAgrees ==
  /\ \A w \in Workers : future[w] = "none"
  /\ \A i \in 1..Len(queue) : queue[i].waiter # Nobody =>
       /\ queue[i].waiter = Main /\ future[Main] = "pending"
       /\ queue[i].depth = Len(stack[Main])
       /\ \A j \in 1..Len(queue) : queue[j].waiter # Nobody => j = i
       /\ \A w \in Workers : ~Entrusted(w)
  /\ \A w \in Workers : Entrusted(w) =>
       /\ task[w].waiter = Main /\ future[Main] = "pending"
       /\ task[w].depth = Len(stack[Main])
       /\ \A v \in Workers : Entrusted(v) => v = w

\* How far the main thread is, and what that says of everything else.
PhaseAgrees ==
  /\ phase = "executing" <=> stack[Main] # <<>>
  /\ stack[Main] # <<>> => stack[Main][1].function = Program
  /\ future[Main] # "none" => phase = "executing"
  /\ outcome = "none" <=> phase \in {"executing", "idling", "checking"}
  /\ interpreter <=> phase \notin {"stopping", "joining", "ended"}
  /\ stopping <=> phase \in {"joining", "ended"}
  /\ phase = "checking" \/ outcome = "success" =>
       queue = <<>> /\ \A w \in Workers : worker[w] \in {"idle", "exited"}

\* A failure on behalf of the main thread has ended the run or is about to.
FailuresAgree ==
  \A f \in failures : \/ f[1] = "detached" \/ outcome = "failure"
                      \/ f[1] = "awaited" /\ future[Main] = "failed"

\* initializeGlobalValues is not done: an initializer is still to be evaluated, or the last
\* one was and its global may still have to be declared.
Initializing == stack[Main] # <<>> /\ stack[Main][1].at <= Initializers + 1

\* The functions S hold all that the main thread may come to call in an initializer: a @Sync
\* function runs its calls on the main thread, an @AsyncAfter one on a worker.
CalledFromInitializers(S) ==
  /\ \A i \in 1..Initializers : TopLevel[i] \in Functions => TopLevel[i] \in S
  /\ \A f \in S : Policy[f] = "Sync" =>
       \A i \in 1..Len(Body[f]) : Body[f][i] \in Functions => Body[f][i] \in S
NeverAsync(S) == \A f \in S : Policy[f] # "Async"

\* globals_ has no lock: the main thread declares into it what the functions on the workers
\* resolve names in.  As long as no initializer starts an @Async function, no worker runs
\* one while the main thread initializes, unless the main thread awaits it.
GlobalsAreNotRaced ==
  (\E S \in SUBSET Functions : CalledFromInitializers(S) /\ NeverAsync(S)) =>
    \A w \in Workers : Initializing /\ worker[w] = "running" => future[Main] = "pending"

\* What the main thread calls in an initializer is one of S, and the pool has no task but
\* one that the main thread awaits.
InitializersAgree(S) ==
  Initializing =>
    /\ \A i \in 2..Len(stack[Main]) :
         stack[Main][i].function \in S /\ Policy[stack[Main][i].function] = "Sync"
    /\ \A i \in 1..Len(queue) : queue[i].waiter # Nobody
    /\ \A w \in Workers : worker[w] \in {"popped", "running"} => task[w].waiter # Nobody

\* The inductive invariant.
IInv ==
  /\ TypeOK
  /\ DepthsAgree
  /\ WorkersAgree
  /\ AwaitAgrees
  /\ PhaseAgrees
  /\ FailuresAgree

\* The pool of a run, as TaskScheduler implements it.
Holding(w) == IF worker[w] \in {"popped", "running", "finished"} THEN task[w] ELSE NoTask
Pool == INSTANCE WorkPool
  WITH Tasks <- [function : Functions, depth : 1..MaximumCallDepth, waiter : {Main, Nobody}],
       Bound <- MaximumQueuedTasks, waiting <- queue, held <- [w \in Workers |-> Holding(w)],
       gone <- {w \in Workers : worker[w] = "exited"}

\* A run uses its pool as one may: what it takes of a pool is what TaskScheduler implements,
\* nothing is submitted once the pool stops, and only the main thread ever awaits a task.
UsesPool == Pool!Spec

\* The interpreter outlives the tasks that execute its functions: "Scheduler
\* termination is awaited before [...] interpreter state [...] destroyed"
\* (docs/runtime/memory-ownership.md).
InterpreterOutlivesTasks ==
  ~interpreter => \A w \in Workers : stack[w] = <<>>

\* "a false condition fails the test" (docs/language/language-foundation.md).
FalseAssertionFails ==
  outcome = "success" => \A f \in failures : f[2] # Assertion
================================================================================
