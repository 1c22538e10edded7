------------------------- MODULE TaskSchedulerProofs -------------------------
(***************************************************************************)
(* Theorems about TaskScheduler for every number of workers, clients and   *)
(* tasks and every queue bound.  IInv is inductive: the lemmas of the      *)
(* first part show that each action preserves the conjuncts of Body, those *)
(* of the second that activeTasks_ keeps counting busy workers.  The        *)
(* safety properties and the refinement of AsyncOperation follow.          *)
(***************************************************************************)
EXTENDS TaskScheduler, FiniteSetTheorems, TLAPS

USE ThreadsDisjoint, WorkersFinite, QueueBoundPositive, NoTaskIsNoTask, KindsAreTasks,
    SwitchesAreBoolean
USE DEF Home, Goto, Threads, CallPoints, RunPoints, WorkerPoints, ClientPoints,
        Idle, Deciding, Reporting,
        HasSpace, Drained, Quiet, Pushed, Popped, Outstanding, CancellationRequested,
        ExchangesActive, ClosedFromActive,
        vars, handleVars, lockVars, waitVars, threadVars, taskVars

\* IInv without the counter, whose arithmetic of cardinalities is kept apart.
Body ==
  TypeOK /\ OneOwner /\ ProgressByPlace /\ NoneLost /\ HandleAgrees /\ ShutdownProgress

----------------------------------------------------------------------------
(* One lemma per action that moves a task, and one for each group of the   *)
(* others, whose obligations the provers discharge in one leaf each.       *)

\* A new submission only marks its task as being submitted.
LEMMA SubmitKeepsBody ==
  ASSUME NEW th \in Threads, NEW t \in Tasks, Body, Submit(th, t)
  PROVE  Body'
<1> USE DEF Body, Submit
<1>0. \A u \in Tasks : stage'[u] = "accepted" <=> stage[u] = "accepted" BY DEF TypeOK
<1>1. TypeOK' BY DEF TypeOK
<1>2. OneOwner' BY DEF TypeOK, OneOwner
<1>3. ProgressByPlace' BY <1>0 DEF TypeOK, OneOwner, ProgressByPlace
<1>4. NoneLost' BY <1>0 DEF NoneLost
<1>5. HandleAgrees' BY DEF TypeOK, HandleAgrees
<1>6. ShutdownProgress' BY DEF TypeOK, OneOwner, ShutdownProgress
<1> QED BY <1>1, <1>2, <1>3, <1>4, <1>5, <1>6 DEF Body

\* A refused submission leaves every accepted task where it is.
LEMMA EnqueueRejectKeepsBody ==
  ASSUME NEW th \in Threads, Body, EnqueueReject(th)
  PROVE  Body'
<1> USE DEF Body, EnqueueReject
<1>0. \A u \in Tasks : stage'[u] = "accepted" <=> stage[u] = "accepted" BY DEF TypeOK, OneOwner
<1>1. TypeOK' BY DEF TypeOK
<1>2. OneOwner' BY DEF TypeOK, OneOwner
<1>3. ProgressByPlace' BY <1>0 DEF TypeOK, OneOwner, ProgressByPlace
<1>4. NoneLost' BY <1>0 DEF NoneLost
<1>5. HandleAgrees' BY DEF TypeOK, HandleAgrees
<1>6. ShutdownProgress' BY DEF TypeOK, OneOwner, ShutdownProgress
<1> QED BY <1>1, <1>2, <1>3, <1>4, <1>5, <1>6 DEF Body

\* The accepted task goes to the last place of the queue, and nothing else moves.
LEMMA EnqueuePushKeepsBody ==
  ASSUME NEW th \in Threads, Body, EnqueuePush(th)
  PROVE  Body'
<1> USE DEF Body, EnqueuePush
<1> DEFINE t == arg[th]
<1>0. /\ t \in Tasks /\ stage[t] = "submitting" /\ terminal[t] = "None"
      /\ \A i \in 1..Len(tasks) : tasks[i] # t
      /\ \A w \in Workers : active[w] # t
  BY DEF TypeOK, OneOwner, ProgressByPlace
<1>a. /\ Len(tasks') = Len(tasks) + 1 /\ tasks'[Len(tasks) + 1] = t
      /\ \A i \in 1..Len(tasks) : tasks'[i] = tasks[i] /\ i \in 1..Len(tasks')
      /\ Len(tasks) + 1 \in 1..Len(tasks')
      /\ \A i \in 1..Len(tasks') : i \in 1..Len(tasks) \/ i = Len(tasks) + 1
  BY <1>0 DEF TypeOK
<1>b. \A u \in Tasks : stage'[u] = "accepted" <=> stage[u] = "accepted" \/ u = t BY <1>0 DEF TypeOK
<1>1. TypeOK' BY <1>0 DEF TypeOK
<1>2. OneOwner' BY <1>0, <1>a DEF TypeOK, OneOwner
<1>3. ProgressByPlace'
  <2>1. \A i \in 1..Len(tasks') : terminal'[tasks'[i]] = "None" BY <1>0, <1>a DEF ProgressByPlace
  <2>2. \A u \in Tasks : stage'[u] # "accepted" => terminal'[u] = "None" BY <1>b DEF ProgressByPlace
  <2> QED BY <2>1, <2>2 DEF TypeOK, ProgressByPlace
<1>4. NoneLost'
  <2> SUFFICES ASSUME NEW u \in Tasks, stage'[u] = "accepted"
               PROVE  \/ \E i \in 1..Len(tasks') : tasks'[i] = u
                      \/ \E w \in Workers : active'[w] = u
                      \/ delivered'[u] = 1
    BY DEF NoneLost
  <2>1. CASE u = t BY <1>a, <2>1
  <2>2. CASE u # t /\ \E i \in 1..Len(tasks) : tasks[i] = u BY <2>2, <1>a
  <2> QED BY <2>1, <2>2, <1>b DEF NoneLost
<1>5. HandleAgrees' BY DEF TypeOK, HandleAgrees
<1>6. ShutdownProgress' BY <1>0, <1>a DEF TypeOK, OneOwner, ShutdownProgress
<1> QED BY <1>1, <1>2, <1>3, <1>4, <1>5, <1>6 DEF Body

\* A submitter that has pushed wakes a worker and goes home, or awaits its future.
LEMMA EnqueueNotifyKeepsBody ==
  ASSUME NEW th \in Threads, Body, EnqueueNotify(th)
  PROVE  Body'
<1> USE DEF Body, EnqueueNotify
<1>0. waitTask' \subseteq Workers BY DEF TypeOK, Notified
<1>1. TypeOK' BY <1>0 DEF TypeOK, OneOwner
<1>2. OneOwner' BY DEF TypeOK, OneOwner
<1>3. ProgressByPlace' BY DEF TypeOK, OneOwner, ProgressByPlace
<1>4. NoneLost' BY DEF NoneLost
<1>5. HandleAgrees' BY DEF TypeOK, HandleAgrees
<1>6. ShutdownProgress' BY DEF TypeOK, OneOwner, ShutdownProgress
<1> QED BY <1>1, <1>2, <1>3, <1>4, <1>5, <1>6 DEF Body

\* The joining owner publishes termination after every worker has ended.
LEMMA PublishTerminationKeepsBody ==
  ASSUME NEW c \in Clients, Body, PublishTermination(c)
  PROVE  Body'
<1> USE DEF Body, PublishTermination
<1>1. TypeOK' BY DEF TypeOK
<1>2. OneOwner' BY DEF TypeOK, OneOwner
<1>3. ProgressByPlace' BY DEF TypeOK, OneOwner, ProgressByPlace
<1>4. NoneLost' BY DEF NoneLost
<1>5. HandleAgrees' BY DEF TypeOK, HandleAgrees
<1>6. ShutdownProgress' BY DEF TypeOK, OneOwner, ShutdownProgress
<1> QED BY <1>1, <1>2, <1>3, <1>4, <1>5, <1>6 DEF Body

\* The head of the queue moves to the worker's entry of activeHandles_ in one section.
LEMMA WorkerPopKeepsBody ==
  ASSUME NEW w \in Workers, Body, WorkerPop(w)
  PROVE  Body'
<1> USE DEF Body, WorkerPop
<1>0. /\ Head(tasks) = tasks[1] /\ tasks[1] \in Tasks /\ 1 \in 1..Len(tasks)
      /\ Len(tasks') = Len(tasks) - 1
      /\ \A i \in 1..Len(tasks') : i + 1 \in 1..Len(tasks) /\ tasks'[i] = tasks[i + 1]
      /\ \A i \in 1..Len(tasks) : i = 1 \/ (i - 1 \in 1..Len(tasks') /\ tasks'[i - 1] = tasks[i])
  BY DEF TypeOK
<1>a. waitSpace' \subseteq Threads BY DEF TypeOK, Notified
<1>b. active[w] = NoTask BY DEF TypeOK, OneOwner
<1>c. active'[w] = tasks[1] /\ \A v \in Workers : v # w => active'[v] = active[v] BY <1>0 DEF TypeOK
<1>1. TypeOK' BY <1>0, <1>a DEF TypeOK
<1>2. OneOwner'
  <2>1. \A i, j \in 1..Len(tasks') : tasks'[i] = tasks'[j] => i = j BY <1>0 DEF TypeOK, OneOwner
  <2>2. \A i \in 1..Len(tasks') : tasks'[i] # tasks[1] BY <1>0 DEF TypeOK, OneOwner
  <2> QED BY <1>0, <1>b, <2>1, <2>2 DEF TypeOK, OneOwner
<1>3. ProgressByPlace'
  <2>1. terminal[tasks[1]] = "None" BY <1>0 DEF ProgressByPlace
  <2>2. \A i \in 1..Len(tasks') : terminal'[tasks'[i]] = "None" BY <1>0 DEF ProgressByPlace
  <2> QED BY <1>0, <2>1, <2>2 DEF TypeOK, ProgressByPlace
<1>4. NoneLost'
  <2> SUFFICES ASSUME NEW u \in Tasks, stage[u] = "accepted"
               PROVE  \/ \E i \in 1..Len(tasks') : tasks'[i] = u
                      \/ \E v \in Workers : active'[v] = u
                      \/ delivered'[u] = 1
    BY DEF NoneLost
  <2>1. CASE \E i \in 1..Len(tasks) : tasks[i] = u BY <2>1, <1>0, <1>c
  <2>2. CASE \E v \in Workers : active[v] = u BY <2>2, <1>b, <1>c
  <2> QED BY <2>1, <2>2 DEF NoneLost
<1>5. HandleAgrees' BY DEF TypeOK, HandleAgrees
<1>6. ShutdownProgress' BY <1>0 DEF TypeOK, OneOwner, ShutdownProgress
<1> QED BY <1>1, <1>2, <1>3, <1>4, <1>5, <1>6 DEF Body

\* The worker drops its entry, after its task reported.
LEMMA WorkerFinishKeepsBody ==
  ASSUME NEW w \in Workers, Body, activeTasks - 1 \in Nat, WorkerFinish(w)
  PROVE  Body'
<1> USE DEF Body, WorkerFinish
<1>0. active'[w] = NoTask /\ \A v \in Workers : v # w => active'[v] = active[v] BY DEF TypeOK
<1>1. TypeOK' BY DEF TypeOK
<1>2. OneOwner' BY DEF TypeOK, OneOwner
<1>3. ProgressByPlace' BY DEF TypeOK, ProgressByPlace
<1>4. NoneLost'
  <2> SUFFICES ASSUME NEW u \in Tasks, stage[u] = "accepted"
               PROVE  \/ \E i \in 1..Len(tasks') : tasks'[i] = u
                      \/ \E v \in Workers : active'[v] = u
                      \/ delivered'[u] = 1
    BY DEF NoneLost
  <2>1. CASE active[w] = u BY <2>1 DEF ProgressByPlace
  <2>2. CASE \E v \in Workers : v # w /\ active[v] = u BY <2>2, <1>0
  <2> QED BY <2>1, <2>2 DEF NoneLost
<1>5. HandleAgrees' BY DEF TypeOK, HandleAgrees
<1>6. ShutdownProgress' BY DEF TypeOK, OneOwner, ShutdownProgress
<1> QED BY <1>1, <1>2, <1>3, <1>4, <1>5, <1>6 DEF Body

\* The one report of a task, made by the one worker that has it.
LEMMA DeliverKeepsBody ==
  ASSUME NEW w \in Workers, Body, Deliver(w)
  PROVE  Body'
<1> USE DEF Body, Deliver
<1>n. active[w] # NoTask BY DEF OneOwner
<1>t. active[w] \in Tasks BY <1>n DEF TypeOK
<1>u. terminal[active[w]] # "None" /\ delivered[active[w]] = 0 BY DEF ProgressByPlace
<1>0. /\ delivered'[active[w]] = 1
      /\ \A u \in Tasks : u # active[w] => delivered'[u] = delivered[u]
  BY <1>t, <1>u DEF TypeOK
<1>1. TypeOK' BY <1>t, <1>u DEF TypeOK
<1>2. OneOwner' BY DEF TypeOK, OneOwner
<1>3. ProgressByPlace'
  <2>1. \A v \in Workers : v # w /\ pc[v] \notin Idle => active[v] # active[w] /\ active[v] \in Tasks
    BY DEF TypeOK, OneOwner
  <2>3. \A v \in Workers : pc'[v] = "deliver" => terminal'[active'[v]] # "None" /\ delivered'[active'[v]] = 0
    <3> SUFFICES ASSUME NEW v \in Workers, pc'[v] = "deliver"
                 PROVE  terminal[active[v]] # "None" /\ delivered'[active[v]] = 0
      OBVIOUS
    <3>1. v # w /\ pc[v] = "deliver" BY DEF TypeOK
    <3>2. active[v] # active[w] /\ active[v] \in Tasks BY <2>1, <3>1
    <3> QED BY <1>0, <3>1, <3>2 DEF ProgressByPlace
  <2>4. \A v \in Workers : pc'[v] \in Reporting => delivered'[active'[v]] = 1
    BY <1>0, <2>1 DEF TypeOK, ProgressByPlace
  <2>5. \A v \in Workers : pc'[v] \in Deciding => terminal'[active'[v]] = "None"
    BY <1>0, <2>1 DEF TypeOK, ProgressByPlace
  <2> QED BY <1>t, <1>u, <1>0, <2>3, <2>4, <2>5 DEF TypeOK, ProgressByPlace
<1>4. NoneLost' BY <1>0, <1>t DEF NoneLost
<1>5. HandleAgrees' BY DEF TypeOK, HandleAgrees
<1>6. ShutdownProgress' BY DEF TypeOK, OneOwner, ShutdownProgress
<1> QED BY <1>1, <1>2, <1>3, <1>4, <1>5, <1>6 DEF Body

\* cancel() moves a handle out of Active and records that it won.
LEMMA CancelKeepsBody ==
  ASSUME NEW th \in Threads, NEW t \in Tasks, Body, Cancel(th, t)
  PROVE  Body'
BY SMTT(90) DEF Body, TypeOK, OneOwner, ProgressByPlace, NoneLost, HandleAgrees,
                ShutdownProgress, Cancel

\* The remaining steps of a call.
LEMMA CallStepsKeepBody ==
  ASSUME NEW th \in Threads, Body,
         \/ EnqueueWait(th)
         \/ RequestShutdown(th)
         \/ RepeatShutdown(th)
         \/ NotifyWorkers(th)
         \/ NotifySubmitters(th)
         \/ ShutdownCheck(th)
  PROVE  Body'
<1>2. CASE RequestShutdown(th)
  <2> USE <1>2 DEF Body, RequestShutdown
  <2>1. TypeOK' BY DEF TypeOK, Queued, Running
  <2>2. OneOwner' BY DEF TypeOK, OneOwner
  <2>3. ProgressByPlace' BY DEF TypeOK, ProgressByPlace, OneOwner, HandleAgrees, Queued, Running
  <2>4. NoneLost' BY DEF NoneLost
  <2>5. HandleAgrees' BY DEF TypeOK, HandleAgrees, ProgressByPlace, OneOwner, Queued, Running
  <2>6. ShutdownProgress' BY DEF TypeOK, ShutdownProgress, OneOwner, Queued, Running
  <2> QED BY <2>1, <2>2, <2>3, <2>4, <2>5, <2>6
<1> USE DEF Body, TypeOK, OneOwner, ProgressByPlace, NoneLost, HandleAgrees, ShutdownProgress
<1>1. CASE EnqueueWait(th) BY SMTT(90), <1>1 DEF EnqueueWait
<1>3. CASE RepeatShutdown(th) BY SMTT(90), <1>3 DEF RepeatShutdown
<1>4. CASE NotifyWorkers(th) BY SMTT(90), <1>4 DEF NotifyWorkers
<1>5. CASE NotifySubmitters(th) BY SMTT(90), <1>5 DEF NotifySubmitters
<1>6. CASE ShutdownCheck(th) BY SMTT(90), <1>6 DEF ShutdownCheck
<1> QED BY <1>1, <1>2, <1>3, <1>4, <1>5, <1>6

\* The remaining steps of await, awaitTermination and waitUntilIdle.
LEMMA ClientStepsKeepBody ==
  ASSUME NEW c \in Clients, Body,
         \/ Await(c)
         \/ AlreadyTerminated(c)
         \/ AwaitOwner(c)
         \/ BecomeOwner(c)
         \/ JoinWorkers(c)
         \/ NotifyIdle(c)
         \/ WaitUntilIdle(c)
         \/ IdleWait(c)
         \/ IdleReached(c)
  PROVE  Body'
<1> USE DEF Body, TypeOK, OneOwner, ProgressByPlace, NoneLost, HandleAgrees, ShutdownProgress
<1>1. CASE Await(c) BY SMTT(90), <1>1 DEF Await
<1>2. CASE AlreadyTerminated(c) BY SMTT(90), <1>2 DEF AlreadyTerminated
<1>3. CASE AwaitOwner(c) BY SMTT(90), <1>3 DEF AwaitOwner
<1>4. CASE BecomeOwner(c) BY SMTT(90), <1>4 DEF BecomeOwner
<1>5. CASE JoinWorkers(c) BY SMTT(90), <1>5 DEF JoinWorkers
<1>6. CASE NotifyIdle(c) BY SMTT(90), <1>6 DEF NotifyIdle
<1>7. CASE WaitUntilIdle(c) BY SMTT(90), <1>7 DEF WaitUntilIdle
<1>8. CASE IdleWait(c) BY SMTT(90), <1>8 DEF IdleWait
<1>9. CASE IdleReached(c) BY SMTT(90), <1>9 DEF IdleReached
<1> QED BY <1>1, <1>2, <1>3, <1>4, <1>5, <1>6, <1>7, <1>8, <1>9

\* The remaining steps of workerLoop.
LEMMA LoopStepsKeepBody ==
  ASSUME NEW w \in Workers, Body,
         \/ WorkerStart(w)
         \/ WorkerWait(w)
         \/ WorkerExit(w)
  PROVE  Body'
<1> USE DEF Body, TypeOK, OneOwner, ProgressByPlace, NoneLost, HandleAgrees, ShutdownProgress
<1>1. CASE WorkerStart(w) BY SMTT(90), <1>1 DEF WorkerStart
<1>2. CASE WorkerWait(w) BY SMTT(90), <1>2 DEF WorkerWait
<1>3. CASE WorkerExit(w) BY SMTT(90), <1>3 DEF WorkerExit
<1> QED BY <1>1, <1>2, <1>3

\* The steps of runTask and the end of a completion.
LEMMA RunStepsKeepBody ==
  ASSUME NEW w \in Workers, Body,
         \/ SkipBody(w)
         \/ EnterBody(w)
         \/ BodyReturns(w)
         \/ BodyCancelled(w)
         \/ TryComplete(w)
         \/ CompleteTooLate(w)
         \/ CompleteCancellation(w)
         \/ NothingToCancel(w)
         \/ CompleteUncancelled(w)
         \/ CallbackReturns(w)
  PROVE  Body'
<1> USE DEF Body, TypeOK, OneOwner, ProgressByPlace, NoneLost, HandleAgrees, ShutdownProgress
<1>1. CASE SkipBody(w) BY SMTT(90), <1>1 DEF SkipBody
<1>2. CASE EnterBody(w) BY SMTT(90), <1>2 DEF EnterBody
<1>3. CASE BodyReturns(w) BY SMTT(90), <1>3 DEF BodyReturns
<1>4. CASE BodyCancelled(w) BY SMTT(90), <1>4 DEF BodyCancelled
<1>5. CASE TryComplete(w)
  <2> USE <1>5 DEF TryComplete
  <2>0. active[w] # NoTask OBVIOUS
  <2>t. active[w] \in Tasks BY <2>0
  <2>o. \A v \in Workers : v # w => active[v] # active[w] BY <2>0
  <2>1. TypeOK' BY <2>t
  <2>2. OneOwner' OBVIOUS
  <2>3. ProgressByPlace' BY <2>t, <2>o
  <2>4. NoneLost' OBVIOUS
  <2>5. HandleAgrees' BY <2>t, <2>o
  <2>6. ShutdownProgress' BY <2>t
  <2> QED BY <2>1, <2>2, <2>3, <2>4, <2>5, <2>6
<1>6. CASE CompleteTooLate(w) BY SMTT(30), <1>6 DEF CompleteTooLate
<1>7. CASE CompleteCancellation(w) BY SMTT(30), <1>7 DEF CompleteCancellation
<1>8. CASE NothingToCancel(w) BY SMTT(30), <1>8 DEF NothingToCancel
<1>9. CASE CompleteUncancelled(w) BY SMTT(30), <1>9 DEF CompleteUncancelled
<1>10. CASE CallbackReturns(w) BY SMTT(60), <1>10 DEF CallbackReturns
<1> QED BY <1>1, <1>2, <1>3, <1>4, <1>5, <1>6, <1>7, <1>8, <1>9, <1>10

----------------------------------------------------------------------------
(* The counter.                                                            *)

Busy == {w \in Workers : active[w] # NoTask}

\* A worker that takes a task is one more busy worker.
LEMMA PopCounts ==
  ASSUME NEW w \in Workers, Body, CounterAgrees, WorkerPop(w)
  PROVE  CounterAgrees'
<1>0. active \in [Workers -> Tasks \cup {NoTask}] /\ active[w] = NoTask /\ Head(tasks) \in Tasks
  BY DEF Body, TypeOK, OneOwner, WorkerPop
<1>1. Busy' = Busy \cup {w} BY <1>0 DEF Busy, WorkerPop
<1>2. w \notin Busy BY <1>0 DEF Busy
<1>3. IsFiniteSet(Busy) BY FS_Subset DEF Busy
<1>4. Cardinality(Busy') = Cardinality(Busy) + 1 BY <1>1, <1>2, <1>3, FS_AddElement
<1> QED BY <1>4 DEF CounterAgrees, Busy, WorkerPop

\* A worker that drops its task is one busy worker less, and there was one.
LEMMA FinishCounts ==
  ASSUME NEW w \in Workers, Body, CounterAgrees, WorkerFinish(w)
  PROVE  activeTasks - 1 \in Nat /\ CounterAgrees'
<1>0. active \in [Workers -> Tasks \cup {NoTask}] /\ active[w] # NoTask /\ activeTasks \in Nat
  BY DEF Body, TypeOK, OneOwner, WorkerFinish
<1>1. Busy' = Busy \ {w} BY <1>0 DEF Busy, WorkerFinish
<1>2. w \in Busy BY <1>0 DEF Busy
<1>3. IsFiniteSet(Busy) BY FS_Subset DEF Busy
<1>4. Cardinality(Busy') = Cardinality(Busy) - 1 BY <1>1, <1>2, <1>3, FS_RemoveElement
<1>5. Cardinality(Busy') \in Nat BY <1>1, <1>3, FS_CardinalityType, FS_RemoveElement
<1> QED BY <1>0, <1>4, <1>5 DEF CounterAgrees, Busy, WorkerFinish

\* No other step changes activeHandles_ or activeTasks_.
LEMMA OthersKeepCount ==
  ASSUME CounterAgrees, UNCHANGED <<active, activeTasks>>
  PROVE  CounterAgrees'
BY DEF CounterAgrees

----------------------------------------------------------------------------
(* Induction.                                                              *)

LEMMA InitEstablishes == Init => IInv
<1> SUFFICES ASSUME Init PROVE IInv OBVIOUS
<1>1. {w \in Workers : active[w] # NoTask} = {} BY DEF Init
<1>2. CounterAgrees BY <1>1, FS_EmptySet DEF Init, CounterAgrees
<1>3. TypeOK
  <2>1. tasks \in Seq(Tasks) /\ Len(tasks) <= MaximumQueuedTasks BY DEF Init
  <2>2. /\ pc \in [Threads -> WorkerPoints \cup ClientPoints]
        /\ \A w \in Workers : pc[w] \in WorkerPoints
        /\ \A c \in Clients : pc[c] \in ClientPoints
    BY DEF Init
  <2> QED BY <2>1, <2>2 DEF Init, TypeOK
<1>4. OneOwner BY DEF Init, OneOwner
<1>5. ProgressByPlace /\ NoneLost BY DEF Init, ProgressByPlace, NoneLost
<1>6. HandleAgrees BY DEF Init, HandleAgrees
<1>7. ShutdownProgress BY DEF Init, ShutdownProgress
<1> QED BY <1>2, <1>3, <1>4, <1>5, <1>6, <1>7 DEF IInv

LEMMA NextPreserves == IInv /\ [Next]_vars => IInv'
<1> SUFFICES ASSUME IInv, [Next]_vars PROVE IInv' OBVIOUS
<1>0. Body /\ CounterAgrees BY DEF IInv, Body
<1>1. ASSUME NEW th \in Threads, NEW t \in Tasks, Cancel(th, t) PROVE IInv'
  BY <1>0, <1>1, CancelKeepsBody, OthersKeepCount DEF IInv, Body, Cancel
<1>2. ASSUME NEW th \in Threads, NEW t \in Tasks, Submit(th, t) PROVE IInv'
  BY <1>0, <1>2, SubmitKeepsBody, OthersKeepCount DEF IInv, Body, Submit
<1>3. ASSUME NEW th \in Threads, RequestShutdown(th) \/ RepeatShutdown(th) PROVE IInv'
  BY <1>0, <1>3, CallStepsKeepBody, OthersKeepCount DEF IInv, Body, RequestShutdown, RepeatShutdown
<1>4. ASSUME NEW th \in Threads, CallStep(th) PROVE IInv'
  <2>1. CASE EnqueueReject(th)
    BY <1>0, <2>1, EnqueueRejectKeepsBody, OthersKeepCount DEF IInv, Body, EnqueueReject
  <2>2. CASE EnqueuePush(th)
    BY <1>0, <2>2, EnqueuePushKeepsBody, OthersKeepCount DEF IInv, Body, EnqueuePush
  <2>3. CASE EnqueueNotify(th)
    BY <1>0, <2>3, EnqueueNotifyKeepsBody, OthersKeepCount DEF IInv, Body, EnqueueNotify
  <2>4. CASE EnqueueWait(th) \/ NotifyWorkers(th) \/ NotifySubmitters(th) \/ ShutdownCheck(th)
    BY <1>0, <2>4, CallStepsKeepBody, OthersKeepCount
       DEF IInv, Body, EnqueueWait, NotifyWorkers, NotifySubmitters, ShutdownCheck
  <2> QED BY <1>4, <2>1, <2>2, <2>3, <2>4 DEF CallStep
<1>5. ASSUME NEW c \in Clients, ClientStep(c) \/ WaitUntilIdle(c) PROVE IInv'
  <2>1. CASE CallStep(c) BY <1>4, <2>1
  <2>2. CASE PublishTermination(c)
    BY <1>0, <2>2, PublishTerminationKeepsBody, OthersKeepCount DEF IInv, Body, PublishTermination
  <2>3. CASE \/ Await(c) \/ AlreadyTerminated(c) \/ AwaitOwner(c) \/ BecomeOwner(c)
             \/ JoinWorkers(c) \/ NotifyIdle(c) \/ WaitUntilIdle(c) \/ IdleWait(c) \/ IdleReached(c)
    <3>1. Body' BY <1>0, <2>3, ClientStepsKeepBody
    <3>2. UNCHANGED <<active, activeTasks>>
      BY <2>3 DEF Await, AlreadyTerminated, AwaitOwner, BecomeOwner, JoinWorkers, NotifyIdle,
                  WaitUntilIdle, IdleWait, IdleReached
    <3> QED BY <1>0, <3>1, <3>2, OthersKeepCount DEF IInv, Body
  <2> QED BY <1>5, <2>1, <2>2, <2>3 DEF ClientStep
<1>6. ASSUME NEW w \in Workers, WorkerStep(w) PROVE IInv'
  <2>1. CASE CallStep(w) BY <1>4, <2>1
  <2>2. CASE WorkerPop(w) BY <1>0, <2>2, WorkerPopKeepsBody, PopCounts DEF IInv, Body
  <2>3. CASE WorkerFinish(w) BY <1>0, <2>3, WorkerFinishKeepsBody, FinishCounts DEF IInv, Body
  <2>4. CASE Deliver(w) BY <1>0, <2>4, DeliverKeepsBody, OthersKeepCount DEF IInv, Body, Deliver
  <2>5. CASE WorkerStart(w) \/ WorkerWait(w) \/ WorkerExit(w)
    BY <1>0, <2>5, LoopStepsKeepBody, OthersKeepCount
       DEF IInv, Body, WorkerStart, WorkerWait, WorkerExit
  <2>6. CASE \/ SkipBody(w) \/ EnterBody(w) \/ BodyReturns(w) \/ BodyCancelled(w) \/ TryComplete(w)
             \/ CompleteTooLate(w) \/ CompleteCancellation(w) \/ NothingToCancel(w)
             \/ CompleteUncancelled(w) \/ CallbackReturns(w)
    <3>1. Body' BY <1>0, <2>6, RunStepsKeepBody
    <3>2. UNCHANGED <<active, activeTasks>>
      BY <2>6 DEF SkipBody, EnterBody, BodyReturns, BodyCancelled, TryComplete, CompleteTooLate,
                  CompleteCancellation, NothingToCancel, CompleteUncancelled, CallbackReturns
    <3> QED BY <1>0, <3>1, <3>2, OthersKeepCount DEF IInv, Body
  <2> QED BY <1>6, <2>1, <2>2, <2>3, <2>4, <2>5, <2>6 DEF WorkerStep
<1>7. CASE UNCHANGED vars
  BY <1>7 DEF IInv, TypeOK, OneOwner, ProgressByPlace, NoneLost, HandleAgrees,
              ShutdownProgress, CounterAgrees
<1> QED BY <1>1, <1>2, <1>3, <1>4, <1>5, <1>6, <1>7 DEF Next, Call

\* The strengthening holds in every reachable state.
THEOREM Invariance == Spec => []IInv
BY InitEstablishes, NextPreserves, PTL DEF Spec

----------------------------------------------------------------------------
(* What follows from it.                                                   *)

\* Every variable keeps its range and the queue its bound, for any pool size.
THEOREM TypeCorrectness == Spec => []TypeOK
<1>1. IInv => TypeOK BY DEF IInv
<1> QED BY <1>1, Invariance, PTL

\* cancel() against completion: whichever exchange of the handle came first
\* decides the terminal state of every task.
THEOREM CancelDecidesTheorem == Spec => []CancelDecides
<1>1. IInv => CancelDecides BY DEF IInv, TypeOK, HandleAgrees, CancelDecides
<1> QED BY <1>1, Invariance, PTL

\* After a terminal state is decided no cancel() returns true.
THEOREM TerminalHandleIsClosedTheorem == Spec => []TerminalHandleIsClosed
<1>1. IInv => TerminalHandleIsClosed BY DEF IInv, TypeOK, HandleAgrees, TerminalHandleIsClosed
<1> QED BY <1>1, Invariance, PTL

\* No accepted, unfinished task escapes the cancellation of a shutdown.
THEOREM ShutdownCancelsOutstandingTheorem == Spec => []ShutdownCancelsOutstanding
<1>1. IInv => ShutdownCancelsOutstanding
  <2> SUFFICES ASSUME IInv, stopping, NEW t \in Tasks, stage[t] = "accepted", delivered[t] = 0
               PROVE  lifecycle[t] # "Active"
    BY DEF ShutdownCancelsOutstanding
  <2>1. CASE \E i \in 1..Len(tasks) : tasks[i] = t BY <2>1 DEF IInv, ShutdownProgress
  <2>2. CASE \E w \in Workers : active[w] = t BY <2>2 DEF IInv, ShutdownProgress
  <2> QED BY <2>1, <2>2 DEF IInv, NoneLost
<1> QED BY <1>1, Invariance, PTL

\* Published termination means that every accepted task has reported once.
THEOREM TerminationIsCompleteTheorem == Spec => []TerminationIsComplete
<1>1. IInv => TerminationIsComplete
  <2> SUFFICES ASSUME IInv, terminated, NEW t \in Tasks
               PROVE  IF stage[t] = "accepted" THEN delivered[t] = 1 ELSE delivered[t] = 0
    BY DEF TerminationIsComplete
  <2>1. \A w \in Workers : active[w] = NoTask BY DEF IInv, OneOwner, ShutdownProgress
  <2>2. tasks = <<>> BY DEF IInv, ShutdownProgress
  <2>3. CASE stage[t] = "accepted" BY <2>1, <2>2, <2>3 DEF IInv, NoneLost
  <2>4. CASE stage[t] # "accepted" BY <2>4 DEF IInv, ProgressByPlace
  <2> QED BY <2>3, <2>4
<1> QED BY <1>1, Invariance, PTL

\* waitUntilIdle returns only when every accepted task has reported: the queue is
\* empty and a zero counter means that no worker has a task.
THEOREM IdleMeansReportedTheorem == Spec => IdleMeansReported
<1>1. IInv /\ [Next]_vars =>
        [\A c \in Clients : pc[c] = "idleWait" /\ pc'[c] = "ready" =>
           \A t \in Tasks : stage[t] = "accepted" => delivered[t] = 1]_vars
  <2> SUFFICES ASSUME IInv, Next, NEW c \in Clients, pc[c] = "idleWait", pc'[c] = "ready",
                      NEW t \in Tasks, stage[t] = "accepted"
               PROVE  delivered[t] = 1
    OBVIOUS
  <2>1. pc \in [Threads -> WorkerPoints \cup ClientPoints] BY DEF IInv, TypeOK
  <2>2. IdleReached(c)
    <3>1. ASSUME NEW th \in Threads, Call(th) \/ CallStep(th) PROVE FALSE
      BY <3>1, <2>1 DEF Call, CallStep, Cancel, Submit, RequestShutdown, RepeatShutdown,
         EnqueueWait, EnqueueReject, EnqueuePush, EnqueueNotify, NotifyWorkers,
         NotifySubmitters, ShutdownCheck
    <3>2. ASSUME NEW w \in Workers, WorkerStep(w) PROVE FALSE
      BY <3>1, <3>2, <2>1 DEF WorkerStep, WorkerStart, WorkerWait, WorkerExit, WorkerPop,
         WorkerFinish, SkipBody, EnterBody, BodyReturns, BodyCancelled, TryComplete,
         CompleteTooLate, CompleteCancellation, NothingToCancel, CompleteUncancelled,
         Deliver, CallbackReturns
    <3>3. ASSUME NEW d \in Clients, ClientStep(d) \/ WaitUntilIdle(d), ~IdleReached(c) PROVE FALSE
      BY <3>1, <3>3, <2>1 DEF ClientStep, Await, AlreadyTerminated, AwaitOwner, BecomeOwner,
         JoinWorkers, PublishTermination, NotifyIdle, IdleWait, IdleReached, WaitUntilIdle
    <3> QED BY <3>1, <3>2, <3>3 DEF Next
  <2>3. tasks = <<>> /\ activeTasks = 0 BY <2>2 DEF IdleReached
  <2>4. \A w \in Workers : active[w] = NoTask
    <3>1. IsFiniteSet(Busy) BY FS_Subset DEF Busy
    <3>2. Busy = {} BY <2>3, <3>1, FS_EmptySet DEF IInv, CounterAgrees, Busy
    <3> QED BY <3>2 DEF Busy
  <2> QED BY <2>3, <2>4 DEF IInv, NoneLost
<1> QED BY <1>1, Invariance, PTL DEF Spec, IdleMeansReported

\* A cancelled task whose body was not entered never enters it.
THEOREM CancelledBodyIsSkippedTheorem == Spec => CancelledBodyIsSkipped
<1>1. IInv /\ [Next]_vars =>
        [\A t \in Tasks : t \notin started /\ t \in cancelWon => t \notin started']_vars
  <2> SUFFICES ASSUME IInv, Next, NEW t \in Tasks, t \notin started, t \in started'
               PROVE  t \notin cancelWon
    OBVIOUS
  <2>1. PICK w \in Workers : EnterBody(w) /\ active[w] = t
    <3>1. ASSUME NEW th \in Threads, Call(th) \/ CallStep(th) PROVE FALSE
      BY <3>1 DEF Call, CallStep, Cancel, Submit, RequestShutdown, RepeatShutdown,
         EnqueueWait, EnqueueReject, EnqueuePush, EnqueueNotify, NotifyWorkers,
         NotifySubmitters, ShutdownCheck
    <3>2. ASSUME NEW w \in Workers, WorkerStep(w), ~(EnterBody(w) /\ active[w] = t) PROVE FALSE
      BY <3>1, <3>2 DEF WorkerStep, WorkerStart, WorkerWait, WorkerExit, WorkerPop,
         WorkerFinish, SkipBody, EnterBody, BodyReturns, BodyCancelled, TryComplete,
         CompleteTooLate, CompleteCancellation, NothingToCancel, CompleteUncancelled,
         Deliver, CallbackReturns
    <3>3. ASSUME NEW d \in Clients, ClientStep(d) \/ WaitUntilIdle(d) PROVE FALSE
      BY <3>1, <3>3 DEF ClientStep, Await, AlreadyTerminated, AwaitOwner, BecomeOwner,
         JoinWorkers, PublishTermination, NotifyIdle, IdleWait, IdleReached, WaitUntilIdle
    <3> QED BY <3>1, <3>2, <3>3 DEF Next
  <2> QED BY <2>1 DEF EnterBody, IInv, HandleAgrees, ProgressByPlace
<1> QED BY <1>1, Invariance, PTL DEF Spec, CancelledBodyIsSkipped

----------------------------------------------------------------------------
(* No wake-up is lost.  The counting parts are kept by every step that takes *)
(* nobody off the way to the queue; the five that do are treated by name.    *)

LEMMA FiniteCounts ==
  /\ IsFiniteSet(Looking) /\ IsFiniteSet(Entering) /\ IsFiniteSet(At("notifyTask"))
  /\ Cardinality(Looking) \in Nat /\ Cardinality(Entering) \in Nat
  /\ Cardinality(At("notifyTask")) \in Nat
<1>1. IsFiniteSet(Threads) BY ClientsFinite, FS_Union
<1>2. Looking \subseteq Threads /\ Entering \subseteq Threads /\ At("notifyTask") \subseteq Threads
  BY DEF Looking, Entering, At
<1> QED BY <1>1, <1>2, FS_Subset, FS_CardinalityType

\* The same of the next state.
LEMMA FiniteCountsNext ==
  /\ IsFiniteSet(Looking') /\ IsFiniteSet(Entering') /\ IsFiniteSet(At("notifyTask")')
  /\ Cardinality(Looking') \in Nat /\ Cardinality(Entering') \in Nat
  /\ Cardinality(At("notifyTask")') \in Nat
<1>1. IsFiniteSet(Threads) BY ClientsFinite, FS_Union
<1>2. Looking' \subseteq Threads /\ Entering' \subseteq Threads /\ At("notifyTask")' \subseteq Threads
  BY DEF Looking, Entering, At
<1> QED BY <1>1, <1>2, FS_Subset, FS_CardinalityType

\* One element more, one element less, and a larger set.
LEMMA Counting ==
  ASSUME NEW S, NEW T, NEW x, IsFiniteSet(S), IsFiniteSet(T)
  PROVE  /\ T = S \cup {x} /\ x \notin S => Cardinality(T) = Cardinality(S) + 1
         /\ T = S \ {x} /\ x \in S => Cardinality(T) = Cardinality(S) - 1
         /\ S \subseteq T => Cardinality(S) <= Cardinality(T)
BY FS_AddElement, FS_RemoveElement, FS_Subset

\* Nothing was queued, nobody parked and nobody left the way to the queue.
LEMMA WorkersStayWoken ==
  ASSUME WorkersAreWoken, tasks \in Seq(Tasks), tasks' = tasks,
         waitTask' = {} \/ waitTask' = waitTask,
         Looking \subseteq Looking', At("notifyTask") \subseteq At("notifyTask")'
  PROVE  WorkersAreWoken'
<1>1. Cardinality(Looking) <= Cardinality(Looking') BY FiniteCounts, FiniteCountsNext, Counting
<1>2. Cardinality(At("notifyTask")) <= Cardinality(At("notifyTask")')
  BY FiniteCounts, FiniteCountsNext, Counting
<1> QED BY <1>1, <1>2, FiniteCounts, FiniteCountsNext DEF WorkersAreWoken

\* Nothing was taken, nobody parked and nobody who was about to enter went away.
LEMMA SubmittersStayWoken ==
  ASSUME SubmittersAreWoken, tasks \in Seq(Tasks), tasks' = tasks,
         waitSpace' = {} \/ waitSpace' = waitSpace, stopping' \/ Entering \subseteq Entering',
         stopping => stopping'
  PROVE  SubmittersAreWoken'
<1>1. stopping' \/ Cardinality(Entering) <= Cardinality(Entering')
  BY FiniteCounts, FiniteCountsNext, Counting
<1> QED BY <1>1, FiniteCounts, FiniteCountsNext DEF SubmittersAreWoken

\* The two counts, and what they are counted over.
Woken == TypeOK /\ WaitersInPlace /\ WorkersAreWoken /\ SubmittersAreWoken

\* One task more, and its submitter is about to notify a worker.
LEMMA PushWakes ==
  ASSUME NEW th \in Threads, Woken, EnqueuePush(th), arg[th] \in Tasks
  PROVE  WorkersAreWoken' /\ SubmittersAreWoken'
<1> USE DEF Woken, EnqueuePush
<1>1. Len(tasks') = Len(tasks) + 1 /\ Len(tasks) \in Nat BY DEF TypeOK
<1>2. At("notifyTask")' = At("notifyTask") \cup {th} /\ th \notin At("notifyTask")
  BY DEF At, TypeOK
<1>3. Entering' = Entering \ {th} /\ th \in Entering BY DEF Entering, At, TypeOK
<1>4. Looking' = Looking BY DEF Looking, TypeOK
<1>5. /\ Cardinality(At("notifyTask")') = Cardinality(At("notifyTask")) + 1
      /\ Cardinality(Entering') = Cardinality(Entering) - 1
  BY <1>2, <1>3, FiniteCounts, FiniteCountsNext, Counting
<1> QED BY <1>1, <1>4, <1>5, FiniteCounts DEF WorkersAreWoken, SubmittersAreWoken

\* notify_one takes one worker out of the wait, which will look at the queue again,
\* or finds nobody to wake.
LEMMA NotifyWakes ==
  ASSUME NEW th \in Threads, Woken, EnqueueNotify(th)
  PROVE  WorkersAreWoken' /\ SubmittersAreWoken'
<1> USE DEF Woken, EnqueueNotify
<1>1. WorkersAreWoken'
  <2> SUFFICES ASSUME waitTask' # {} PROVE WorkersAreWoken' BY DEF WorkersAreWoken
  <2>1. PICK w \in waitTask : waitTask' = waitTask \ {w} BY DEF Notified
  <2>2. w \in Workers /\ pc[w] = "loop" /\ w # th BY DEF TypeOK, WaitersInPlace
  <2>3. Looking' = Looking \cup {w} /\ w \notin Looking BY <2>1, <2>2 DEF Looking, TypeOK
  <2>4. At("notifyTask")' = At("notifyTask") \ {th} /\ th \in At("notifyTask")
    BY DEF At, TypeOK
  <2>5. /\ Cardinality(Looking') = Cardinality(Looking) + 1
        /\ Cardinality(At("notifyTask")') = Cardinality(At("notifyTask")) - 1
    BY <2>3, <2>4, FiniteCounts, FiniteCountsNext, Counting
  <2> QED BY <2>1, <2>5, FiniteCounts DEF WorkersAreWoken, TypeOK
<1>2. Entering \subseteq Entering' BY DEF Entering, At, TypeOK
<1> QED BY <1>1, <1>2, SubmittersStayWoken DEF TypeOK

\* A worker takes one task, and wakes one submitter for the space it made.
LEMMA PopWakes ==
  ASSUME NEW w \in Workers, Woken, WorkerPop(w)
  PROVE  WorkersAreWoken' /\ SubmittersAreWoken'
<1> USE DEF Woken, WorkerPop
<1>1. Len(tasks') = Len(tasks) - 1 /\ Len(tasks) \in Nat BY DEF TypeOK
<1>2. Looking' = Looking \ {w} /\ w \in Looking BY DEF Looking, TypeOK
<1>3. At("notifyTask")' = At("notifyTask") BY DEF At, TypeOK
<1>4. Cardinality(Looking') = Cardinality(Looking) - 1
  BY <1>2, FiniteCounts, FiniteCountsNext, Counting
<1>5. WorkersAreWoken' BY <1>1, <1>3, <1>4, FiniteCounts DEF WorkersAreWoken
<1>6. SubmittersAreWoken'
  <2> SUFFICES ASSUME waitSpace' # {} PROVE SubmittersAreWoken' BY DEF SubmittersAreWoken
  <2>1. PICK th \in waitSpace : waitSpace' = waitSpace \ {th} BY DEF Notified
  <2>2. th \in Threads /\ pc[th] = "enqueue" /\ w # th BY DEF TypeOK, WaitersInPlace
  <2>3. Entering' = Entering \cup {th} /\ th \notin Entering
    BY <2>1, <2>2 DEF Entering, At, TypeOK
  <2>4. Cardinality(Entering') = Cardinality(Entering) + 1
    BY <2>3, FiniteCounts, FiniteCountsNext, Counting
  <2> QED BY <1>1, <2>1, <2>4, FiniteCounts DEF SubmittersAreWoken
<1> QED BY <1>5, <1>6

\* Whoever parks or leaves finds an empty queue, a full one, or a shutdown.
LEMMA ParkingLosesNothing ==
  ASSUME NEW th \in Threads, Woken,
         \/ EnqueueWait(th)
         \/ EnqueueReject(th)
         \/ th \in Workers /\ (WorkerWait(th) \/ WorkerExit(th))
  PROVE  WorkersAreWoken' /\ SubmittersAreWoken'
<1> USE DEF Woken
<1>1. CASE EnqueueWait(th)
  <2>1. Looking' = Looking /\ At("notifyTask")' = At("notifyTask") BY <1>1 DEF EnqueueWait, Looking, At
  <2>2. WorkersAreWoken' BY <1>1, <2>1 DEF EnqueueWait, WorkersAreWoken
  <2>3. SubmittersAreWoken' BY <1>1, FiniteCountsNext DEF EnqueueWait, SubmittersAreWoken, TypeOK
  <2> QED BY <2>2, <2>3
<1>2. CASE EnqueueReject(th)
  <2>1. Looking' = Looking /\ At("notifyTask")' = At("notifyTask")
    BY <1>2 DEF EnqueueReject, Looking, At, TypeOK
  <2> QED BY <1>2, <2>1 DEF EnqueueReject, WorkersAreWoken, SubmittersAreWoken
<1>3. CASE th \in Workers /\ (WorkerWait(th) \/ WorkerExit(th))
  <2>1. Len(tasks') = 0 BY <1>3 DEF WorkerWait, WorkerExit, TypeOK
  <2>2. WorkersAreWoken' BY <2>1, FiniteCountsNext DEF WorkersAreWoken
  <2>3. Entering' = Entering BY <1>3 DEF WorkerWait, WorkerExit, Entering, At, TypeOK
  <2> QED BY <1>3, <2>2, <2>3 DEF WorkerWait, WorkerExit, SubmittersAreWoken
<1> QED BY <1>1, <1>2, <1>3

\* What the places of the waiters, the shutdown and idle_ need to be preserved.
Sleeping ==
  /\ TypeOK /\ OneOwner /\ ShutdownProgress
  /\ WaitersInPlace /\ ShutdownWakesAll /\ IdleIsAnnounced

\* The steps of a call to the scheduler.
LEMMA CallsKeepWaiters ==
  ASSUME NEW th \in Threads, Sleeping, 
         \/ EnqueueWait(th)
         \/ EnqueueReject(th)
         \/ EnqueuePush(th)
         \/ EnqueueNotify(th)
         \/ RequestShutdown(th)
         \/ RepeatShutdown(th)
         \/ NotifyWorkers(th)
         \/ NotifySubmitters(th)
         \/ ShutdownCheck(th)
  PROVE  WaitersInPlace' /\ ShutdownWakesAll' /\ IdleIsAnnounced'
<1> USE DEF Sleeping, TypeOK, OneOwner, ShutdownProgress, WaitersInPlace, ShutdownWakesAll,
            IdleIsAnnounced, At
<1>1. CASE EnqueueWait(th) BY SMTT(60), <1>1 DEF EnqueueWait
<1>2. CASE EnqueueReject(th) BY SMTT(60), <1>2 DEF EnqueueReject
<1>3. CASE EnqueuePush(th) BY SMTT(60), <1>3 DEF EnqueuePush
<1>4. CASE EnqueueNotify(th) BY SMTT(60), <1>4 DEF EnqueueNotify, Notified
<1>5. CASE RequestShutdown(th) BY SMTT(60), <1>5 DEF RequestShutdown
<1>6. CASE RepeatShutdown(th) BY SMTT(60), <1>6 DEF RepeatShutdown
<1>7. CASE NotifyWorkers(th) BY SMTT(60), <1>7 DEF NotifyWorkers
<1>8. CASE NotifySubmitters(th) BY SMTT(60), <1>8 DEF NotifySubmitters
<1>9. CASE ShutdownCheck(th) BY SMTT(60), <1>9 DEF ShutdownCheck
<1> QED BY <1>1, <1>2, <1>3, <1>4, <1>5, <1>6, <1>7, <1>8, <1>9

\* The waits of a client.
LEMMA ClientsKeepWaiters ==
  ASSUME NEW c \in Clients, Sleeping, 
         \/ Await(c)
         \/ AlreadyTerminated(c)
         \/ AwaitOwner(c)
         \/ BecomeOwner(c)
         \/ JoinWorkers(c)
         \/ PublishTermination(c)
         \/ NotifyIdle(c)
         \/ WaitUntilIdle(c)
         \/ IdleWait(c)
         \/ IdleReached(c)
  PROVE  WaitersInPlace' /\ ShutdownWakesAll' /\ IdleIsAnnounced'
<1> USE DEF Sleeping, TypeOK, OneOwner, ShutdownProgress, WaitersInPlace, ShutdownWakesAll,
            IdleIsAnnounced, At
<1>1. CASE Await(c) BY SMTT(60), <1>1 DEF Await
<1>2. CASE AlreadyTerminated(c) BY SMTT(60), <1>2 DEF AlreadyTerminated
<1>3. CASE AwaitOwner(c) BY SMTT(60), <1>3 DEF AwaitOwner
<1>4. CASE BecomeOwner(c) BY SMTT(60), <1>4 DEF BecomeOwner
<1>5. CASE JoinWorkers(c) BY SMTT(60), <1>5 DEF JoinWorkers
<1>6. CASE PublishTermination(c) BY SMTT(60), <1>6 DEF PublishTermination
<1>7. CASE NotifyIdle(c) BY SMTT(60), <1>7 DEF NotifyIdle
<1>8. CASE WaitUntilIdle(c) BY SMTT(60), <1>8 DEF WaitUntilIdle
<1>9. CASE IdleWait(c) BY SMTT(60), <1>9 DEF IdleWait
<1>10. CASE IdleReached(c) BY SMTT(60), <1>10 DEF IdleReached
<1> QED BY <1>1, <1>2, <1>3, <1>4, <1>5, <1>6, <1>7, <1>8, <1>9, <1>10

\* The loop of a worker.
LEMMA LoopKeepsWaiters ==
  ASSUME NEW w \in Workers, Sleeping, 
         \/ WorkerStart(w)
         \/ WorkerWait(w)
         \/ WorkerExit(w)
         \/ WorkerPop(w)
         \/ WorkerFinish(w)
  PROVE  WaitersInPlace' /\ ShutdownWakesAll' /\ IdleIsAnnounced'
<1> USE DEF Sleeping, TypeOK, OneOwner, ShutdownProgress, WaitersInPlace, ShutdownWakesAll,
            IdleIsAnnounced, At
<1>1. CASE WorkerStart(w) BY SMTT(60), <1>1 DEF WorkerStart
<1>2. CASE WorkerWait(w) BY SMTT(60), <1>2 DEF WorkerWait
<1>3. CASE WorkerExit(w) BY SMTT(60), <1>3 DEF WorkerExit
<1>4. CASE WorkerPop(w) BY SMTT(60), <1>4 DEF WorkerPop, Notified
<1>5. CASE WorkerFinish(w) BY SMTT(60), <1>5 DEF WorkerFinish
<1> QED BY <1>1, <1>2, <1>3, <1>4, <1>5

\* The run of a task.
LEMMA RunKeepsWaiters ==
  ASSUME NEW w \in Workers, Sleeping, 
         \/ SkipBody(w)
         \/ EnterBody(w)
         \/ BodyReturns(w)
         \/ BodyCancelled(w)
         \/ TryComplete(w)
         \/ CompleteTooLate(w)
         \/ CompleteCancellation(w)
         \/ NothingToCancel(w)
         \/ CompleteUncancelled(w)
         \/ Deliver(w)
         \/ CallbackReturns(w)
  PROVE  WaitersInPlace' /\ ShutdownWakesAll' /\ IdleIsAnnounced'
<1> USE DEF Sleeping, TypeOK, OneOwner, ShutdownProgress, WaitersInPlace, ShutdownWakesAll,
            IdleIsAnnounced, At
<1>1. CASE SkipBody(w) BY SMTT(60), <1>1 DEF SkipBody
<1>2. CASE EnterBody(w) BY SMTT(60), <1>2 DEF EnterBody
<1>3. CASE BodyReturns(w) BY SMTT(60), <1>3 DEF BodyReturns
<1>4. CASE BodyCancelled(w) BY SMTT(60), <1>4 DEF BodyCancelled
<1>5. CASE TryComplete(w) BY SMTT(60), <1>5 DEF TryComplete
<1>6. CASE CompleteTooLate(w) BY SMTT(60), <1>6 DEF CompleteTooLate
<1>7. CASE CompleteCancellation(w) BY SMTT(60), <1>7 DEF CompleteCancellation
<1>8. CASE NothingToCancel(w) BY SMTT(60), <1>8 DEF NothingToCancel
<1>9. CASE CompleteUncancelled(w) BY SMTT(60), <1>9 DEF CompleteUncancelled
<1>10. CASE Deliver(w) BY SMTT(60), <1>10 DEF Deliver
<1>11. CASE CallbackReturns(w) BY SMTT(60), <1>11 DEF CallbackReturns
<1> QED BY <1>1, <1>2, <1>3, <1>4, <1>5, <1>6, <1>7, <1>8, <1>9, <1>10, <1>11

\* cancel() and the start of a submission wake and park nobody.
LEMMA StartsKeepWaiters ==
  ASSUME NEW th \in Threads, NEW t \in Tasks, Sleeping, Cancel(th, t) \/ Submit(th, t)
  PROVE  WaitersInPlace' /\ ShutdownWakesAll' /\ IdleIsAnnounced'
<1> USE DEF Sleeping, TypeOK, OneOwner, ShutdownProgress, WaitersInPlace, ShutdownWakesAll,
            IdleIsAnnounced, At
<1>1. CASE Cancel(th, t) BY SMTT(60), <1>1 DEF Cancel
<1>2. CASE Submit(th, t) BY SMTT(60), <1>2 DEF Submit
<1> QED BY <1>1, <1>2

\* The invariant with the wake-ups.
WakeInv == IInv /\ WaitersInPlace /\ NoWakeUpIsLost

LEMMA WakeInit == Init => WakeInv
<1> SUFFICES ASSUME Init PROVE WakeInv OBVIOUS
<1>1. WaitersInPlace BY DEF Init, WaitersInPlace
<1>2. NoWakeUpIsLost
  BY DEF Init, NoWakeUpIsLost, WorkersAreWoken, SubmittersAreWoken, ShutdownWakesAll, IdleIsAnnounced
<1> QED BY <1>1, <1>2, InitEstablishes DEF WakeInv

\* A step outside the five counting ones leaves both counts in order.
LEMMA OthersKeepCounts ==
  ASSUME Woken, tasks' = tasks,
         waitTask' = {} \/ waitTask' = waitTask,
         waitSpace' = {} \/ waitSpace' = waitSpace,
         stopping => stopping',
         \A w \in Workers : pc[w] = "loop" => pc'[w] = "loop",
         \A th \in Threads : pc[th] = "notifyTask" => pc'[th] = "notifyTask",
         stopping' \/ \A th \in Threads : pc[th] = "enqueue" => pc'[th] = "enqueue"
  PROVE  WorkersAreWoken' /\ SubmittersAreWoken'
<1>1. Looking \subseteq Looking' /\ At("notifyTask") \subseteq At("notifyTask")'
  BY DEF Woken, TypeOK, Looking, At
<1>2. stopping' \/ Entering \subseteq Entering' BY DEF Woken, TypeOK, Entering, At
<1> QED BY <1>1, <1>2, WorkersStayWoken, SubmittersStayWoken DEF Woken, TypeOK

LEMMA WakeNext == WakeInv /\ [Next]_vars => WakeInv'
<1> SUFFICES ASSUME WakeInv, [Next]_vars
             PROVE  WaitersInPlace' /\ NoWakeUpIsLost'
  BY NextPreserves DEF WakeInv
<1> USE DEF NoWakeUpIsLost
<1>0. Woken /\ Sleeping BY DEF WakeInv, IInv, Woken, Sleeping
<1>t. pc \in [Threads -> WorkerPoints \cup ClientPoints] BY DEF WakeInv, IInv, TypeOK
<1>1. ASSUME NEW th \in Threads, NEW t \in Tasks, Cancel(th, t) \/ Submit(th, t)
      PROVE  WaitersInPlace' /\ NoWakeUpIsLost'
  <2>1. WorkersAreWoken' /\ SubmittersAreWoken'
    BY <1>0, <1>t, <1>1, OthersKeepCounts DEF Cancel, Submit
  <2> QED BY <1>0, <1>1, <2>1, StartsKeepWaiters
<1>2. ASSUME NEW th \in Threads, CallStep(th) \/ RequestShutdown(th) \/ RepeatShutdown(th)
      PROVE  WaitersInPlace' /\ NoWakeUpIsLost'
  <2>1. WorkersAreWoken' /\ SubmittersAreWoken'
    <3>1. CASE EnqueuePush(th)
      <4>1. arg[th] \in Tasks BY <1>0, <3>1 DEF EnqueuePush, Sleeping, OneOwner
      <4> QED BY <1>0, <3>1, <4>1, PushWakes
    <3>2. CASE EnqueueNotify(th) BY <1>0, <3>2, NotifyWakes
    <3>3. CASE EnqueueWait(th) \/ EnqueueReject(th) BY <1>0, <3>3, ParkingLosesNothing
    <3>4. CASE \/ NotifyWorkers(th) \/ NotifySubmitters(th) \/ ShutdownCheck(th)
               \/ RequestShutdown(th) \/ RepeatShutdown(th)
      BY <1>0, <1>t, <3>4, OthersKeepCounts
         DEF NotifyWorkers, NotifySubmitters, ShutdownCheck, RequestShutdown, RepeatShutdown
    <3> QED BY <1>2, <3>1, <3>2, <3>3, <3>4 DEF CallStep
  <2> QED BY <1>0, <1>2, <2>1, CallsKeepWaiters DEF CallStep
<1>3. ASSUME NEW c \in Clients, ClientStep(c) \/ WaitUntilIdle(c)
      PROVE  WaitersInPlace' /\ NoWakeUpIsLost'
  <2>1. CASE CallStep(c) BY <1>2, <2>1
  <2>2. CASE ~CallStep(c)
    <3>1. WorkersAreWoken' /\ SubmittersAreWoken'
      BY <1>0, <1>t, <1>3, <2>2, OthersKeepCounts
         DEF ClientStep, Await, AlreadyTerminated, AwaitOwner, BecomeOwner, JoinWorkers,
             PublishTermination, NotifyIdle, IdleWait, IdleReached, WaitUntilIdle
    <3> QED BY <1>0, <1>3, <2>2, <3>1, ClientsKeepWaiters DEF ClientStep
  <2> QED BY <2>1, <2>2
<1>4. ASSUME NEW w \in Workers, WorkerStep(w)
      PROVE  WaitersInPlace' /\ NoWakeUpIsLost'
  <2>1. CASE CallStep(w) BY <1>2, <2>1
  <2>2. CASE WorkerPop(w) BY <1>0, <2>2, PopWakes, LoopKeepsWaiters
  <2>3. CASE WorkerWait(w) \/ WorkerExit(w)
    BY <1>0, <2>3, ParkingLosesNothing, LoopKeepsWaiters
  <2>4. CASE WorkerStart(w) \/ WorkerFinish(w)
    <3>1. WorkersAreWoken' /\ SubmittersAreWoken'
      BY <1>0, <1>t, <2>4, OthersKeepCounts DEF WorkerStart, WorkerFinish
    <3> QED BY <1>0, <2>4, <3>1, LoopKeepsWaiters
  <2>5. CASE \/ SkipBody(w) \/ EnterBody(w) \/ BodyReturns(w) \/ BodyCancelled(w) \/ TryComplete(w)
             \/ CompleteTooLate(w) \/ CompleteCancellation(w) \/ NothingToCancel(w)
             \/ CompleteUncancelled(w) \/ Deliver(w) \/ CallbackReturns(w)
    <3>1. WorkersAreWoken' /\ SubmittersAreWoken'
      BY <1>0, <1>t, <2>5, OthersKeepCounts
         DEF SkipBody, EnterBody, BodyReturns, BodyCancelled, TryComplete, CompleteTooLate,
             CompleteCancellation, NothingToCancel, CompleteUncancelled, Deliver, CallbackReturns
    <3> QED BY <1>0, <2>5, <3>1, RunKeepsWaiters
  <2> QED BY <1>4, <2>1, <2>2, <2>3, <2>4, <2>5 DEF WorkerStep
<1>5. CASE UNCHANGED vars
  BY <1>5 DEF WakeInv, WaitersInPlace, WorkersAreWoken, SubmittersAreWoken, ShutdownWakesAll,
              IdleIsAnnounced, Looking, Entering, At
<1> QED BY <1>1, <1>2, <1>3, <1>4, <1>5 DEF Next, Call

LEMMA WakeInvariance == Spec => []WakeInv
BY WakeInit, WakeNext, PTL DEF Spec

\* Whatever the number of workers, submitters and waiters, no notification is lost:
\* a sleeping worker leaves no task unattended, a sleeping submitter no space, and a
\* shutdown, termination or quiet pool leaves nobody asleep.
THEOREM NoWakeUpIsLostTheorem == Spec => []NoWakeUpIsLost
<1>1. WakeInv => NoWakeUpIsLost BY DEF WakeInv
<1> QED BY <1>1, WakeInvariance, PTL

\* Queued work has a worker or a notification on the way to it, unless all workers
\* are awake in tasks of their own.
LEMMA QueueIsAttended ==
  ASSUME WakeInv, tasks # <<>>, waitTask # {}
  PROVE  \E th \in Threads : ~Blocked(th)
<1>1. Len(tasks) \in Nat \ {0} BY DEF WakeInv, IInv, TypeOK
<1>2. Cardinality(Looking) # 0 \/ Cardinality(At("notifyTask")) # 0
  BY <1>1, FiniteCounts DEF WakeInv, NoWakeUpIsLost, WorkersAreWoken
<1>3. Looking # {} \/ At("notifyTask") # {} BY <1>2, FS_EmptySet
<1>4. CASE Looking # {}
  <2>1. PICK w \in Looking : TRUE BY <1>4
  <2>2. w \in Workers /\ pc[w] = "loop" /\ w \notin waitTask BY <2>1 DEF Looking
  <2>3. w \notin waitSpace \cup waitIdle
    BY <2>2 DEF WakeInv, WaitersInPlace
  <2> QED BY <2>2, <2>3 DEF Blocked
<1>5. CASE At("notifyTask") # {}
  <2>1. PICK th \in Threads : pc[th] = "notifyTask" BY <1>5 DEF At
  <2> QED BY <2>1 DEF Blocked, WakeInv, WaitersInPlace
<1> QED BY <1>3, <1>4, <1>5

\* A thread between a shutdown's critical section and its last notification, or
\* between the publication of termination and its notification, is not blocked.
LEMMA NotifiersMove ==
  ASSUME WakeInv,
         At("notifyWorkers") \cup At("notifySubmitters") \cup At("notifyIdle") # {}
  PROVE  \E th \in Threads : ~Blocked(th)
BY DEF At, Blocked, WakeInv, WaitersInPlace

\* If every thread is blocked, each worker has ended, sleeps for work, or sleeps
\* inside a completion for space.
LEMMA BlockedWorkers ==
  ASSUME WakeInv, \A th \in Threads : Blocked(th), NEW w \in Workers
  PROVE  pc[w] = "exited" \/ w \in waitTask \/ w \in waitSpace
BY DEF Blocked, WakeInv, IInv, TypeOK

\* The one way to block every thread with something unfinished.
LEMMA AllBlocked ==
  ASSUME WakeInv, \A th \in Threads : Blocked(th), Unfinished
  PROVE  Jammed
<1>0. /\ At("notifyWorkers") = {} /\ At("notifySubmitters") = {} /\ At("notifyIdle") = {}
  BY NotifiersMove
<1>1. tasks # <<>> => waitTask = {} BY QueueIsAttended
<1>2. stopping => \A w \in Workers : pc[w] = "exited"
  BY <1>0, BlockedWorkers DEF WakeInv, NoWakeUpIsLost, ShutdownWakesAll
<1>3. waitSpace # {} => ~stopping BY <1>0 DEF WakeInv, NoWakeUpIsLost, ShutdownWakesAll
<1>4. waitSpace # {} => ~HasSpace
  <2> SUFFICES ASSUME waitSpace # {} PROVE ~HasSpace OBVIOUS
  <2>1. Entering = {}
    <3>1. \A th \in Threads : pc[th] = "enqueue" => th \in waitSpace
      BY DEF Blocked, WakeInv, WaitersInPlace
    <3> QED BY <3>1 DEF Entering, At
  <2>2. Cardinality(Entering) = 0 BY <2>1, FS_EmptySet
  <2> QED BY <1>3, <2>2 DEF WakeInv, NoWakeUpIsLost, SubmittersAreWoken, IInv, TypeOK
<1>5. CASE tasks # <<>>
  <2>1. ~stopping BY <1>2, <1>5 DEF WakeInv, IInv, ShutdownProgress
  <2>2. \A w \in Workers : w \in waitSpace
    BY <1>1, <1>5, <2>1, BlockedWorkers DEF WakeInv, IInv, ShutdownProgress
  <2>3. PICK w \in Workers : TRUE OBVIOUS
  <2>4. CallbacksSubmit BY <2>2, <2>3 DEF WakeInv, WaitersInPlace
  <2> QED BY <1>4, <2>1, <2>2, <2>3, <2>4 DEF Jammed
<1>6. CASE tasks = <<>>
  <2>1. waitSpace = {} BY <1>4, <1>6
  <2>2. \A w \in Workers : active[w] = NoTask
    BY <2>1, BlockedWorkers DEF WakeInv, WaitersInPlace, IInv, OneOwner
  <2>3. \A t \in Tasks : stage[t] = "accepted" => delivered[t] = 1
    BY <1>6, <2>2 DEF WakeInv, IInv, NoneLost, TypeOK
  <2>4. PICK c \in Clients : pc[c] # "ready" BY <2>3 DEF Unfinished
  <2>5. activeTasks = 0
    <3>1. {w \in Workers : active[w] # NoTask} = {} BY <2>2
    <3> QED BY <3>1, FS_EmptySet DEF WakeInv, IInv, CounterAgrees
  <2>6. \A d \in Clients : pc[d] \notin {"join", "publish"}
    BY <1>2 DEF Blocked, WakeInv, WaitersInPlace
  <2>7. pc[c] # "await"
    <3>1. pc[c] = "await" => arg[c] \in Tasks /\ stage[arg[c]] = "accepted"
      BY DEF WakeInv, WaitersInPlace, IInv, OneOwner
    <3>2. pc[c] = "await" => delivered[arg[c]] = 0
      BY DEF Blocked, WakeInv, WaitersInPlace
    <3> QED BY <2>3, <3>1, <3>2
  <2>8. c \notin waitIdle
    BY <1>0, <1>6, <2>5, <2>6 DEF WakeInv, NoWakeUpIsLost, IdleIsAnnounced, WaitersInPlace
  <2>9. c \notin waitTask BY DEF WakeInv, IInv, TypeOK
  <2> QED BY <2>1, <2>4, <2>6, <2>7, <2>8, <2>9 DEF Blocked, WakeInv, IInv, TypeOK
<1> QED BY <1>5, <1>6

\* The pool has one deadlock, the one of completions that submit into a full queue.
THEOREM OnlyCompletionsJamTheorem == Spec => []OnlyCompletionsJam
<1>1. WakeInv => OnlyCompletionsJam BY AllBlocked DEF OnlyCompletionsJam
<1> QED BY <1>1, WakeInvariance, PTL

\* A pool whose completions do not submit never blocks every thread while a call or
\* a task is unfinished.
THEOREM NoDeadlock ==
  ASSUME ~CallbacksSubmit
  PROVE  Spec => [](Unfinished => \E th \in Threads : ~Blocked(th))
<1>1. WakeInv => (Unfinished => \E th \in Threads : ~Blocked(th)) BY AllBlocked DEF Jammed
<1> QED BY <1>1, WakeInvariance, PTL

----------------------------------------------------------------------------
(* The pool implements the contract of AsyncOperation.                     *)

Status == [t \in Tasks |-> ObservedStatus(t)]

\* A step that changes neither stage, terminal nor lifecycle is invisible.
LEMMA InvisibleStep ==
  ASSUME UNCHANGED <<stage, terminal, lifecycle, delivered>>
  PROVE  UNCHANGED <<Status, delivered>>
BY DEF Status, ObservedStatus

\* A step that changes the observed status of one task only.
LEMMA StatusOfOne ==
  ASSUME NEW t \in Tasks, NEW x,
         ObservedStatus(t)' = x,
         \A u \in Tasks : u # t => ObservedStatus(u)' = ObservedStatus(u)
  PROVE  Status' = [Status EXCEPT ![t] = x]
BY DEF Status

\* Deciding: the three exchanges that publish a terminal state.
LEMMA DecideStep ==
  ASSUME IInv, NEW w \in Workers,
         TryComplete(w) \/ CompleteCancellation(w) \/ CompleteUncancelled(w)
  PROVE  Operations!Decide(active[w])
<1>1. active[w] # NoTask BY DEF IInv, OneOwner, TryComplete, CompleteCancellation, CompleteUncancelled
<1>2. PICK t \in Tasks : t = active[w] BY <1>1 DEF IInv, TypeOK
<1>3. stage[t] = "accepted" /\ terminal[t] = "None"
  BY <1>1, <1>2 DEF IInv, OneOwner, ProgressByPlace, TryComplete, CompleteCancellation, CompleteUncancelled
<1>4. terminal' = [terminal EXCEPT ![t] = terminal'[t]] /\ stage' = stage /\ delivered' = delivered
  BY <1>2 DEF IInv, TypeOK, TryComplete, CompleteCancellation, CompleteUncancelled
<1>5. \A u \in Tasks : u # t => lifecycle'[u] = lifecycle[u]
  BY <1>2 DEF IInv, TypeOK, TryComplete, CompleteCancellation, CompleteUncancelled
<1>6. terminal'[t] \in {"Success", "Failed", "Cancelled"}
  BY <1>2 DEF IInv, TypeOK, TryComplete, CompleteCancellation, CompleteUncancelled
<1>7. Status' = [Status EXCEPT ![t] = terminal'[t]]
  <2>1. ObservedStatus(t)' = terminal'[t] BY <1>2, <1>3, <1>4, <1>6 DEF ObservedStatus
  <2>2. \A u \in Tasks : u # t => ObservedStatus(u)' = ObservedStatus(u)
    BY <1>4, <1>5 DEF ObservedStatus, IInv, TypeOK
  <2> QED BY <1>2, <2>1, <2>2, StatusOfOne
<1>8. Status[t] = IF lifecycle[t] = "Active" THEN "pending" ELSE "cancelling"
  BY <1>2, <1>3 DEF Status, ObservedStatus
<1>9. lifecycle[t] = "Active" => terminal'[t] # "Cancelled" \/ ForeignCancellation
  BY <1>2 DEF IInv, TypeOK, HandleAgrees, TryComplete, CompleteCancellation, CompleteUncancelled
<1>10. lifecycle[t] # "Active" => terminal'[t] = "Cancelled"
  BY <1>2 DEF IInv, TypeOK, TryComplete, CompleteCancellation, CompleteUncancelled
<1> QED BY <1>2, <1>4, <1>6, <1>7, <1>8, <1>9, <1>10
        DEF Operations!Decide, Operations!Outcomes, Operations!Undecided, Status

\* Cancelling a set of pending tasks: cancel() of one, a shutdown of many.
LEMMA CancelStep ==
  ASSUME IInv, NEW S \in SUBSET Tasks,
         \A u \in S : lifecycle[u] = "Active" /\ stage[u] # "new" /\ stage[u] # "rejected",
         lifecycle' = [u \in Tasks |-> IF u \in S THEN "CancellationRequested" ELSE lifecycle[u]],
         UNCHANGED <<stage, terminal, delivered>>
  PROVE  Operations!Cancel(S)
<1>1. \A u \in S : terminal[u] = "None" BY DEF IInv, TypeOK, HandleAgrees
<1>2. \A u \in S : Status[u] = "pending" /\ ObservedStatus(u)' = "cancelling"
  BY <1>1 DEF Status, ObservedStatus, IInv, TypeOK
<1>3. \A u \in Tasks \ S : ObservedStatus(u)' = ObservedStatus(u) BY DEF ObservedStatus
<1>4. Status' = [u \in Tasks |-> IF u \in S THEN "cancelling" ELSE Status[u]]
  BY <1>2, <1>3 DEF Status
<1> QED BY <1>2, <1>4 DEF Operations!Cancel, Status

\* Every step of the pool is a step of the contract, or one that it cannot see.
LEMMA RefinementStep == IInv /\ [Next]_vars => [Operations!Next]_<<Status, delivered>>
<1> SUFFICES ASSUME IInv, [Next]_vars PROVE [Operations!Next]_<<Status, delivered>> OBVIOUS
<1>t. /\ stage \in [Tasks -> {"new", "submitting", "rejected", "accepted"}]
      /\ delivered \in [Tasks -> Nat]
      /\ lifecycle \in [Tasks -> {"Active", "CancellationRequested", "Completed"}]
  BY DEF IInv, TypeOK
<1>1. ASSUME NEW th \in Threads, NEW t \in Tasks, Cancel(th, t)
      PROVE  [Operations!Next]_<<Status, delivered>>
  <2>1. CASE stage[t] = "rejected"
    <3>1. \A u \in Tasks : ObservedStatus(u)' = ObservedStatus(u)
      BY <1>t, <1>1, <2>1 DEF Cancel, ObservedStatus
    <3> QED BY <1>1, <3>1 DEF Cancel, Status
  <2>2. CASE stage[t] # "rejected"
    <3>1. lifecycle' = [u \in Tasks |-> IF u \in {t} THEN "CancellationRequested" ELSE lifecycle[u]]
      BY <1>t, <1>1 DEF Cancel
    <3>2. Operations!Cancel({t}) BY <1>1, <2>2, <3>1, CancelStep DEF Cancel
    <3> QED BY <3>2 DEF Operations!Next
  <2> QED BY <2>1, <2>2
<1>2. ASSUME NEW th \in Threads, NEW t \in Tasks, Submit(th, t)
      PROVE  [Operations!Next]_<<Status, delivered>>
  <2>1. ObservedStatus(t)' = "pending"
    <3>1. lifecycle[t] = "Active" /\ terminal[t] = "None"
      BY <1>2 DEF Submit, IInv, ProgressByPlace, HandleAgrees
    <3> QED BY <1>t, <1>2, <3>1 DEF Submit, ObservedStatus
  <2>2. \A u \in Tasks : u # t => ObservedStatus(u)' = ObservedStatus(u)
    BY <1>t, <1>2 DEF Submit, ObservedStatus
  <2>3. Status' = [Status EXCEPT ![t] = "pending"] BY <2>1, <2>2, StatusOfOne
  <2>4. Status[t] = "new" BY <1>2 DEF Submit, Status, ObservedStatus
  <2> QED BY <1>2, <2>3, <2>4 DEF Submit, Status, Operations!Submit, Operations!Next
<1>3. ASSUME NEW th \in Threads, EnqueueReject(th)
      PROVE  [Operations!Next]_<<Status, delivered>>
  <2>1. PICK t \in Tasks : t = arg[th] /\ stage[t] = "submitting"
    BY <1>3 DEF EnqueueReject, IInv, OneOwner
  <2>2. terminal[t] = "None" BY <2>1 DEF IInv, ProgressByPlace
  <2>3. ObservedStatus(t)' = "refused" BY <1>t, <1>3, <2>1 DEF EnqueueReject, ObservedStatus
  <2>4. \A u \in Tasks : u # t => ObservedStatus(u)' = ObservedStatus(u)
    BY <1>t, <1>3, <2>1 DEF EnqueueReject, ObservedStatus
  <2>5. Status' = [Status EXCEPT ![t] = "refused"] BY <2>3, <2>4, StatusOfOne
  <2>6. Status[t] \in {"pending", "cancelling"} BY <2>1, <2>2 DEF Status, ObservedStatus
  <2> QED BY <1>3, <2>5, <2>6
          DEF EnqueueReject, Status, Operations!Refuse, Operations!Undecided, Operations!Next
<1>4. ASSUME NEW th \in Threads, EnqueuePush(th)
      PROVE  [Operations!Next]_<<Status, delivered>>
  <2>1. stage[arg[th]] = "submitting" BY <1>4 DEF EnqueuePush, IInv, OneOwner
  <2>2. \A u \in Tasks : ObservedStatus(u)' = ObservedStatus(u)
    BY <1>t, <1>4, <2>1 DEF EnqueuePush, ObservedStatus
  <2> QED BY <1>4, <2>2 DEF EnqueuePush, Status
<1>5. ASSUME NEW th \in Threads, RequestShutdown(th)
      PROVE  [Operations!Next]_<<Status, delivered>>
  <2> DEFINE S == Outstanding
  <2>1. \A u \in Queued \cup Running : u \in Tasks /\ stage[u] = "accepted"
    BY DEF Queued, Running, IInv, TypeOK, OneOwner
  <2>2. Operations!Cancel(S) BY <1>5, <2>1, CancelStep DEF RequestShutdown
  <2>3. S \in SUBSET Tasks BY <2>1
  <2> QED BY <2>2, <2>3 DEF Operations!Next
<1>6. ASSUME NEW w \in Workers, TryComplete(w) \/ CompleteCancellation(w) \/ CompleteUncancelled(w)
      PROVE  [Operations!Next]_<<Status, delivered>>
  <2>1. active[w] # NoTask
    BY <1>6 DEF IInv, OneOwner, TryComplete, CompleteCancellation, CompleteUncancelled
  <2>2. active[w] \in Tasks BY <2>1 DEF IInv, TypeOK
  <2> QED BY <1>6, <2>2, DecideStep DEF Operations!Next
<1>7. ASSUME NEW w \in Workers, Deliver(w)
      PROVE  [Operations!Next]_<<Status, delivered>>
  <2>1. active[w] # NoTask BY <1>7 DEF IInv, OneOwner, Deliver
  <2>2. PICK t \in Tasks : t = active[w] BY <2>1 DEF IInv, TypeOK
  <2>3. stage[t] = "accepted" /\ terminal[t] # "None" /\ delivered[t] = 0
    BY <1>7, <2>1, <2>2 DEF IInv, OneOwner, ProgressByPlace, Deliver
  <2>4. terminal[t] \in Operations!Outcomes BY <2>3 DEF IInv, TypeOK, Operations!Outcomes
  <2>5. Status[t] = terminal[t] BY <2>3 DEF Status, ObservedStatus
  <2>6. Status' = Status BY <1>7 DEF Deliver, Status, ObservedStatus
  <2>7. delivered' = [delivered EXCEPT ![t] = 1] BY <1>t, <1>7, <2>2, <2>3 DEF Deliver
  <2> QED BY <2>3, <2>4, <2>5, <2>6, <2>7 DEF Operations!Report, Operations!Next, Status
<1>8. ASSUME UNCHANGED <<stage, terminal, lifecycle, delivered>>
      PROVE  [Operations!Next]_<<Status, delivered>>
  BY <1>8, InvisibleStep
<1>9. ASSUME NEW th \in Threads, CallStep(th) PROVE [Operations!Next]_<<Status, delivered>>
  BY <1>9, <1>3, <1>4, <1>8
     DEF CallStep, EnqueueWait, EnqueueNotify, NotifyWorkers, NotifySubmitters, ShutdownCheck
<1>10. ASSUME NEW th \in Threads, Call(th) PROVE [Operations!Next]_<<Status, delivered>>
  BY <1>10, <1>1, <1>2, <1>5, <1>8 DEF Call, RepeatShutdown
<1>11. ASSUME NEW c \in Clients, ClientStep(c) \/ WaitUntilIdle(c)
       PROVE  [Operations!Next]_<<Status, delivered>>
  BY <1>11, <1>8, <1>9
     DEF ClientStep, Await, AlreadyTerminated, AwaitOwner, BecomeOwner, JoinWorkers,
         PublishTermination, NotifyIdle, IdleWait, IdleReached, WaitUntilIdle
<1>12. ASSUME NEW w \in Workers, WorkerStep(w) PROVE [Operations!Next]_<<Status, delivered>>
  BY <1>12, <1>6, <1>7, <1>8, <1>9
     DEF WorkerStep, WorkerStart, WorkerWait, WorkerExit, WorkerPop, WorkerFinish, SkipBody,
         EnterBody, BodyReturns, BodyCancelled, CompleteTooLate, NothingToCancel, CallbackReturns
<1> QED BY <1>8, <1>10, <1>11, <1>12 DEF Next

\* The pool implements the contract: every accepted task gets exactly one terminal
\* state, decided by the first exchange on its handle and reported exactly once.
THEOREM ContractTheorem == Spec => ImplementsContract
<1>1. Init => Operations!Init
  BY DEF Init, Operations!Init, ObservedStatus
<1>2. IInv /\ [Next]_vars =>
        [Operations!Next]_<<[t \in Tasks |-> ObservedStatus(t)], delivered>>
  BY RefinementStep DEF Status
<1> QED BY <1>1, <1>2, Invariance, PTL DEF Spec, ImplementsContract, Operations!Spec
----------------------------------------------------------------------------
(* What a user sees of the pool.                                           *)

Gone == {w \in Workers : pc[w] = "exited"}
View == <<tasks, active, stopping, Gone>>

\* The steps that neither queue nor take a task, nor stop the pool, nor end a worker.
LEMMA OutOfView ==
  ASSUME IInv, NEW th \in Threads, th \notin Workers \/ pc[th] # "exited",
         th \notin Workers \/ pc'[th] # "exited",
         \A oh \in Threads : oh # th => pc'[oh] = pc[oh],
         UNCHANGED <<tasks, active, stopping>>
  PROVE  UNCHANGED View
BY DEF View, Gone

\* Each of the five steps a user can see is the step of the same meaning.
LEMMA PoolStep == IInv /\ [Next]_vars => [Pool!Next]_View
<1> SUFFICES ASSUME IInv, [Next]_vars PROVE [Pool!Next]_View OBVIOUS
<1>t. /\ pc \in [Threads -> WorkerPoints \cup ClientPoints]
      /\ \A c \in Clients : pc[c] # "exited"
      /\ tasks \in Seq(Tasks) /\ active \in [Workers -> Tasks \cup {NoTask}]
  BY DEF IInv, TypeOK
<1>1. ASSUME NEW th \in Threads, EnqueuePush(th) PROVE Pool!Next
  <2>1. arg[th] \in Tasks BY <1>1 DEF EnqueuePush, IInv, OneOwner
  <2>2. Gone' = Gone BY <1>t, <1>1 DEF EnqueuePush, Gone
  <2>3. Pool!Accept(arg[th]) BY <1>1, <2>2 DEF EnqueuePush, Pool!Accept, Gone
  <2> QED BY <2>1, <2>3 DEF Pool!Next
<1>2. ASSUME NEW w \in Workers, WorkerPop(w) PROVE Pool!Next
  <2>1. active[w] = NoTask /\ w \notin Gone BY <1>2 DEF WorkerPop, IInv, OneOwner, Gone
  <2>2. Gone' = Gone BY <1>t, <1>2 DEF WorkerPop, Gone
  <2>3. Pool!Take(w) BY <1>2, <2>1, <2>2 DEF WorkerPop, Pool!Take, Gone
  <2> QED BY <2>3 DEF Pool!Next
<1>3. ASSUME NEW w \in Workers, WorkerFinish(w) PROVE Pool!Next
  <2>1. active[w] # NoTask BY <1>3 DEF WorkerFinish, IInv, OneOwner
  <2>2. Gone' = Gone BY <1>t, <1>3 DEF WorkerFinish, Gone
  <2>3. Pool!Finish(w) BY <1>3, <2>1, <2>2 DEF WorkerFinish, Pool!Finish, Gone
  <2> QED BY <2>3 DEF Pool!Next
<1>4. ASSUME NEW th \in Threads, RequestShutdown(th) PROVE Pool!Next
  <2>1. Gone' = Gone BY <1>t, <1>4 DEF RequestShutdown, Gone
  <2>2. Pool!Stop BY <1>4, <2>1 DEF RequestShutdown, Pool!Stop, Gone
  <2> QED BY <2>2 DEF Pool!Next
<1>5. ASSUME NEW w \in Workers, WorkerExit(w) PROVE Pool!Next
  <2>1. active[w] = NoTask BY <1>5 DEF WorkerExit, IInv, OneOwner
  <2>2. Gone' = Gone \cup {w} BY <1>t, <1>5 DEF WorkerExit, Gone
  <2>3. Pool!Leave(w) BY <1>5, <2>1, <2>2 DEF WorkerExit, Pool!Leave, Gone
  <2> QED BY <2>3 DEF Pool!Next
<1>6. ASSUME NEW th \in Threads, Call(th) \/ CallStep(th) PROVE [Pool!Next]_View
  BY <1>t, <1>1, <1>4, <1>6, OutOfView
     DEF Call, CallStep, Cancel, Submit, RepeatShutdown, EnqueueWait, EnqueueReject,
         EnqueueNotify, NotifyWorkers, NotifySubmitters, ShutdownCheck
<1>7. ASSUME NEW c \in Clients, ClientStep(c) \/ WaitUntilIdle(c) PROVE [Pool!Next]_View
  BY <1>t, <1>6, <1>7, OutOfView
     DEF ClientStep, Await, AlreadyTerminated, AwaitOwner, BecomeOwner, JoinWorkers,
         PublishTermination, NotifyIdle, IdleWait, IdleReached, WaitUntilIdle
<1>8. ASSUME NEW w \in Workers, WorkerStep(w) PROVE [Pool!Next]_View
  BY <1>t, <1>2, <1>3, <1>5, <1>6, <1>8, OutOfView
     DEF WorkerStep, WorkerStart, WorkerWait, SkipBody, EnterBody, BodyReturns, BodyCancelled,
         TryComplete, CompleteTooLate, CompleteCancellation, NothingToCancel,
         CompleteUncancelled, Deliver, CallbackReturns
<1>9. CASE UNCHANGED vars BY <1>9 DEF View, Gone
<1> QED BY <1>6, <1>7, <1>8, <1>9 DEF Next

\* For every number of workers and submitters the pool is a bounded queue served in the
\* order of submission, which it works off before its workers end.
THEOREM PoolTheorem == Spec => ImplementsPool
<1>1. Init => Pool!Init BY DEF Init, Pool!Init
<1>2. IInv /\ [Next]_vars => [Pool!Next]_<<tasks, active, stopping, {w \in Workers : pc[w] = "exited"}>>
  BY PoolStep DEF View, Gone
<1> QED BY <1>1, <1>2, Invariance, PTL DEF Spec, ImplementsPool, Pool!Spec, Pool!poolVars

----------------------------------------------------------------------------
(* What NativeRuntime relies on.                                           *)

Loose == <<Queued, active, stopping, Gone>>

\* What is queued when a task is appended to the queue, or taken from its front.
LEMMA QueuedAfterAppend ==
  ASSUME tasks \in Seq(Tasks), NEW t \in Tasks, tasks' = Append(tasks, t)
  PROVE  Queued' = Queued \cup {t}
<1>1. /\ Len(tasks') = Len(tasks) + 1 /\ Len(tasks) \in Nat /\ tasks'[Len(tasks) + 1] = t
      /\ \A i \in 1..Len(tasks) : tasks'[i] = tasks[i]
  OBVIOUS
<1> QED BY <1>1 DEF Queued

LEMMA QueuedAfterTail ==
  ASSUME tasks \in Seq(Tasks), tasks # <<>>, tasks' = Tail(tasks),
         \A i, j \in 1..Len(tasks) : tasks[i] = tasks[j] => i = j
  PROVE  Head(tasks) \in Queued /\ Queued' = Queued \ {Head(tasks)}
<1>1. /\ Len(tasks) \in Nat \ {0} /\ Len(tasks') = Len(tasks) - 1 /\ Head(tasks) = tasks[1]
      /\ \A i \in 1..(Len(tasks) - 1) : tasks'[i] = tasks[i + 1]
  OBVIOUS
<1>2. 1 \in 1..Len(tasks) /\ Head(tasks) \in Queued BY <1>1 DEF Queued
<1>3. \A i \in 1..(Len(tasks) - 1) : i + 1 \in 1..Len(tasks) /\ i + 1 # 1 BY <1>1
<1>4. Queued' \subseteq Queued \ {Head(tasks)}
  <2> SUFFICES ASSUME NEW i \in 1..(Len(tasks) - 1)
               PROVE  tasks'[i] \in Queued \ {Head(tasks)}
    BY <1>1 DEF Queued
  <2> QED BY <1>1, <1>2, <1>3 DEF Queued
<1>5. Queued \ {Head(tasks)} \subseteq Queued'
  <2> SUFFICES ASSUME NEW i \in 1..Len(tasks), tasks[i] # Head(tasks) PROVE tasks[i] \in Queued'
    BY DEF Queued
  <2>1. i - 1 \in 1..(Len(tasks) - 1) /\ (i - 1) + 1 = i BY <1>1
  <2>2. tasks'[i - 1] = tasks[i] /\ i - 1 \in 1..Len(tasks') BY <1>1, <2>1
  <2> QED BY <2>2 DEF Queued
<1> QED BY <1>2, <1>4, <1>5

\* A step of the ordered pool is one of the unordered pool.
LEMMA LooseStep == IInv /\ [Next]_vars => [Unordered!Next]_Loose
<1> SUFFICES ASSUME IInv, [Next]_vars PROVE [Unordered!Next]_Loose OBVIOUS
<1>t. /\ pc \in [Threads -> WorkerPoints \cup ClientPoints]
      /\ \A c \in Clients : pc[c] # "exited"
      /\ tasks \in Seq(Tasks) /\ active \in [Workers -> Tasks \cup {NoTask}]
  BY DEF IInv, TypeOK
<1>0. ASSUME UNCHANGED View PROVE UNCHANGED Loose BY <1>0 DEF View, Loose, Queued
<1>1. ASSUME NEW th \in Threads, EnqueuePush(th) PROVE Unordered!Next
  <2>1. arg[th] \in Tasks /\ stage[arg[th]] = "submitting" BY <1>1 DEF EnqueuePush, IInv, OneOwner
  <2>2. arg[th] \notin Queued BY <2>1 DEF IInv, OneOwner, Queued
  <2>3. \A w \in Workers : active[w] # arg[th]
    BY <2>1, NoTaskIsNoTask DEF IInv, OneOwner
  <2>4. Gone' = Gone BY <1>t, <1>1 DEF EnqueuePush, Gone
  <2>5. Queued' = Queued \cup {arg[th]} BY <1>t, <1>1, <2>1, QueuedAfterAppend DEF EnqueuePush
  <2>6. Unordered!Accept(arg[th])
    BY <1>1, <2>2, <2>3, <2>4, <2>5 DEF EnqueuePush, Unordered!Accept, Gone
  <2> QED BY <2>1, <2>6 DEF Unordered!Next
<1>2. ASSUME NEW w \in Workers, WorkerPop(w) PROVE Unordered!Next
  <2>1. active[w] = NoTask /\ w \notin Gone BY <1>2 DEF WorkerPop, IInv, OneOwner, Gone
  <2>2. Gone' = Gone BY <1>t, <1>2 DEF WorkerPop, Gone
  <2>3. Head(tasks) \in Queued /\ Queued' = Queued \ {Head(tasks)}
    BY <1>t, <1>2, QueuedAfterTail DEF WorkerPop, IInv, OneOwner
  <2>4. Head(tasks) \in Tasks BY <1>t, <2>3 DEF Queued
  <2>5. Unordered!Take(w, Head(tasks))
    BY <1>2, <2>1, <2>2, <2>3 DEF WorkerPop, Unordered!Take, Gone
  <2> QED BY <2>4, <2>5 DEF Unordered!Next
<1>3. ASSUME NEW w \in Workers, WorkerFinish(w) PROVE Unordered!Next
  <2>1. active[w] # NoTask BY <1>3 DEF WorkerFinish, IInv, OneOwner
  <2>2. Gone' = Gone /\ Queued' = Queued BY <1>t, <1>3 DEF WorkerFinish, Gone, Queued
  <2>3. Unordered!Finish(w) BY <1>3, <2>1, <2>2 DEF WorkerFinish, Unordered!Finish, Gone
  <2> QED BY <2>3 DEF Unordered!Next
<1>4. ASSUME NEW th \in Threads, RequestShutdown(th) PROVE Unordered!Next
  <2>1. Gone' = Gone /\ Queued' = Queued BY <1>t, <1>4 DEF RequestShutdown, Gone, Queued
  <2>2. Unordered!Stop BY <1>4, <2>1 DEF RequestShutdown, Unordered!Stop, Gone
  <2> QED BY <2>2 DEF Unordered!Next
<1>5. ASSUME NEW w \in Workers, WorkerExit(w) PROVE Unordered!Next
  <2>1. active[w] = NoTask BY <1>5 DEF WorkerExit, IInv, OneOwner
  <2>2. Gone' = Gone \cup {w} BY <1>t, <1>5 DEF WorkerExit, Gone
  <2>3. Queued = {} /\ Queued' = Queued BY <1>5 DEF WorkerExit, Queued
  <2>4. Unordered!Leave(w) BY <1>5, <2>1, <2>2, <2>3 DEF WorkerExit, Unordered!Leave, Gone
  <2> QED BY <2>4 DEF Unordered!Next
<1>6. ASSUME NEW th \in Threads, Call(th) \/ CallStep(th) PROVE [Unordered!Next]_Loose
  BY <1>t, <1>0, <1>1, <1>4, <1>6, OutOfView
     DEF Call, CallStep, Cancel, Submit, RepeatShutdown, EnqueueWait, EnqueueReject,
         EnqueueNotify, NotifyWorkers, NotifySubmitters, ShutdownCheck
<1>7. ASSUME NEW c \in Clients, ClientStep(c) \/ WaitUntilIdle(c) PROVE [Unordered!Next]_Loose
  BY <1>t, <1>0, <1>6, <1>7, OutOfView
     DEF ClientStep, Await, AlreadyTerminated, AwaitOwner, BecomeOwner, JoinWorkers,
         PublishTermination, NotifyIdle, IdleWait, IdleReached, WaitUntilIdle
<1>8. ASSUME NEW w \in Workers, WorkerStep(w) PROVE [Unordered!Next]_Loose
  BY <1>t, <1>0, <1>2, <1>3, <1>5, <1>6, <1>8, OutOfView
     DEF WorkerStep, WorkerStart, WorkerWait, SkipBody, EnterBody, BodyReturns, BodyCancelled,
         TryComplete, CompleteTooLate, CompleteCancellation, NothingToCancel,
         CompleteUncancelled, Deliver, CallbackReturns
<1>9. CASE UNCHANGED vars BY <1>9 DEF Loose, Queued, Gone
<1> QED BY <1>6, <1>7, <1>8, <1>9 DEF Next

\* For every number of workers and submitters the pool keeps what NativeRuntime relies on.
THEOREM UnorderedPoolTheorem == Spec => ImplementsUnordered
<1>1. Init => Unordered!Init BY DEF Init, Unordered!Init, Queued
<1>2. IInv /\ [Next]_vars =>
        [Unordered!Next]_<<Queued, active, stopping, {w \in Workers : pc[w] = "exited"}>>
  BY LooseStep DEF Loose, Gone
<1> QED BY <1>1, <1>2, Invariance, PTL DEF Spec, ImplementsUnordered, Unordered!Spec, Unordered!poolVars
=============================================================================
