------------------------- MODULE ExecutionEngineProofs -------------------------
(***************************************************************************)
(* Theorems about ExecutionEngine.  The inductive invariant says where a   *)
(* task that the main thread awaits can be (once in the queue or with one  *)
(* worker), how deep every activation is, and what the phase of the main   *)
(* thread implies for the pool; what the properties say of a run that has  *)
(* ended follows from it.  Behind that stand two more results: no worker   *)
(* reads the globals while they are initialized, and a run uses its pool   *)
(* as WorkPool allows.                                                     *)
(*                                                                         *)
(* The actions fall into four kinds, and each kind has its lemma: a step   *)
(* within the activations of one thread, a failure of the main thread, the *)
(* end of a task, and the steps of the pool and of execute themselves.     *)
(***************************************************************************)
EXTENDS ExecutionEngine, SequenceTheorems, TLAPS

USE MainIsNoWorker, BuiltinsAreNoFunctions, ProgramIsNoFunction, PoliciesGiven, BodiesGiven,
    TopLevelGiven, DepthPositive, QueuePositive, NobodyIsNoThread
USE DEF Threads, Ends, IsWorkerThread, TooDeep, CancellationRequested, GoodEnds, Idle

(***************************************************************************)
(* Stacks and queues.                                                      *)
(***************************************************************************)
\* Advancing an activation changes neither its function nor its depth.
LEMMA AdvancedFrame ==
  ASSUME NEW f \in Frames
  PROVE  /\ [f EXCEPT !.at = @ + 1] \in Frames
         /\ [f EXCEPT !.at = @ + 1].function = f.function
         /\ [f EXCEPT !.at = @ + 1].depth = f.depth
<1>1. f.at + 1 \in Nat \ {0} BY DEF Frames
<1>2. f \in [function : Functions \cup {Program}, at : Nat \ {0}, depth : Nat] BY DEF Frames
<1>3. \A n \in Nat \ {0} : [f EXCEPT !.at = n] \in Frames BY <1>2 DEF Frames
<1>4. /\ [f EXCEPT !.at = @ + 1].function = f.function
      /\ [f EXCEPT !.at = @ + 1].depth = f.depth
  BY <1>2
<1> QED BY <1>1, <1>3, <1>4

\* Advancing the newest activation changes neither its function nor its depth.
LEMMA AdvancedFrames ==
  ASSUME NEW s \in Seq(Frames), s # <<>>
  PROVE  /\ Advanced(s) \in Seq(Frames) /\ Len(Advanced(s)) = Len(s)
         /\ \A i \in 1..Len(s) : /\ Advanced(s)[i].function = s[i].function
                                 /\ Advanced(s)[i].depth = s[i].depth
<1>1. Len(s) \in Nat \ {0} /\ Len(s) \in 1..Len(s) OBVIOUS
<1>2. s \in [1..Len(s) -> Frames] OBVIOUS
<1>3. s[Len(s)] \in Frames BY <1>1, <1>2
<1>4. [s[Len(s)] EXCEPT !.at = @ + 1] \in Frames BY <1>3, AdvancedFrame
<1>5. Advanced(s) = [s EXCEPT ![Len(s)] = [s[Len(s)] EXCEPT !.at = @ + 1]] BY DEF Advanced
<1>6. Advanced(s) \in [1..Len(s) -> Frames] BY <1>2, <1>4, <1>5
<1>7. Advanced(s) \in Seq(Frames) /\ Len(Advanced(s)) = Len(s) BY <1>1, <1>3, <1>4, <1>5, ExceptSeq
<1>8. ASSUME NEW i \in 1..Len(s)
      PROVE  Advanced(s)[i].function = s[i].function /\ Advanced(s)[i].depth = s[i].depth
  <2>1. CASE i = Len(s)
    <3>1. Advanced(s)[i] = [s[Len(s)] EXCEPT !.at = @ + 1] BY <1>1, <1>2, <1>5, <2>1
    <3> QED BY <1>3, <2>1, <3>1, AdvancedFrame
  <2>2. CASE i # Len(s) BY <1>2, <1>5, <2>2
  <2> QED BY <2>1, <2>2
<1> QED BY <1>7, <1>8

\* A further activation.
LEMMA PushedFrames ==
  ASSUME NEW s \in Seq(Frames), NEW f \in Frames
  PROVE  /\ Append(s, f) \in Seq(Frames) /\ Len(Append(s, f)) = Len(s) + 1
         /\ \A i \in 1..Len(s) : Append(s, f)[i] = s[i]
         /\ Append(s, f)[Len(s) + 1] = f
OBVIOUS

\* One activation fewer.
LEMMA PoppedFrames ==
  ASSUME NEW s \in Seq(Frames), Len(s) > 1
  PROVE  /\ SubSeq(s, 1, Len(s) - 1) \in Seq(Frames)
         /\ Len(SubSeq(s, 1, Len(s) - 1)) = Len(s) - 1
         /\ \A i \in 1..(Len(s) - 1) : SubSeq(s, 1, Len(s) - 1)[i] = s[i]
OBVIOUS

\* The tasks behind the first one.
LEMMA QueueTail ==
  ASSUME NEW q \in Seq(Tasks), q # <<>>
  PROVE  /\ Head(q) \in Tasks /\ Head(q) = q[1] /\ 1 \in 1..Len(q)
         /\ Tail(q) \in Seq(Tasks) /\ Len(Tail(q)) = Len(q) - 1
         /\ \A i \in 1..Len(Tail(q)) : Tail(q)[i] = q[i + 1] /\ i + 1 \in 1..Len(q)
OBVIOUS

\* A further task.
LEMMA QueueAppend ==
  ASSUME NEW q \in Seq(Tasks), NEW k \in Tasks
  PROVE  /\ Append(q, k) \in Seq(Tasks) /\ Len(Append(q, k)) = Len(q) + 1
         /\ \A i \in 1..Len(q) : Append(q, k)[i] = q[i]
         /\ Append(q, k)[Len(q) + 1] = k
OBVIOUS

(***************************************************************************)
(* The invariant.                                                          *)
(***************************************************************************)
\* A run starts in it.
LEMMA InitEstablishes == Init => IInv
<1> SUFFICES ASSUME Init PROVE IInv OBVIOUS
<1> USE DEF Init
<1>1. <<Activation(Program, 0)>> \in Seq(Frames) BY DEF Activation, Frames
<1>2. stack[Main] = <<Activation(Program, 0)>> /\ \A w \in Workers : stack[w] = <<>> OBVIOUS
<1>3. TypeOK
  <2>1. stack \in [Threads -> Seq(Frames)] BY <1>1
  <2>2. queue \in Seq(Tasks) OBVIOUS
  <2>3. /\ worker \in [Workers -> {"idle", "popped", "running", "finished", "exited"}]
        /\ task \in [Workers -> Tasks \cup {NoTask}]
        /\ future \in [Threads -> {"none", "pending"} \cup Ends]
    OBVIOUS
  <2> QED BY <2>1, <2>2, <2>3 DEF TypeOK
<1>4. DepthsAgree BY <1>2 DEF DepthsAgree, Base, Activation
<1>5. WorkersAgree BY <1>2 DEF WorkersAgree
<1>6. AwaitAgrees BY DEF AwaitAgrees, Entrusted
<1>7. PhaseAgrees BY <1>2 DEF PhaseAgrees, Activation
<1>8. FailuresAgree BY DEF FailuresAgree
<1> QED BY <1>3, <1>4, <1>5, <1>6, <1>7, <1>8 DEF IInv

\* A thread that executes has an activation; a worker then runs a task.
LEMMA ExecutingThread ==
  ASSUME IInv, NEW t \in Threads, Executing(t)
  PROVE  /\ stack[t] \in Seq(Frames) /\ Len(stack[t]) \in Nat \ {0}
         /\ Top(t) \in Frames /\ Top(t) = stack[t][Len(stack[t])]
         /\ future[t] = "none"
         /\ t \in Workers => worker[t] = "running" /\ task[t] \in Tasks
         /\ Top(t).depth = Base(t) + Len(stack[t]) - 1
         /\ Base(t) \in Nat
<1>1. stack[t] \in Seq(Frames) /\ stack[t] # <<>> BY DEF IInv, TypeOK, Executing
<1>2. Len(stack[t]) \in Nat \ {0} /\ Len(stack[t]) \in 1..Len(stack[t]) BY <1>1
<1>3. Top(t) \in Frames /\ Top(t) = stack[t][Len(stack[t])] BY <1>1, <1>2 DEF Top
<1>4. future[t] = "none" BY DEF Executing, Awaiting
<1>5. t \in Workers => worker[t] = "running" /\ task[t] \in Tasks
  BY <1>1 DEF IInv, WorkersAgree
<1>6. Base(t) \in Nat BY <1>5 DEF Base, Tasks
<1>7. Top(t).depth = Base(t) + Len(stack[t]) - 1 BY <1>2, <1>3 DEF IInv, DepthsAgree
<1> QED BY <1>1, <1>2, <1>3, <1>4, <1>5, <1>6, <1>7

\* A step within the activations of one thread.
LEMMA ActivationsPreserve ==
  ASSUME IInv, NEW t \in Threads, Executing(t),
         NEW s \in Seq(Frames), s # <<>>, s[1].function = stack[t][1].function,
         \A i \in 1..Len(s) : s[i].depth = Base(t) + i - 1 /\ s[i].depth < MaximumCallDepth,
         stack' = [stack EXCEPT ![t] = s], assertions' \in Nat,
         UNCHANGED <<mode, phase, interpreter, poolVars, future, outcome, failures>>
  PROVE  IInv'
<1> USE DEF poolVars
<1>0. /\ stack'[t] = s /\ \A u \in Threads : u # t => stack'[u] = stack[u]
      /\ stack[t] # <<>> /\ future[t] = "none"
  BY ExecutingThread DEF IInv, TypeOK, Executing
<1>1. TypeOK' BY DEF IInv, TypeOK
<1>2. DepthsAgree' BY <1>0 DEF IInv, DepthsAgree, Base
<1>3. WorkersAgree' BY <1>0 DEF IInv, WorkersAgree
<1>4. AwaitAgrees' BY <1>0 DEF IInv, AwaitAgrees, Entrusted
<1>5. PhaseAgrees' BY <1>0 DEF IInv, PhaseAgrees
<1>6. FailuresAgree' BY DEF IInv, FailuresAgree
<1> QED BY <1>1, <1>2, <1>3, <1>4, <1>5, <1>6 DEF IInv

\* The main thread fails; it awaits no task any more that still has to end.
LEMMA MainFailurePreserves ==
  ASSUME IInv, NEW what \in {Assertion, Work}, phase = "executing", future[Main] # "pending",
         Fail(Main, what), assertions' \in Nat
  PROVE  IInv'
<1>0. /\ failures' = failures \cup {<<"caller", what>>}
      /\ stack' = [stack EXCEPT ![Main] = <<>>]
      /\ phase' = "unwinding" /\ outcome' = "failure"
      /\ future' = [future EXCEPT ![Main] = "none"]
      /\ UNCHANGED <<mode, interpreter, queue, worker, task, stopping>>
  BY DEF Fail, Behalf
<1>1. TypeOK'
  <2>1. failures' \subseteq Failures BY <1>0 DEF IInv, TypeOK, Failures
  <2>2. stack' \in [Threads -> Seq(Frames)] BY <1>0 DEF IInv, TypeOK
  <2>3. future' \in [Threads -> {"none", "pending"} \cup Ends] BY <1>0 DEF IInv, TypeOK
  <2> QED BY <1>0, <2>1, <2>2, <2>3 DEF IInv, TypeOK
<1>2. stack'[Main] = <<>> /\ \A w \in Workers : stack'[w] = stack[w] BY <1>0 DEF IInv, TypeOK
<1>3. future'[Main] = "none" /\ \A w \in Workers : future'[w] = future[w]
  BY <1>0 DEF IInv, TypeOK
<1>4. DepthsAgree' BY <1>0, <1>2 DEF IInv, DepthsAgree, Base
<1>5. WorkersAgree' BY <1>0, <1>2 DEF IInv, WorkersAgree
<1>6. AwaitAgrees' BY <1>0, <1>3 DEF IInv, AwaitAgrees, Entrusted
<1>7. PhaseAgrees' BY <1>0, <1>2, <1>3 DEF IInv, PhaseAgrees
<1>8. FailuresAgree' BY <1>0 DEF IInv, FailuresAgree
<1> QED BY <1>1, <1>4, <1>5, <1>6, <1>7, <1>8 DEF IInv

\* A task ends, with or without a failure, and its future is set.
LEMMA TaskEndPreserves ==
  ASSUME IInv, NEW w \in Workers, worker[w] \in {"popped", "running"},
         NEW end \in Ends, Publish(w, end), NEW what \in {Assertion, Work},
         \/ failures' = failures
         \/ /\ failures' = failures \cup {<<Behalf(w), what>>}
            /\ end = IF stopping THEN "cancelled" ELSE "failed",
         assertions' \in Nat,
         UNCHANGED <<mode, phase, interpreter, queue, task, stopping, outcome>>
  PROVE  IInv'
<1> USE DEF Publish
<1>0. task[w] \in Tasks /\ (task[w].waiter # Nobody => task[w].waiter = Main /\ future[Main] = "pending")
  BY DEF IInv, WorkersAgree, AwaitAgrees, Entrusted
<1>1. /\ stack'[w] = <<>> /\ \A t \in Threads : t # w => stack'[t] = stack[t]
      /\ worker'[w] = "finished" /\ \A v \in Workers : v # w => worker'[v] = worker[v]
  BY DEF IInv, TypeOK
<1>2. /\ task[w].waiter # Nobody => future'[Main] = end
      /\ task[w].waiter = Nobody => future'[Main] = future[Main]
      /\ \A v \in Workers : future'[v] = future[v]
  BY <1>0 DEF IInv, AwaitAgrees
<1>3. TypeOK'
  <2>1. failures' \subseteq Failures
    BY <1>0 DEF IInv, TypeOK, Failures, Behalf
  <2>2. stack' \in [Threads -> Seq(Frames)] BY DEF IInv, TypeOK
  <2>3. future' \in [Threads -> {"none", "pending"} \cup Ends] BY DEF IInv, TypeOK
  <2> QED BY <2>1, <2>2, <2>3 DEF IInv, TypeOK
<1>4. DepthsAgree' BY <1>1 DEF IInv, DepthsAgree, Base
<1>5. WorkersAgree' BY <1>1 DEF IInv, WorkersAgree
<1>6. AwaitAgrees'
  <2>1. \A v \in Workers : Entrusted(v)' => Entrusted(v) /\ v # w BY <1>1 DEF Entrusted
  <2>2. CASE task[w].waiter = Nobody BY <1>1, <1>2, <2>1, <2>2 DEF IInv, AwaitAgrees, Entrusted
  <2>3. CASE task[w].waiter # Nobody
    <3>1. Entrusted(w) BY <2>3 DEF Entrusted
    <3>2. \A v \in Workers : ~Entrusted(v)' BY <2>1, <3>1 DEF IInv, AwaitAgrees
    <3>3. \A i \in 1..Len(queue) : queue[i].waiter = Nobody BY <3>1 DEF IInv, AwaitAgrees
    <3> QED BY <1>2, <3>2, <3>3 DEF IInv, AwaitAgrees
  <2> QED BY <2>2, <2>3
<1>7. PhaseAgrees' BY <1>0, <1>1, <1>2 DEF IInv, PhaseAgrees
<1>8. FailuresAgree'
  <2>1. task[w].waiter # Nobody => outcome = "none" /\ ~stopping BY <1>0 DEF IInv, PhaseAgrees
  <2>2. ASSUME NEW f \in failures
        PROVE  \/ f[1] = "detached" \/ outcome = "failure"
               \/ f[1] = "awaited" /\ future'[Main] = "failed"
    BY <1>0, <1>2, <2>1, <2>2 DEF IInv, FailuresAgree
  <2>3. CASE failures' = failures BY <2>2, <2>3 DEF FailuresAgree
  <2>4. CASE /\ failures' = failures \cup {<<Behalf(w), what>>}
             /\ end = IF stopping THEN "cancelled" ELSE "failed"
    <3>1. task[w].waiter = Nobody => Behalf(w) = "detached" BY DEF Behalf
    <3>2. task[w].waiter # Nobody => Behalf(w) = "awaited" /\ future'[Main] = "failed"
      BY <1>2, <2>1, <2>4 DEF Behalf
    <3> QED BY <2>2, <2>4, <3>1, <3>2 DEF FailuresAgree
  <2> QED BY <2>3, <2>4
<1> QED BY <1>3, <1>4, <1>5, <1>6, <1>7, <1>8 DEF IInv

\* A failure on any thread that executes, or on a worker about to.
LEMMA FailurePreserves ==
  ASSUME IInv, NEW t \in Threads, NEW what \in {Assertion, Work}, Fail(t, what), assertions' \in Nat,
         t = Main => phase = "executing" /\ future[Main] # "pending",
         t # Main => worker[t] \in {"popped", "running"}
  PROVE  IInv'
<1>1. CASE t = Main BY <1>1, MainFailurePreserves
<1>2. CASE t # Main
  <2> DEFINE end == IF stopping THEN "cancelled" ELSE "failed"
  <2>1. /\ t \in Workers /\ end \in Ends /\ Publish(t, end)
        /\ failures' = failures \cup {<<Behalf(t), what>>}
        /\ UNCHANGED <<mode, phase, interpreter, queue, task, stopping, outcome>>
    BY <1>2 DEF Fail
  <2> QED BY <1>2, <2>1, TaskEndPreserves
<1> QED BY <1>1, <1>2

(***************************************************************************)
(* The interpreter.                                                        *)
(***************************************************************************)
\* Only the main thread submits and awaits; a worker runs everything inline.
LEMMA AwaitingThread ==
  ASSUME IInv, NEW t \in Threads, future[t] # "none"
  PROVE  t = Main /\ phase = "executing"
BY DEF IInv, AwaitAgrees, PhaseAgrees

\* A call on the thread that makes it.
LEMMA CallInlinePreserves ==
  ASSUME IInv, NEW t \in Threads, CallInline(t) PROVE IInv'
<1>1. PICK f \in Functions :
        /\ At(t, f) /\ ~TooDeep(CalleeDepth(t))
        /\ stack' = [stack EXCEPT ![t] = Append(Advanced(@), Activation(f, CalleeDepth(t)))]
        /\ UNCHANGED <<mode, phase, interpreter, poolVars, future, assertions, outcome, failures>>
  BY DEF CallInline
<1> DEFINE a == Advanced(stack[t])
           c == Activation(f, CalleeDepth(t))
<1>2. Executing(t) BY <1>1 DEF At
<1>3. /\ stack[t] \in Seq(Frames) /\ Len(stack[t]) \in Nat \ {0} /\ stack[t] # <<>>
      /\ Top(t).depth = Base(t) + Len(stack[t]) - 1 /\ Base(t) \in Nat
  BY <1>2, ExecutingThread DEF Executing
<1>4. CalleeDepth(t) = Base(t) + Len(stack[t]) /\ CalleeDepth(t) \in Nat
  BY SMTT(30), <1>3 DEF CalleeDepth
<1>5. c \in Frames /\ c.depth = Base(t) + Len(stack[t])
  BY <1>4 DEF Activation, Frames
<1>6. /\ a \in Seq(Frames) /\ Len(a) = Len(stack[t])
      /\ \A i \in 1..Len(stack[t]) : a[i].function = stack[t][i].function
                                     /\ a[i].depth = stack[t][i].depth
  BY <1>3, AdvancedFrames
<1> HIDE DEF a, c
<1>7. /\ Append(a, c) \in Seq(Frames) /\ Len(Append(a, c)) = Len(stack[t]) + 1
      /\ \A i \in 1..Len(stack[t]) : Append(a, c)[i] = a[i]
      /\ Append(a, c)[Len(stack[t]) + 1] = c
  BY <1>5, <1>6, PushedFrames
<1>8. stack' = [stack EXCEPT ![t] = Append(a, c)] BY <1>1 DEF a, c
<1>9. Base(t) + Len(stack[t]) < MaximumCallDepth BY <1>1, <1>3, <1>4
<1>10. \A i \in 1..Len(stack[t]) :
         stack[t][i].depth = Base(t) + i - 1 /\ stack[t][i].depth < MaximumCallDepth
  BY DEF IInv, DepthsAgree
<1>11. ASSUME NEW i \in 1..Len(Append(a, c))
       PROVE  Append(a, c)[i].depth = Base(t) + i - 1 /\ Append(a, c)[i].depth < MaximumCallDepth
  <2>1. CASE i \in 1..Len(stack[t]) BY <1>6, <1>7, <1>10, <2>1
  <2>2. CASE i = Len(stack[t]) + 1 BY SMTT(30), <1>3, <1>5, <1>7, <1>9, <2>2
  <2> QED BY SMTT(30), <1>3, <1>7, <2>1, <2>2
<1>12. Append(a, c)[1].function = stack[t][1].function /\ Append(a, c) # <<>>
  BY <1>3, <1>6, <1>7
<1>13. assertions' \in Nat BY <1>1 DEF IInv, TypeOK
<1> HIDE <1>10
<1> QED BY <1>1, <1>2, <1>7, <1>8, <1>11, <1>12, <1>13, ActivationsPreserve

\* The next statement of the same activation: an assertion or other work that
\* succeeds, and a branch that is not taken.
LEMMA AdvancePreserves ==
  ASSUME IInv, NEW t \in Threads, Executing(t),
         stack' = [stack EXCEPT ![t] = Advanced(@)], assertions' \in Nat,
         UNCHANGED <<mode, phase, interpreter, poolVars, future, outcome, failures>>
  PROVE  IInv'
<1>1. stack[t] \in Seq(Frames) /\ Len(stack[t]) \in Nat \ {0} /\ stack[t] # <<>>
  BY ExecutingThread DEF Executing
<1> DEFINE a == Advanced(stack[t])
<1>2. /\ a \in Seq(Frames) /\ Len(a) = Len(stack[t])
      /\ \A i \in 1..Len(stack[t]) : a[i].function = stack[t][i].function
                                     /\ a[i].depth = stack[t][i].depth
  BY <1>1, AdvancedFrames
<1>3. \A i \in 1..Len(stack[t]) :
        stack[t][i].depth = Base(t) + i - 1 /\ stack[t][i].depth < MaximumCallDepth
  BY DEF IInv, DepthsAgree
<1>4. stack' = [stack EXCEPT ![t] = a] OBVIOUS
<1> HIDE DEF a
<1>5. a # <<>> /\ a[1].function = stack[t][1].function BY <1>1, <1>2
<1>6. \A i \in 1..Len(a) : a[i].depth = Base(t) + i - 1 /\ a[i].depth < MaximumCallDepth
  BY <1>2, <1>3
<1> QED BY <1>2, <1>4, <1>5, <1>6, ActivationsPreserve

\* A function returns, to its caller or to the pool.
LEMMA ReturnPreserves ==
  ASSUME IInv, NEW t \in Threads, Return(t) PROVE IInv'
<1>1. /\ stack[t] \in Seq(Frames) /\ Len(stack[t]) \in Nat \ {0} /\ stack[t] # <<>>
      /\ Executing(t) /\ Top(t) = stack[t][Len(stack[t])]
  BY ExecutingThread DEF Executing, Return
<1>2. assertions' \in Nat BY DEF Return, IInv, TypeOK
<1>3. CASE Len(stack[t]) > 1
  <2> DEFINE p == SubSeq(stack[t], 1, Len(stack[t]) - 1)
  <2>1. p \in Seq(Frames) /\ Len(p) = Len(stack[t]) - 1
        /\ \A i \in 1..(Len(stack[t]) - 1) : p[i] = stack[t][i]
    BY <1>1, <1>3, PoppedFrames
  <2>2. /\ stack' = [stack EXCEPT ![t] = p]
        /\ UNCHANGED <<mode, phase, interpreter, poolVars, future, outcome, failures>>
    BY <1>3 DEF Return, poolVars
  <2>3. \A i \in 1..Len(stack[t]) :
          stack[t][i].depth = Base(t) + i - 1 /\ stack[t][i].depth < MaximumCallDepth
    BY DEF IInv, DepthsAgree
  <2> HIDE DEF p
  <2>4. p # <<>> /\ p[1].function = stack[t][1].function BY <1>1, <1>3, <2>1
  <2>5. ASSUME NEW i \in 1..Len(p)
        PROVE  p[i].depth = Base(t) + i - 1 /\ p[i].depth < MaximumCallDepth
    <3>1. i \in 1..Len(stack[t]) /\ i \in 1..(Len(stack[t]) - 1) BY <1>1, <2>1
    <3>2. p[i] = stack[t][i] BY <2>1, <3>1
    <3> HIDE DEF Base
    <3> QED BY <2>3, <3>1, <3>2
  <2> QED BY <1>1, <1>2, <2>1, <2>2, <2>4, <2>5, ActivationsPreserve
<1>4. CASE ~(Len(stack[t]) > 1)
  <2> DEFINE end == IF stopping THEN "cancelled" ELSE "success"
  <2>0. Len(stack[t]) = 1
    <3>1. \A n \in Nat \ {0} : ~(n > 1) => n = 1 OBVIOUS
    <3> QED BY <1>1, <1>4, <3>1
  <2>1. Top(t) = stack[t][1]
    <3>1. Top(t) = stack[t][Len(stack[t])] BY <1>1
    <3> QED BY <2>0, <3>1
  <2>2. t # Main BY <1>1, <2>1 DEF Return, IInv, PhaseAgrees
  <2>3. t \in Workers /\ worker[t] = "running" BY <1>1, <2>2, ExecutingThread
  <2>4. /\ end \in Ends /\ Publish(t, end) /\ failures' = failures
        /\ UNCHANGED <<mode, phase, interpreter, queue, task, stopping, outcome>>
    BY <1>4 DEF Return
  <2>5. Work \in {Assertion, Work} OBVIOUS
  <2> QED BY <1>2, <2>3, <2>4, <2>5, TaskEndPreserves
<1> QED BY <1>3, <1>4

\* A task that ends because it is cancelled.
LEMMA CancelledPreserves ==
  ASSUME IInv, NEW w \in Workers, worker[w] \in {"popped", "running"}, Cancelled(w) PROVE IInv'
<1>1. /\ "cancelled" \in Ends /\ Publish(w, "cancelled") /\ failures' = failures
      /\ UNCHANGED <<mode, phase, interpreter, queue, task, stopping, outcome>>
      /\ assertions' \in Nat /\ Work \in {Assertion, Work}
  BY DEF Cancelled, IInv, TypeOK
<1> QED BY <1>1, TaskEndPreserves

\* A call that goes to the pool.
LEMMA SubmitPreserves ==
  ASSUME IInv, NEW t \in Threads, Submit(t) PROVE IInv'
<1> DEFINE waiterOf(f) == IF Policy[f] = "AsyncAfter" THEN t ELSE Nobody
           taskOf(f) == [function |-> f, depth |-> CalleeDepth(t), waiter |-> waiterOf(f)]
<1>1. PICK f \in Functions :
        /\ At(t, f) /\ ~Inline(t, f)
        /\ queue' = Append(queue, taskOf(f))
        /\ stack' = [stack EXCEPT ![t] = Advanced(@)]
        /\ future' = IF waiterOf(f) = t THEN [future EXCEPT ![t] = "pending"] ELSE future
        /\ UNCHANGED <<mode, phase, interpreter, worker, task, stopping, assertions, outcome,
                       failures>>
  BY DEF Submit
<1>2. t = Main /\ Executing(Main) BY <1>1 DEF Inline, At
<1>3. /\ stack[Main] \in Seq(Frames) /\ Len(stack[Main]) \in Nat \ {0} /\ stack[Main] # <<>>
      /\ future[Main] = "none" /\ Top(Main).depth = Len(stack[Main]) - 1 /\ phase = "executing"
  BY <1>2, ExecutingThread DEF Executing, Base
<1>4. CalleeDepth(Main) = Len(stack[Main]) BY <1>3 DEF CalleeDepth
<1> DEFINE k == taskOf(f)
           a == Advanced(stack[Main])
<1>5. /\ k \in Tasks /\ k.waiter \in {Main, Nobody} /\ k.depth = Len(stack[Main])
      /\ k.waiter = Nobody => future' = future
      /\ k.waiter = Main => future' = [future EXCEPT ![Main] = "pending"]
  BY <1>1, <1>2, <1>3, <1>4 DEF Tasks
<1>6. /\ a \in Seq(Frames) /\ Len(a) = Len(stack[Main])
      /\ \A i \in 1..Len(stack[Main]) : a[i].function = stack[Main][i].function
                                        /\ a[i].depth = stack[Main][i].depth
  BY <1>3, AdvancedFrames
<1>7. queue' = Append(queue, k) /\ stack' = [stack EXCEPT ![Main] = a] BY <1>1, <1>2
<1> HIDE DEF k, a
<1>8. /\ stack'[Main] = a /\ \A w \in Workers : stack'[w] = stack[w]
      /\ a # <<>> /\ a[1].function = stack[Main][1].function
  BY <1>3, <1>6, <1>7 DEF IInv, TypeOK
<1>9. /\ queue \in Seq(Tasks) /\ queue' \in Seq(Tasks) /\ Len(queue') = Len(queue) + 1
      /\ \A i \in 1..Len(queue) : queue'[i] = queue[i]
      /\ queue'[Len(queue) + 1] = k
  BY <1>5, <1>7, QueueAppend DEF IInv, TypeOK
<1>10. /\ k.waiter = Main => future'[Main] = "pending"
       /\ \A w \in Workers : future'[w] = future[w]
  BY <1>5 DEF IInv, TypeOK
<1>11. TypeOK'
  <2>1. stack' \in [Threads -> Seq(Frames)] BY <1>6, <1>7 DEF IInv, TypeOK
  <2>2. future' \in [Threads -> {"none", "pending"} \cup Ends] BY <1>5 DEF IInv, TypeOK
  <2> QED BY <1>1, <1>9, <2>1, <2>2 DEF IInv, TypeOK
<1>12. DepthsAgree'
  <2>1. ASSUME NEW i \in 1..Len(a)
        PROVE  a[i].depth = 0 + i - 1 /\ a[i].depth < MaximumCallDepth
    BY <1>6 DEF IInv, DepthsAgree, Base
  <2> QED BY <1>1, <1>8, <2>1 DEF IInv, DepthsAgree, Base
<1>13. WorkersAgree'
  <2>1. \A w \in Workers : worker[w] # "exited"
    BY <1>3 DEF IInv, WorkersAgree, PhaseAgrees
  <2> QED BY <1>1, <1>8, <2>1 DEF IInv, WorkersAgree
<1>14. AwaitAgrees'
  <2>1. (\A i \in 1..Len(queue) : queue[i].waiter = Nobody) /\ \A w \in Workers : ~Entrusted(w)
    BY <1>3 DEF IInv, AwaitAgrees
  <2>2. \A w \in Workers : ~Entrusted(w)' BY <1>1, <2>1 DEF Entrusted
  <2>3. \A i \in 1..Len(queue') : queue'[i].waiter # Nobody => i = Len(queue) + 1 /\ queue'[i] = k
    <3>1. Len(queue) \in Nat BY <1>9
    <3> SUFFICES ASSUME NEW i \in 1..Len(queue'), queue'[i].waiter # Nobody
                 PROVE  i = Len(queue) + 1 /\ queue'[i] = k
      OBVIOUS
    <3>2. i \notin 1..Len(queue) BY <1>9, <2>1
    <3>3. i = Len(queue) + 1 BY <1>9, <3>1, <3>2
    <3> QED BY <1>9, <3>3
  <2>4. Len(stack'[Main]) = Len(stack[Main]) BY <1>6, <1>8
  <2>5. \A w \in Workers : future'[w] = "none" BY <1>10 DEF IInv, AwaitAgrees
  <2> QED BY <1>5, <1>10, <2>2, <2>3, <2>4, <2>5 DEF AwaitAgrees
<1>15. PhaseAgrees' BY <1>1, <1>3, <1>8 DEF IInv, PhaseAgrees
<1>16. FailuresAgree' BY <1>1, <1>3 DEF IInv, FailuresAgree
<1> QED BY <1>11, <1>12, <1>13, <1>14, <1>15, <1>16 DEF IInv

\* The awaited task has succeeded.
LEMMA AwaitSucceedsPreserves ==
  ASSUME IInv, NEW t \in Threads, AwaitSucceeds(t) PROVE IInv'
<1> USE DEF AwaitSucceeds, poolVars
<1>0. t = Main /\ phase = "executing" /\ future[Main] = "success" BY AwaitingThread
<1>1. TypeOK' BY DEF IInv, TypeOK
<1>2. future'[Main] = "none" /\ \A w \in Workers : future'[w] = future[w] BY <1>0 DEF IInv, TypeOK
<1>3. DepthsAgree' BY DEF IInv, DepthsAgree, Base
<1>4. WorkersAgree' BY DEF IInv, WorkersAgree
<1>5. AwaitAgrees' BY <1>0, <1>2 DEF IInv, AwaitAgrees, Entrusted
<1>6. PhaseAgrees' BY <1>2 DEF IInv, PhaseAgrees
<1>7. FailuresAgree' BY <1>0 DEF IInv, FailuresAgree
<1> QED BY <1>1, <1>3, <1>4, <1>5, <1>6, <1>7 DEF IInv

\* Every step of the interpreter.
LEMMA InterpretPreserves ==
  ASSUME IInv, NEW t \in Threads, Interpret(t) PROVE IInv'
<1>0. Work \in {Assertion, Work} /\ Assertion \in {Assertion, Work} OBVIOUS
<1>1. CASE CallInline(t) BY <1>1, CallInlinePreserves
<1>2. CASE CallTooDeep(t)
  <2>1. Executing(t) /\ Fail(t, Work) /\ assertions' \in Nat
    BY <1>2 DEF CallTooDeep, At, IInv, TypeOK
  <2> QED BY <1>0, <2>1, FailurePreserves, ExecutingThread DEF Executing
<1>3. CASE CallCancelled(t)
  <2>1. Executing(t) /\ t \in Workers /\ Cancelled(t) BY <1>3 DEF CallCancelled, At
  <2> QED BY <2>1, CancelledPreserves, ExecutingThread
<1>4. CASE Submit(t) BY <1>4, SubmitPreserves
<1>5. CASE AwaitSucceeds(t) BY <1>5, AwaitSucceedsPreserves
<1>6. CASE AwaitFails(t)
  <2>1. future[t] \notin {"none", "pending"} /\ Fail(t, Work) /\ assertions' \in Nat
    BY <1>6 DEF AwaitFails, IInv, TypeOK
  <2>2. t = Main /\ phase = "executing" BY <2>1, AwaitingThread
  <2> QED BY <1>0, <2>1, <2>2, FailurePreserves
<1>7. CASE AssertHolds(t)
  <2>1. /\ Executing(t) /\ stack' = [stack EXCEPT ![t] = Advanced(@)] /\ assertions' \in Nat
        /\ UNCHANGED <<mode, phase, interpreter, poolVars, future, outcome, failures>>
    BY <1>7 DEF AssertHolds, At, IInv, TypeOK
  <2> QED BY <2>1, AdvancePreserves
<1>8. CASE AssertFails(t)
  <2>1. Executing(t) /\ Fail(t, Assertion) /\ assertions' \in Nat
    BY <1>8 DEF AssertFails, At, IInv, TypeOK
  <2> QED BY <1>0, <2>1, FailurePreserves, ExecutingThread DEF Executing
<1>9. CASE WorkSucceeds(t)
  <2>1. /\ Executing(t) /\ stack' = [stack EXCEPT ![t] = Advanced(@)] /\ assertions' \in Nat
        /\ UNCHANGED <<mode, phase, interpreter, poolVars, future, outcome, failures>>
    BY <1>9 DEF WorkSucceeds, At, IInv, TypeOK
  <2> QED BY <2>1, AdvancePreserves
<1>10. CASE WorkFails(t)
  <2>1. Executing(t) /\ Fail(t, Work) /\ assertions' \in Nat
    BY <1>10 DEF WorkFails, At, IInv, TypeOK
  <2> QED BY <1>0, <2>1, FailurePreserves, ExecutingThread DEF Executing
<1>11. CASE Skip(t)
  <2>1. /\ Executing(t) /\ stack' = [stack EXCEPT ![t] = Advanced(@)] /\ assertions' \in Nat
        /\ UNCHANGED <<mode, phase, interpreter, poolVars, future, outcome, failures>>
    BY <1>11 DEF Skip, IInv, TypeOK
  <2> QED BY <2>1, AdvancePreserves
<1>12. CASE Return(t) BY <1>12, ReturnPreserves
<1> QED BY <1>1, <1>2, <1>3, <1>4, <1>5, <1>6, <1>7, <1>8, <1>9, <1>10, <1>11, <1>12 DEF Interpret

(***************************************************************************)
(* The workers.                                                            *)
(***************************************************************************)
\* A worker takes the first task: it is awaited there as it was in the queue.
LEMMA PopPreserves ==
  ASSUME IInv, NEW w \in Workers, Pop(w) PROVE IInv'
<1> USE DEF Pop
<1>0. queue \in Seq(Tasks) BY DEF IInv, TypeOK
<1>1. /\ Head(queue) \in Tasks /\ Head(queue) = queue[1] /\ 1 \in 1..Len(queue)
      /\ queue' \in Seq(Tasks) /\ Len(queue') = Len(queue) - 1
      /\ \A i \in 1..Len(queue') : queue'[i] = queue[i + 1] /\ i + 1 \in 1..Len(queue)
  BY <1>0, QueueTail
<1>2. /\ task'[w] = queue[1] /\ \A v \in Workers : v # w => task'[v] = task[v]
      /\ worker'[w] = "popped" /\ \A v \in Workers : v # w => worker'[v] = worker[v]
  BY <1>1 DEF IInv, TypeOK
<1>3. stack[w] = <<>> BY DEF IInv, WorkersAgree
<1>4. TypeOK' BY <1>1 DEF IInv, TypeOK
<1>5. DepthsAgree'
  <2>1. ASSUME NEW t \in Threads, t # w PROVE Base(t)' = Base(t) BY <1>2, <2>1 DEF Base
  <2>2. ASSUME NEW t \in Threads, NEW i \in 1..Len(stack[t])
        PROVE  stack[t][i].depth = Base(t)' + i - 1 /\ stack[t][i].depth < MaximumCallDepth
    <3>1. t # w BY <1>3
    <3> QED BY <2>1, <3>1 DEF IInv, DepthsAgree
  <2> QED BY <2>2 DEF DepthsAgree
<1>6. WorkersAgree' BY <1>1, <1>2, <1>3 DEF IInv, WorkersAgree
<1>7. AwaitAgrees'
  <2>1. \A v \in Workers : v # w => Entrusted(v)' = Entrusted(v) BY <1>2 DEF Entrusted
  <2>2. Entrusted(w)' = (queue[1].waiter # Nobody) BY <1>2 DEF Entrusted
  <2>3. ~Entrusted(w) BY DEF Entrusted
  <2>4. Len(stack'[Main]) = Len(stack[Main]) /\ future' = future OBVIOUS
  <2>5. CASE queue[1].waiter # Nobody
    <3>1. /\ queue[1].waiter = Main /\ future[Main] = "pending" /\ queue[1].depth = Len(stack[Main])
          /\ \A j \in 1..Len(queue) : queue[j].waiter # Nobody => j = 1
          /\ \A v \in Workers : ~Entrusted(v)
      BY <1>1, <2>5 DEF IInv, AwaitAgrees
    <3>2. \A i \in 1..Len(queue') : queue'[i].waiter = Nobody BY <1>0, <1>1, <3>1
    <3>3. \A v \in Workers : Entrusted(v)' => v = w BY <2>1, <3>1
    <3>4. \A v \in Workers : Entrusted(v)' =>
            /\ task'[v].waiter = Main /\ future'[Main] = "pending"
            /\ task'[v].depth = Len(stack'[Main])
      BY <1>2, <2>4, <3>1, <3>3
    <3>5. \A v \in Workers : future'[v] = "none" BY <2>4 DEF IInv, AwaitAgrees
    <3> QED BY <3>2, <3>3, <3>4, <3>5 DEF AwaitAgrees
  <2>6. CASE queue[1].waiter = Nobody
    <3>1. \A v \in Workers : Entrusted(v)' => Entrusted(v) /\ v # w BY <2>1, <2>2, <2>6
    <3>2. ASSUME NEW i \in 1..Len(queue'), queue'[i].waiter # Nobody
          PROVE  /\ queue'[i].waiter = Main /\ future'[Main] = "pending"
                 /\ queue'[i].depth = Len(stack'[Main])
                 /\ \A v \in Workers : ~Entrusted(v)'
      <4>1. i + 1 \in 1..Len(queue) /\ queue[i + 1].waiter # Nobody BY <1>1, <3>2
      <4> QED BY <1>1, <2>4, <3>1, <4>1 DEF IInv, AwaitAgrees
    <3>3. ASSUME NEW i \in 1..Len(queue'), queue'[i].waiter # Nobody,
                 NEW j \in 1..Len(queue'), queue'[j].waiter # Nobody
          PROVE  j = i
      <4>1. /\ i + 1 \in 1..Len(queue) /\ queue[i + 1].waiter # Nobody
            /\ j + 1 \in 1..Len(queue) /\ queue[j + 1].waiter # Nobody
        BY <1>1, <3>3
      <4>2. j + 1 = i + 1 BY <4>1 DEF IInv, AwaitAgrees
      <4> QED BY <4>2
    <3>4. ASSUME NEW v \in Workers, Entrusted(v)'
          PROVE  /\ task'[v].waiter = Main /\ future'[Main] = "pending"
                 /\ task'[v].depth = Len(stack'[Main])
                 /\ \A u \in Workers : Entrusted(u)' => u = v
      BY <1>2, <2>4, <3>1, <3>4 DEF IInv, AwaitAgrees
    <3>5. \A v \in Workers : future'[v] = "none" BY <2>4 DEF IInv, AwaitAgrees
    <3> QED BY <3>2, <3>3, <3>4, <3>5 DEF AwaitAgrees
  <2> QED BY <2>5, <2>6
<1>8. PhaseAgrees' BY DEF IInv, PhaseAgrees
<1>9. FailuresAgree' BY DEF IInv, FailuresAgree
<1> QED BY <1>4, <1>5, <1>6, <1>7, <1>8, <1>9 DEF IInv

\* A worker enters the function of its task.
LEMMA BeginPreserves ==
  ASSUME IInv, NEW w \in Workers, Begin(w) PROVE IInv'
<1> USE DEF Begin
<1> DEFINE c == Activation(task[w].function, task[w].depth)
<1>0. task[w] \in Tasks BY DEF IInv, WorkersAgree
<1>1. c \in Frames /\ c.depth = task[w].depth BY <1>0 DEF Tasks, Frames, Activation
<1> HIDE DEF c
<1>2. stack' = [stack EXCEPT ![w] = <<c>>] BY DEF c
<1>3. /\ <<c>> \in Seq(Frames) /\ <<c>> # <<>> /\ Len(<<c>>) = 1 /\ <<c>>[1] = c BY <1>1
<1>4. /\ stack'[w] = <<c>> /\ \A t \in Threads : t # w => stack'[t] = stack[t]
      /\ worker'[w] = "running" /\ \A v \in Workers : v # w => worker'[v] = worker[v]
  BY <1>2 DEF IInv, TypeOK
<1>5. TypeOK'
  <2>1. stack' \in [Threads -> Seq(Frames)] BY <1>2, <1>3 DEF IInv, TypeOK
  <2> QED BY <2>1 DEF IInv, TypeOK
<1>6. DepthsAgree'
  <2>1. \A t \in Threads : Base(t)' = Base(t) BY DEF Base
  <2>2. Base(w) = task[w].depth /\ task[w].depth < MaximumCallDepth /\ task[w].depth \in Nat
    BY <1>0 DEF Base, Tasks
  <2>3. ASSUME NEW i \in 1..Len(<<c>>)
        PROVE  <<c>>[i].depth = Base(w) + i - 1 /\ <<c>>[i].depth < MaximumCallDepth
    <3>1. i = 1 BY <1>3
    <3> QED BY <1>1, <1>3, <2>2, <3>1
  <2>4. ASSUME NEW t \in Threads, NEW i \in 1..Len(stack'[t])
        PROVE  stack'[t][i].depth = Base(t) + i - 1 /\ stack'[t][i].depth < MaximumCallDepth
    <3>1. CASE t = w BY <1>4, <2>3, <3>1
    <3>2. CASE t # w BY <1>4, <3>2 DEF IInv, DepthsAgree
    <3> QED BY <3>1, <3>2
  <2> QED BY <2>1, <2>4 DEF DepthsAgree
<1>7. WorkersAgree'
  <2>1. UNCHANGED <<task, stopping, queue>> OBVIOUS
  <2> HIDE DEF Begin
  <2>2. ASSUME NEW v \in Workers
        PROVE  /\ stack'[v] # <<>> <=> worker'[v] = "running"
               /\ worker'[v] \in {"popped", "running", "finished"} => task'[v] \in Tasks
               /\ worker'[v] = "exited" => stopping' /\ queue' = <<>>
    <3>1. CASE v = w BY <1>0, <1>3, <1>4, <2>1, <3>1
    <3>2. CASE v # w BY <1>4, <2>1, <3>2 DEF IInv, WorkersAgree
    <3> QED BY <3>1, <3>2
  <2> QED BY <2>2 DEF WorkersAgree
<1>8. AwaitAgrees'
  <2>1. \A v \in Workers : Entrusted(v)' = Entrusted(v) BY <1>4 DEF Entrusted
  <2>2. stack'[Main] = stack[Main] BY <1>4
  <2> QED BY <2>1, <2>2 DEF IInv, AwaitAgrees
<1>9. PhaseAgrees' BY <1>4 DEF IInv, PhaseAgrees
<1>10. FailuresAgree' BY DEF IInv, FailuresAgree
<1> QED BY <1>5, <1>6, <1>7, <1>8, <1>9, <1>10 DEF IInv

\* A worker becomes idle again, or leaves its loop.
LEMMA LeavingPreserves ==
  ASSUME IInv, NEW w \in Workers, Release(w) \/ Exit(w) PROVE IInv'
<1> USE DEF Release, Exit
<1>1. /\ \A v \in Workers : v # w => worker'[v] = worker[v] /\ task'[v] = task[v]
      /\ worker'[w] \in {"idle", "exited"} /\ worker[w] \in {"finished", "idle"}
      /\ worker'[w] = "exited" => stopping /\ queue = <<>>
      /\ UNCHANGED <<mode, phase, interpreter, stack, queue, future, stopping, assertions, outcome,
                     failures>>
  BY DEF IInv, TypeOK
<1>2. stack[w] = <<>> BY <1>1 DEF IInv, WorkersAgree
<1>3. TypeOK' BY DEF IInv, TypeOK
<1>4. DepthsAgree'
  <2>1. \A t \in Threads : t # w => Base(t)' = Base(t) BY <1>1 DEF Base
  <2>2. ASSUME NEW t \in Threads, NEW i \in 1..Len(stack[t])
        PROVE  stack[t][i].depth = Base(t)' + i - 1 /\ stack[t][i].depth < MaximumCallDepth
    <3>1. t # w BY <1>2
    <3> QED BY <2>1, <3>1 DEF IInv, DepthsAgree
  <2> QED BY <1>1, <2>2 DEF DepthsAgree
<1>5. WorkersAgree' BY <1>1, <1>2 DEF IInv, WorkersAgree
<1>6. AwaitAgrees'
  <2>1. \A v \in Workers : Entrusted(v)' => Entrusted(v) /\ task'[v] = task[v]
    BY <1>1 DEF Entrusted
  <2>2. \A i \in 1..Len(queue') : queue'[i].waiter # Nobody =>
          /\ queue'[i].waiter = Main /\ future'[Main] = "pending"
          /\ queue'[i].depth = Len(stack'[Main])
          /\ \A j \in 1..Len(queue') : queue'[j].waiter # Nobody => j = i
          /\ \A v \in Workers : ~Entrusted(v)'
    BY <1>1, <2>1 DEF IInv, AwaitAgrees
  <2>3. \A v \in Workers : Entrusted(v)' =>
          /\ task'[v].waiter = Main /\ future'[Main] = "pending"
          /\ task'[v].depth = Len(stack'[Main])
          /\ \A u \in Workers : Entrusted(u)' => u = v
    BY <1>1, <2>1 DEF IInv, AwaitAgrees
  <2>4. \A v \in Workers : future'[v] = "none" BY <1>1 DEF IInv, AwaitAgrees
  <2> QED BY <2>2, <2>3, <2>4 DEF AwaitAgrees
<1>7. PhaseAgrees' BY <1>1 DEF IInv, PhaseAgrees
<1>8. FailuresAgree' BY <1>1 DEF IInv, FailuresAgree
<1> QED BY <1>3, <1>4, <1>5, <1>6, <1>7, <1>8 DEF IInv

(***************************************************************************)
(* ExecutionEngine::execute.                                               *)
(***************************************************************************)
\* interpreter.execute() returns.
LEMMA ProgramReturnsPreserves == IInv /\ ProgramReturns => IInv'
<1> SUFFICES ASSUME IInv, ProgramReturns PROVE IInv' OBVIOUS
<1> USE DEF ProgramReturns, poolVars
<1>0. phase = "executing" /\ future[Main] = "none" BY DEF Executing, Awaiting
<1>1. stack'[Main] = <<>> /\ \A w \in Workers : stack'[w] = stack[w] BY DEF IInv, TypeOK
<1>2. TypeOK'
  <2>1. stack' \in [Threads -> Seq(Frames)] BY DEF IInv, TypeOK
  <2> QED BY <2>1 DEF IInv, TypeOK
<1>3. DepthsAgree' BY <1>1 DEF IInv, DepthsAgree, Base
<1>4. WorkersAgree' BY <1>1 DEF IInv, WorkersAgree
<1>5. AwaitAgrees' BY <1>0 DEF IInv, AwaitAgrees, Entrusted
<1>6. PhaseAgrees' BY <1>0, <1>1 DEF IInv, PhaseAgrees
<1>7. FailuresAgree' BY DEF IInv, FailuresAgree
<1> QED BY <1>2, <1>3, <1>4, <1>5, <1>6, <1>7 DEF IInv

\* The steps after it change no activation, no task and no future.
LEMMA EndingPreserves ==
  ASSUME IInv, BecomesIdle \/ CheckAssertions \/ DestroyInterpreter \/ StopScheduler \/ JoinWorkers
  PROVE  IInv'
<1> USE DEF BecomesIdle, CheckAssertions, DestroyInterpreter, StopScheduler, JoinWorkers, poolVars
<1>0. /\ phase # "executing" /\ phase' # "executing" /\ future[Main] = "none"
      /\ UNCHANGED <<stack, queue, worker, task, future, failures>>
      /\ stopping => stopping'
  BY DEF IInv, PhaseAgrees, TypeOK
<1>1. TypeOK' BY DEF IInv, TypeOK
<1>2. DepthsAgree' BY <1>0 DEF IInv, DepthsAgree, Base
<1>3. WorkersAgree' BY <1>0 DEF IInv, WorkersAgree
<1>4. AwaitAgrees' BY <1>0 DEF IInv, AwaitAgrees, Entrusted
<1>5. PhaseAgrees'
  <2>1. CASE BecomesIdle BY <1>0, <2>1 DEF IInv, PhaseAgrees
  <2>2. CASE CheckAssertions BY <1>0, <2>2 DEF IInv, PhaseAgrees
  <2>3. CASE DestroyInterpreter BY <1>0, <2>3 DEF IInv, PhaseAgrees
  <2>4. CASE StopScheduler BY <1>0, <2>4 DEF IInv, PhaseAgrees
  <2>5. CASE JoinWorkers BY <1>0, <2>5 DEF IInv, PhaseAgrees
  <2> QED BY <2>1, <2>2, <2>3, <2>4, <2>5
<1>6. FailuresAgree' BY <1>0 DEF IInv, FailuresAgree, PhaseAgrees
<1> QED BY <1>1, <1>2, <1>3, <1>4, <1>5, <1>6 DEF IInv

\* Every step keeps the invariant.
LEMMA NextPreserves == IInv /\ [Next]_vars => IInv'
<1> SUFFICES ASSUME IInv, [Next]_vars PROVE IInv' OBVIOUS
<1>1. CASE MainStep
  <2>1. CASE Interpret(Main) BY <2>1, InterpretPreserves
  <2>2. CASE ~Interpret(Main)
    BY <1>1, <2>2, ProgramReturnsPreserves, EndingPreserves DEF MainStep
  <2> QED BY <2>1, <2>2
<1>2. ASSUME NEW w \in Workers, WorkerStep(w) PROVE IInv'
  <2>1. CASE Interpret(w) BY <2>1, InterpretPreserves
  <2>2. CASE Pop(w) BY <2>2, PopPreserves
  <2>3. CASE BeginCancelled(w) BY <2>3, CancelledPreserves DEF BeginCancelled
  <2>4. CASE BeginTooDeep(w)
    <3>1. /\ worker[w] = "popped" /\ Fail(w, Work) /\ assertions' \in Nat
          /\ Work \in {Assertion, Work} /\ w \in Threads /\ w # Main
      BY <2>4 DEF BeginTooDeep, IInv, TypeOK
    <3> QED BY <3>1, FailurePreserves
  <2>5. CASE Begin(w) BY <2>5, BeginPreserves
  <2>6. CASE Release(w) \/ Exit(w) BY <2>6, LeavingPreserves
  <2> QED BY <1>2, <2>1, <2>2, <2>3, <2>4, <2>5, <2>6 DEF WorkerStep
<1>3. CASE UNCHANGED vars
  <2> USE <1>3 DEF vars, poolVars
  <2>1. TypeOK' /\ DepthsAgree' BY DEF IInv, TypeOK, DepthsAgree, Base
  <2>2. WorkersAgree' /\ AwaitAgrees' BY DEF IInv, WorkersAgree, AwaitAgrees, Entrusted
  <2>3. PhaseAgrees' /\ FailuresAgree' BY DEF IInv, PhaseAgrees, FailuresAgree
  <2> QED BY <2>1, <2>2, <2>3 DEF IInv
<1> QED BY <1>1, <1>2, <1>3 DEF Next

\* In every reachable state the activations, the awaited task and the phase of
\* execute agree (IrInterpreter.cpp, ExecutionEngine.cpp).
THEOREM Invariance == Spec => []IInv
BY InitEstablishes, NextPreserves, PTL DEF Spec

(***************************************************************************)
(* What follows from it.                                                   *)
(***************************************************************************)
\* The depth that invokeFunction counts bounds the activations of every stack,
\* and of a task together with its waiting caller.
THEOREM RecursionIsBoundedTheorem == Spec => []RecursionIsBounded
<1>1. IInv => RecursionIsBounded
  <2> SUFFICES ASSUME IInv PROVE RecursionIsBounded OBVIOUS
  <2>1. ASSUME NEW t \in Threads, stack[t] # <<>>
        PROVE  /\ Len(stack[t]) \in Nat \ {0} /\ Base(t) \in Nat
               /\ Base(t) + Len(stack[t]) <= MaximumCallDepth
    <3>1. stack[t] \in Seq(Frames) BY DEF IInv, TypeOK
    <3>2. Len(stack[t]) \in Nat \ {0} /\ Len(stack[t]) \in 1..Len(stack[t]) BY <2>1, <3>1
    <3>3. Base(t) \in Nat BY <2>1 DEF IInv, WorkersAgree, Base, Tasks
    <3>4. /\ stack[t][Len(stack[t])].depth = Base(t) + Len(stack[t]) - 1
          /\ stack[t][Len(stack[t])].depth < MaximumCallDepth
      BY <3>2 DEF IInv, DepthsAgree
    <3> QED BY <3>2, <3>3, <3>4
  <2>2. ASSUME NEW t \in Threads PROVE Len(stack[t]) <= MaximumCallDepth
    <3>1. CASE stack[t] # <<>> BY <2>1, <3>1
    <3>2. CASE stack[t] = <<>> BY <3>2
    <3> QED BY <3>1, <3>2
  <2>3. ASSUME NEW w \in Workers, worker[w] = "running", task[w].waiter # Nobody
        PROVE  Len(stack[task[w].waiter]) + Len(stack[w]) <= MaximumCallDepth
    <3>1. task[w].waiter = Main /\ task[w].depth = Len(stack[Main])
      BY <2>3 DEF IInv, AwaitAgrees, Entrusted
    <3>2. stack[w] # <<>> BY <2>3 DEF IInv, WorkersAgree
    <3>3. Base(w) = Len(stack[Main]) BY <3>1 DEF Base
    <3> QED BY <2>1, <3>1, <3>2, <3>3
  <2> QED BY <2>2, <2>3 DEF RecursionIsBounded
<1> QED BY <1>1, Invariance, PTL

\* waitUntilIdle has left nothing to execute when a run ends well.
THEOREM SuccessIsQuietTheorem == Spec => []SuccessIsQuiet
<1>1. IInv => SuccessIsQuiet BY DEF IInv, PhaseAgrees, SuccessIsQuiet
<1> QED BY <1>1, Invariance, PTL

\* Whatever fails on behalf of the main thread fails the run.
THEOREM FailuresSurfaceTheorem == Spec => []FailuresSurface
<1>1. IInv => FailuresSurface
  BY DEF IInv, PhaseAgrees, FailuresAgree, FailuresSurface
<1> QED BY <1>1, Invariance, PTL

\* A stopping pool enters no function of the program: neither a call of a running
\* task, nor a task that was queued.
THEOREM StoppedEntersNothingTheorem == Spec => StoppedEntersNothing
<1>1. IInv /\ [Next]_vars => [stopping => \A t \in Threads : Len(stack'[t]) <= Len(stack[t])]_vars
  <2> SUFFICES ASSUME IInv, Next, stopping, NEW t \in Threads
               PROVE  Len(stack'[t]) <= Len(stack[t])
    OBVIOUS
  <2>0. /\ stack \in [Threads -> Seq(Frames)] /\ stack[t] \in Seq(Frames)
        /\ phase # "executing" /\ phase \in {"joining", "ended"}
        /\ future[Main] = "none" /\ \A w \in Workers : future[w] = "none"
        /\ stack[Main] = <<>>
    BY DEF IInv, TypeOK, PhaseAgrees, AwaitAgrees
  <2>1. Len(stack[t]) \in Nat /\ Len(<<>>) = 0 BY <2>0
  <2>2. ASSUME NEW w \in Workers, WorkerStep(w) PROVE Len(stack'[t]) <= Len(stack[t])
    <3>1. ASSUME NEW end \in Ends, Publish(w, end) PROVE Len(stack'[t]) <= Len(stack[t])
      BY <2>0, <2>1, <3>1 DEF Publish
    <3>2. ASSUME Executing(w), stack' = [stack EXCEPT ![w] = Advanced(@)]
          PROVE  Len(stack'[t]) <= Len(stack[t])
      <4>1. stack[w] \in Seq(Frames) /\ stack[w] # <<>> BY <2>0, <3>2 DEF Executing
      <4>2. Len(Advanced(stack[w])) = Len(stack[w]) BY <4>1, AdvancedFrames
      <4> QED BY <2>0, <2>1, <3>2, <4>2
    <3>3. ASSUME NEW what, Fail(w, what) PROVE Len(stack'[t]) <= Len(stack[t])
      BY <3>1, <3>3 DEF Fail
    <3>4. CASE Cancelled(w) BY <3>1, <3>4 DEF Cancelled
    <3>5. CASE UNCHANGED stack BY <2>1, <3>5
    <3>6. CASE Interpret(w)
      <4>1. ~CallInline(w) BY DEF CallInline
      <4>2. ~Submit(w) BY DEF Submit, Inline
      <4>3. CASE CallTooDeep(w) \/ AwaitFails(w) \/ AssertFails(w) \/ WorkFails(w)
        BY <3>3, <4>3 DEF CallTooDeep, AwaitFails, AssertFails, WorkFails
      <4>4. CASE CallCancelled(w) BY <3>4, <4>4 DEF CallCancelled
      <4>5. CASE AwaitSucceeds(w) BY <3>5, <4>5 DEF AwaitSucceeds
      <4>6. CASE AssertHolds(w) \/ WorkSucceeds(w) \/ Skip(w)
        BY <3>2, <4>6 DEF AssertHolds, WorkSucceeds, Skip, At
      <4>7. CASE Return(w)
        <5>1. stack[w] \in Seq(Frames) BY <2>0
        <5>2. CASE Len(stack[w]) > 1
          <6>1. Len(SubSeq(stack[w], 1, Len(stack[w]) - 1)) = Len(stack[w]) - 1
                /\ Len(stack[w]) \in Nat
            BY <5>1, <5>2, PoppedFrames
          <6>2. stack' = [stack EXCEPT ![w] = SubSeq(stack[w], 1, Len(stack[w]) - 1)]
            BY <4>7, <5>2 DEF Return
          <6>3. Len(stack'[w]) <= Len(stack[w]) BY <2>0, <6>1, <6>2
          <6>4. t # w => stack'[t] = stack[t] BY <2>0, <6>2
          <6> QED BY <2>1, <6>3, <6>4
        <5>3. CASE ~(Len(stack[w]) > 1) BY <3>1, <4>7, <5>3 DEF Return
        <5> QED BY <5>2, <5>3
      <4> QED BY <3>6, <4>1, <4>2, <4>3, <4>4, <4>5, <4>6, <4>7 DEF Interpret
    <3>7. CASE Pop(w) \/ Release(w) \/ Exit(w) BY <3>5, <3>7 DEF Pop, Release, Exit
    <3>8. CASE BeginCancelled(w) BY <3>4, <3>8 DEF BeginCancelled
    <3>9. CASE BeginTooDeep(w) BY <3>3, <3>9 DEF BeginTooDeep
    <3>10. ~Begin(w) BY DEF Begin
    <3> QED BY <2>2, <3>6, <3>7, <3>8, <3>9, <3>10 DEF WorkerStep
  <2>3. CASE MainStep
    <3>1. ~Executing(Main) BY <2>0 DEF Executing
    <3>2. ~Interpret(Main)
      BY <2>0, <3>1 DEF Interpret, CallInline, CallTooDeep, CallCancelled, Submit, AwaitSucceeds,
         AwaitFails, AssertHolds, AssertFails, WorkSucceeds, WorkFails, Skip, Return, At
    <3>3. UNCHANGED stack
      BY <2>3, <3>1, <3>2 DEF MainStep, ProgramReturns, BecomesIdle, CheckAssertions,
         DestroyInterpreter, StopScheduler, JoinWorkers
    <3> QED BY <2>1, <3>3
  <2> QED BY <2>2, <2>3 DEF Next
<1> QED BY <1>1, Invariance, PTL DEF Spec, StoppedEntersNothing

(***************************************************************************)
(* The globals.  S is any set of functions that holds what an initializer  *)
(* may come to call on the main thread, with none of them @Async.          *)
(***************************************************************************)
\* What InitializersAgree needs of a step that leaves the main thread alone: it may only
\* move tasks from the queue to a worker.
LEMMA WorkersKeepInitializers ==
  ASSUME NEW S, InitializersAgree(S), stack'[Main] = stack[Main],
         \A i \in 1..Len(queue') : \E j \in 1..Len(queue) : queue'[i] = queue[j],
         \A w \in Workers : worker'[w] \in {"popped", "running"} =>
           \/ worker[w] \in {"popped", "running"} /\ task'[w] = task[w]
           \/ \E j \in 1..Len(queue) : task'[w] = queue[j]
  PROVE  InitializersAgree(S)'
<1> SUFFICES ASSUME Initializing'
             PROVE  /\ \A i \in 2..Len(stack'[Main]) :
                         /\ stack'[Main][i].function \in S
                         /\ Policy[stack'[Main][i].function] = "Sync"
                    /\ \A i \in 1..Len(queue') : queue'[i].waiter # Nobody
                    /\ \A w \in Workers : worker'[w] \in {"popped", "running"} =>
                         task'[w].waiter # Nobody
  BY DEF InitializersAgree
<1>1. Initializing BY DEF Initializing
<1>2. \A i \in 2..Len(stack'[Main]) :
        stack'[Main][i].function \in S /\ Policy[stack'[Main][i].function] = "Sync"
  BY <1>1 DEF InitializersAgree
<1>3. \A i \in 1..Len(queue) : queue[i].waiter # Nobody BY <1>1 DEF InitializersAgree
<1>4. \A i \in 1..Len(queue') : queue'[i].waiter # Nobody BY <1>3
<1>5. ASSUME NEW w \in Workers, worker'[w] \in {"popped", "running"}
      PROVE  task'[w].waiter # Nobody
  <2>1. CASE worker[w] \in {"popped", "running"} /\ task'[w] = task[w]
    BY <1>1, <2>1 DEF InitializersAgree
  <2>2. CASE \E j \in 1..Len(queue) : task'[w] = queue[j] BY <1>3, <2>2
  <2> QED BY <1>5, <2>1, <2>2
<1> QED BY <1>2, <1>4, <1>5

\* Advancing moves the first activation on only when it is the newest.
LEMMA AdvancedFirst ==
  ASSUME NEW s \in Seq(Frames), s # <<>>
  PROVE  /\ s[1].at \in Nat /\ Advanced(s)[1].at \in Nat
         /\ Len(s) = 1 => Advanced(s)[1].at = s[1].at + 1
         /\ Len(s) # 1 => Advanced(s)[1] = s[1]
<1>1. Len(s) \in Nat \ {0} /\ s \in [1..Len(s) -> Frames] /\ 1 \in 1..Len(s) /\ Len(s) \in 1..Len(s)
  OBVIOUS
<1>2. s[1] \in Frames /\ s[Len(s)] \in Frames BY <1>1
<1>3. Advanced(s) = [s EXCEPT ![Len(s)] = [s[Len(s)] EXCEPT !.at = @ + 1]] BY DEF Advanced
<1>4. \A f \in Frames : f.at \in Nat /\ [f EXCEPT !.at = @ + 1].at = f.at + 1 BY DEF Frames
<1>5. CASE Len(s) = 1
  <2>1. Advanced(s)[1] = [s[1] EXCEPT !.at = @ + 1] BY <1>1, <1>3, <1>5
  <2> QED BY <1>2, <1>4, <1>5, <2>1
<1>6. CASE Len(s) # 1
  <2>1. Advanced(s)[1] = s[1] BY <1>1, <1>3, <1>6
  <2> QED BY <1>2, <1>4, <1>6, <2>1
<1> QED BY <1>5, <1>6

\* What the main thread calls while it initializes, even last, is one of S.
LEMMA CalledFunction ==
  ASSUME IInv, NEW S \in SUBSET Functions, CalledFromInitializers(S), InitializersAgree(S),
         NEW f \in Functions, At(Main, f), Advanced(stack[Main])[1].at <= Initializers + 1
  PROVE  f \in S /\ Initializing
<1>1. /\ stack[Main] \in Seq(Frames) /\ stack[Main] # <<>> /\ stack[Main][1].function = Program
      /\ Len(stack[Main]) \in Nat \ {0} /\ Top(Main) = stack[Main][Len(stack[Main])]
      /\ Top(Main) \in Frames
  BY ExecutingThread DEF IInv, PhaseAgrees, At, Executing
<1>2. /\ stack[Main][1].at \in Nat /\ Top(Main).at \in Nat \ {0} /\ Initializers \in Nat
      /\ Initializers <= Len(TopLevel)
  <2>1. stack[Main][1].at \in Nat BY <1>1, AdvancedFirst
  <2>2. Top(Main).at \in Nat \ {0} BY <1>1 DEF Frames
  <2>3. Len(TopLevel) \in Nat OBVIOUS
  <2>4. Initializers \in Nat /\ Initializers <= Len(TopLevel) BY <2>3, InitializersComeFirst
  <2> QED BY <2>1, <2>2, <2>4
<1>3. f = Code(Top(Main).function)[Top(Main).at] /\ Top(Main).at <= Len(Code(Top(Main).function))
  BY DEF At
<1>4. CASE Len(stack[Main]) = 1
  <2>1. Top(Main) = stack[Main][1] /\ Code(Top(Main).function) = TopLevel
    BY <1>1, <1>4 DEF Code
  <2>2. stack[Main][1].at + 1 <= Initializers + 1 BY <1>1, <1>4, AdvancedFirst
  <2>3. Top(Main).at \in 1..Initializers BY <1>2, <2>1, <2>2
  <2>4. f \in S BY <1>3, <2>1, <2>3 DEF CalledFromInitializers
  <2> QED BY <1>1, <1>2, <2>2, <2>4 DEF Initializing
<1>5. CASE Len(stack[Main]) # 1
  <2>1. stack[Main][1].at <= Initializers + 1 BY <1>1, <1>5, AdvancedFirst
  <2>2. Initializing BY <1>1, <2>1 DEF Initializing
  <2> DEFINE g == Top(Main).function
  <2>3. Len(stack[Main]) \in 2..Len(stack[Main])
    <3>1. \A n \in Nat \ {0} : n # 1 => n \in 2..n OBVIOUS
    <3> QED BY <1>1, <1>5, <3>1
  <2>4. g \in S /\ Policy[g] = "Sync" BY <1>1, <2>2, <2>3 DEF InitializersAgree
  <2>5. Code(g) = Body[g] BY <2>4 DEF Code
  <2> HIDE DEF g
  <2>6. Top(Main).at \in 1..Len(Body[g])
    <3>1. Body[g] \in Seq(Statements) BY <2>4
    <3>2. Top(Main).at <= Len(Body[g]) BY <1>3, <2>5 DEF g
    <3> QED BY <1>2, <3>1, <3>2
  <2>7. f = Body[g][Top(Main).at] BY <1>3, <2>5 DEF g
  <2> QED BY <2>2, <2>4, <2>6, <2>7 DEF CalledFromInitializers
<1> QED BY <1>4, <1>5

\* What InitializersAgree needs of a step of the main thread.
LEMMA MainKeepsInitializers ==
  ASSUME NEW S, InitializersAgree(S), UNCHANGED <<worker, task>>,
         Initializing' => Initializing,
         Initializing' => \A i \in 2..Len(stack'[Main]) :
           \/ i \in 2..Len(stack[Main]) /\ stack'[Main][i].function = stack[Main][i].function
           \/ stack'[Main][i].function \in S /\ Policy[stack'[Main][i].function] = "Sync",
         Initializing' => \A i \in 1..Len(queue') :
           (i \in 1..Len(queue) /\ queue'[i] = queue[i]) \/ queue'[i].waiter # Nobody
  PROVE  InitializersAgree(S)'
<1> SUFFICES ASSUME Initializing'
             PROVE  /\ \A i \in 2..Len(stack'[Main]) :
                         /\ stack'[Main][i].function \in S
                         /\ Policy[stack'[Main][i].function] = "Sync"
                    /\ \A i \in 1..Len(queue') : queue'[i].waiter # Nobody
                    /\ \A w \in Workers : worker'[w] \in {"popped", "running"} =>
                         task'[w].waiter # Nobody
  BY DEF InitializersAgree
<1>1. \A i \in 2..Len(stack[Main]) :
        stack[Main][i].function \in S /\ Policy[stack[Main][i].function] = "Sync"
  BY DEF InitializersAgree
<1>2. \A i \in 2..Len(stack'[Main]) :
        stack'[Main][i].function \in S /\ Policy[stack'[Main][i].function] = "Sync"
  BY <1>1
<1>3. \A i \in 1..Len(queue) : queue[i].waiter # Nobody BY DEF InitializersAgree
<1>4. \A i \in 1..Len(queue') : queue'[i].waiter # Nobody BY <1>3
<1>5. \A w \in Workers : worker'[w] \in {"popped", "running"} => task'[w].waiter # Nobody
  BY DEF InitializersAgree
<1> QED BY <1>2, <1>4, <1>5

\* A run starts with one activation and no task.
LEMMA InitializersInit == ASSUME NEW S, Init PROVE InitializersAgree(S)
BY DEF Init, Activation, InitializersAgree

\* A step of the interpreter on the main thread.
LEMMA MainCallsKeepInitializers ==
  ASSUME IInv, NEW S \in SUBSET Functions, CalledFromInitializers(S), NeverAsync(S),
         InitializersAgree(S), CallInline(Main) \/ Submit(Main)
  PROVE  InitializersAgree(S)'
<1> DEFINE s == stack[Main]
           a == Advanced(stack[Main])
<1>1. Executing(Main) BY DEF CallInline, Submit, At
<1>2. s \in Seq(Frames) /\ s # <<>> /\ Len(s) \in Nat \ {0} BY <1>1, ExecutingThread DEF Executing
<1>3. /\ a \in Seq(Frames) /\ Len(a) = Len(s)
      /\ \A i \in 1..Len(s) : a[i].function = s[i].function
  BY <1>2, AdvancedFrames
<1>4. stack \in [Threads -> Seq(Frames)] /\ queue \in Seq(Tasks) BY DEF IInv, TypeOK
<1>5. CASE CallInline(Main)
  <2>1. PICK f \in Functions :
          /\ At(Main, f) /\ Inline(Main, f)
          /\ stack' = [stack EXCEPT ![Main] = Append(a, Activation(f, CalleeDepth(Main)))]
          /\ UNCHANGED <<poolVars>>
    BY <1>5 DEF CallInline
  <2> DEFINE c == Activation(f, CalleeDepth(Main))
  <2>2. c.function = f BY DEF Activation
  <2>3. Policy[f] = "Sync" BY <2>1 DEF Inline
  <2>4. stack'[Main] = Append(a, c) BY <1>4, <2>1
  <2> HIDE DEF a, c, s
  <2>5. /\ Len(stack'[Main]) = Len(s) + 1 /\ stack'[Main] # <<>>
        /\ \A i \in 1..Len(s) : stack'[Main][i] = a[i]
        /\ stack'[Main][Len(s) + 1] = c
    BY <1>2, <1>3, <2>4
  <2>6. stack'[Main][1] = a[1] BY <1>2, <2>5
  <2>7. Initializing' => f \in S /\ Initializing
    BY <2>1, <2>6, CalledFunction DEF Initializing, a
  <2>8. ASSUME Initializing', NEW i \in 2..Len(stack'[Main])
        PROVE  \/ i \in 2..Len(s) /\ stack'[Main][i].function = s[i].function
               \/ stack'[Main][i].function \in S /\ Policy[stack'[Main][i].function] = "Sync"
    <3>1. CASE i = Len(s) + 1 BY <2>2, <2>3, <2>5, <2>7, <2>8, <3>1
    <3>2. CASE i # Len(s) + 1
      <4>1. i \in 2..Len(s) /\ i \in 1..Len(s) BY <1>2, <2>5, <3>2
      <4> QED BY <1>3, <2>5, <4>1
    <3> QED BY <3>1, <3>2
  <2> QED BY <2>1, <2>7, <2>8, MainKeepsInitializers DEF poolVars, s
<1>6. CASE Submit(Main)
  <2>1. PICK f \in Functions :
          /\ At(Main, f) /\ ~Inline(Main, f)
          /\ queue' = Append(queue, [function |-> f, depth |-> CalleeDepth(Main),
                                     waiter |-> IF Policy[f] = "AsyncAfter" THEN Main ELSE Nobody])
          /\ stack' = [stack EXCEPT ![Main] = a]
          /\ UNCHANGED <<worker, task>>
    BY <1>6 DEF Submit
  <2> DEFINE k == [function |-> f, depth |-> CalleeDepth(Main),
                   waiter |-> IF Policy[f] = "AsyncAfter" THEN Main ELSE Nobody]
  <2>2. stack'[Main] = a BY <1>4, <2>1
  <2>3. Initializing' => f \in S /\ Initializing
    BY <2>1, <2>2, CalledFunction DEF Initializing
  <2>4. f \in S => k.waiter = Main BY <2>1 DEF NeverAsync, Inline
  <2>5. queue' = Append(queue, k) BY <2>1
  <2> HIDE DEF a, k, s
  <2>6. /\ Len(queue') = Len(queue) + 1 /\ Len(queue) \in Nat
        /\ \A i \in 1..Len(queue) : queue'[i] = queue[i]
        /\ queue'[Len(queue) + 1] = k
    BY <1>4, <2>5
  <2>7. ASSUME Initializing', NEW i \in 1..Len(queue')
        PROVE  (i \in 1..Len(queue) /\ queue'[i] = queue[i]) \/ queue'[i].waiter # Nobody
    <3>1. CASE i = Len(queue) + 1 BY <2>3, <2>4, <2>6, <2>7, <3>1
    <3>2. CASE i # Len(queue) + 1 BY <2>6, <3>2
    <3> QED BY <3>1, <3>2
  <2>8. \A i \in 2..Len(stack'[Main]) : i \in 2..Len(s) /\ stack'[Main][i].function = s[i].function
    BY <1>2, <1>3, <2>2
  <2> QED BY <2>1, <2>3, <2>7, <2>8, MainKeepsInitializers DEF s
<1> QED BY <1>5, <1>6

\* A step of the main thread that calls nothing.
LEMMA MainKeepsInitializing ==
  ASSUME IInv, NEW S, InitializersAgree(S), MainStep, ~CallInline(Main), ~Submit(Main)
  PROVE  InitializersAgree(S)'
<1> DEFINE s == stack[Main]
<1>1. stack \in [Threads -> Seq(Frames)] /\ s \in Seq(Frames) /\ Len(s) \in Nat
  BY DEF IInv, TypeOK
<1>2. CASE stack'[Main] = <<>> BY <1>2 DEF InitializersAgree, Initializing
<1>3. CASE UNCHANGED <<stack, queue, worker, task>>
  BY <1>3, WorkersKeepInitializers
<1>4. CASE Executing(Main) /\ stack' = [stack EXCEPT ![Main] = Advanced(@)]
           /\ UNCHANGED <<queue, worker, task>>
  <2>1. s # <<>> /\ stack'[Main] = Advanced(s) BY <1>1, <1>4 DEF Executing
  <2>2. /\ Len(Advanced(s)) = Len(s)
        /\ \A i \in 1..Len(s) : Advanced(s)[i].function = s[i].function
    BY <1>1, <2>1, AdvancedFrames
  <2>3. s[1].at \in Nat /\ Advanced(s)[1].at \in Nat /\ Advanced(s)[1].at >= s[1].at
    <3>1. s \in Seq(Frames) /\ s # <<>> BY <1>1, <2>1
    <3> HIDE DEF s
    <3>2. CASE Len(s) = 1 BY <3>1, <3>2, AdvancedFirst
    <3>3. CASE Len(s) # 1 BY <3>1, <3>3, AdvancedFirst
    <3> QED BY <3>2, <3>3
  <2>4. Initializers \in Nat
    <3>1. Len(TopLevel) \in Nat OBVIOUS
    <3> QED BY <3>1, InitializersComeFirst
  <2>5. Initializing' => Initializing BY <2>1, <2>3, <2>4 DEF Initializing
  <2>6. \A i \in 2..Len(stack'[Main]) : i \in 2..Len(s) /\ stack'[Main][i].function = s[i].function
    BY <1>1, <2>1, <2>2
  <2> QED BY <1>4, <2>5, <2>6, MainKeepsInitializers
<1>5. CASE Return(Main)
  <2>1. /\ s # <<>> /\ Top(Main) = s[Len(s)] /\ s[1].function = Program
        /\ Top(Main).function # Program
    BY <1>5 DEF Return, Executing, Top, IInv, PhaseAgrees
  <2>2. Len(s) > 1 BY <1>1, <2>1
  <2>3. stack' = [stack EXCEPT ![Main] = SubSeq(s, 1, Len(s) - 1)] /\ UNCHANGED <<queue, worker, task>>
    BY <1>5, <2>2 DEF Return
  <2>4. stack'[Main] = SubSeq(s, 1, Len(s) - 1) BY <1>1, <2>3
  <2> HIDE DEF s
  <2>5. /\ Len(stack'[Main]) = Len(s) - 1
        /\ \A i \in 1..(Len(s) - 1) : stack'[Main][i] = s[i]
    BY <1>1, <2>2, <2>4, PoppedFrames
  <2>6. stack'[Main][1] = s[1] BY <1>1, <2>2, <2>5
  <2>7. Initializing' => Initializing BY <2>1, <2>6 DEF Initializing, s
  <2>8. \A i \in 2..Len(stack'[Main]) : i \in 2..Len(s) /\ stack'[Main][i].function = s[i].function
    BY <1>1, <2>5
  <2> QED BY <2>3, <2>7, <2>8, MainKeepsInitializers DEF s
<1>6. ASSUME NEW what, Fail(Main, what) PROVE stack'[Main] = <<>>
  BY <1>1, <1>6 DEF Fail
<1>7. CASE Interpret(Main)
  <2>1. ~CallCancelled(Main) BY DEF CallCancelled
  <2>2. CASE CallTooDeep(Main) \/ AwaitFails(Main) \/ AssertFails(Main) \/ WorkFails(Main)
    BY <1>2, <1>6, <2>2 DEF CallTooDeep, AwaitFails, AssertFails, WorkFails
  <2>3. CASE AwaitSucceeds(Main) BY <1>3, <2>3 DEF AwaitSucceeds, poolVars
  <2>4. CASE AssertHolds(Main) \/ WorkSucceeds(Main) \/ Skip(Main)
    BY <1>4, <2>4 DEF AssertHolds, WorkSucceeds, Skip, At, poolVars
  <2> QED BY <1>5, <1>7, <2>1, <2>2, <2>3, <2>4 DEF Interpret
<1>8. CASE ProgramReturns BY <1>1, <1>2, <1>8 DEF ProgramReturns
<1>9. CASE BecomesIdle \/ CheckAssertions \/ DestroyInterpreter \/ StopScheduler \/ JoinWorkers
  BY <1>3, <1>9 DEF BecomesIdle, CheckAssertions, DestroyInterpreter, StopScheduler, JoinWorkers,
     poolVars
<1> QED BY <1>7, <1>8, <1>9 DEF MainStep

\* A step of a worker: none of them submits.
LEMMA WorkerKeepsInitializing ==
  ASSUME IInv, NEW S, InitializersAgree(S), NEW w \in Workers, WorkerStep(w)
  PROVE  InitializersAgree(S)'
<1>0. /\ stack \in [Threads -> Seq(Frames)] /\ queue \in Seq(Tasks) /\ w \in Threads /\ w # Main
      /\ worker \in [Workers -> {"idle", "popped", "running", "finished", "exited"}]
      /\ task \in [Workers -> Tasks \cup {NoTask}]
  BY DEF IInv, TypeOK
<1>1. CASE /\ stack'[Main] = stack[Main] /\ UNCHANGED <<queue, task>>
           /\ \A v \in Workers : worker'[v] \in {"popped", "running"} =>
                worker[v] \in {"popped", "running"}
  BY <1>1, WorkersKeepInitializers
<1>2. ASSUME NEW end, Publish(w, end), UNCHANGED <<queue, task>> PROVE InitializersAgree(S)'
  BY <1>0, <1>1, <1>2 DEF Publish
<1>3. ASSUME NEW what, Fail(w, what) PROVE InitializersAgree(S)'
  BY <1>0, <1>2, <1>3 DEF Fail
<1>4. CASE Cancelled(w) BY <1>2, <1>4 DEF Cancelled
<1>5. ASSUME NEW t, stack' = [stack EXCEPT ![w] = t], UNCHANGED <<queue, worker, task>>
      PROVE  InitializersAgree(S)'
  BY <1>0, <1>1, <1>5
<1>6. CASE Interpret(w)
  <2>1. ~Submit(w) BY DEF Submit, Inline
  <2>2. CASE CallInline(w) BY <1>5, <2>2 DEF CallInline, poolVars
  <2>3. CASE CallTooDeep(w) \/ AwaitFails(w) \/ AssertFails(w) \/ WorkFails(w)
    BY <1>3, <2>3 DEF CallTooDeep, AwaitFails, AssertFails, WorkFails
  <2>4. CASE CallCancelled(w) BY <1>4, <2>4 DEF CallCancelled
  <2>5. CASE AwaitSucceeds(w) BY <1>1, <2>5 DEF AwaitSucceeds, poolVars
  <2>6. CASE AssertHolds(w) \/ WorkSucceeds(w) \/ Skip(w)
    BY <1>5, <2>6 DEF AssertHolds, WorkSucceeds, Skip, poolVars
  <2>7. CASE Return(w)
    <3>1. CASE Len(stack[w]) > 1 BY <1>5, <2>7, <3>1 DEF Return
    <3>2. CASE ~(Len(stack[w]) > 1) BY <1>2, <2>7, <3>2 DEF Return
    <3> QED BY <3>1, <3>2
  <2> QED BY <1>6, <2>1, <2>2, <2>3, <2>4, <2>5, <2>6, <2>7 DEF Interpret
<1>7. CASE Pop(w)
  <2> USE DEF Pop
  <2>1. /\ \A i \in 1..Len(Tail(queue)) : Tail(queue)[i] = queue[i + 1] /\ i + 1 \in 1..Len(queue)
        /\ Head(queue) = queue[1] /\ 1 \in 1..Len(queue)
    BY <1>0, <1>7, QueueTail
  <2>2. \A i \in 1..Len(queue') : \E j \in 1..Len(queue) : queue'[i] = queue[j] BY <1>7, <2>1
  <2>3. \A v \in Workers : worker'[v] \in {"popped", "running"} =>
          \/ worker[v] \in {"popped", "running"} /\ task'[v] = task[v]
          \/ \E j \in 1..Len(queue) : task'[v] = queue[j]
    BY <1>0, <1>7, <2>1
  <2>4. stack'[Main] = stack[Main] BY <1>7
  <2> QED BY <2>2, <2>3, <2>4, WorkersKeepInitializers
<1>8. CASE BeginCancelled(w) BY <1>4, <1>8 DEF BeginCancelled
<1>9. CASE BeginTooDeep(w) BY <1>3, <1>9 DEF BeginTooDeep
<1>10. CASE Begin(w) BY <1>0, <1>1, <1>10 DEF Begin
<1>11. CASE Release(w)
  <2>1. \A v \in Workers : worker'[v] \in {"popped", "running"} =>
          worker[v] \in {"popped", "running"} /\ task'[v] = task[v]
    BY <1>0, <1>11 DEF Release
  <2> QED BY <1>11, <2>1, WorkersKeepInitializers DEF Release
<1>12. CASE Exit(w) BY <1>0, <1>1, <1>12 DEF Exit
<1> QED BY <1>6, <1>7, <1>8, <1>9, <1>10, <1>11, <1>12 DEF WorkerStep

\* As long as no initializer of a global starts an @Async function, what the main thread
\* calls while it initializes is known, and the pool has no task but the one it awaits.
LEMMA InitializersInvariance ==
  ASSUME NEW S \in SUBSET Functions, CalledFromInitializers(S), NeverAsync(S)
  PROVE  Spec => []InitializersAgree(S)
<1>1. Init => InitializersAgree(S) BY InitializersInit
<1>2. IInv /\ InitializersAgree(S) /\ [Next]_vars => InitializersAgree(S)'
  <2> SUFFICES ASSUME IInv, InitializersAgree(S), [Next]_vars PROVE InitializersAgree(S)'
    OBVIOUS
  <2>1. CASE MainStep BY <2>1, MainCallsKeepInitializers, MainKeepsInitializing
  <2>2. ASSUME NEW w \in Workers, WorkerStep(w) PROVE InitializersAgree(S)'
    BY <2>2, WorkerKeepsInitializing
  <2>3. CASE UNCHANGED vars BY <2>3, WorkersKeepInitializers DEF vars, poolVars
  <2> QED BY <2>1, <2>2, <2>3 DEF Next
<1> QED BY <1>1, <1>2, Invariance, PTL DEF Spec

\* globals_ needs no lock as long as no initializer starts an @Async function: no worker
\* runs a function of the program while the main thread initializes, unless the main
\* thread awaits it, however the functions call each other.
THEOREM GlobalsAreNotRacedTheorem == Spec => []GlobalsAreNotRaced
<1>1. CASE \E S \in SUBSET Functions : CalledFromInitializers(S) /\ NeverAsync(S)
  <2>1. PICK S \in SUBSET Functions : CalledFromInitializers(S) /\ NeverAsync(S) BY <1>1
  <2>2. Spec => []InitializersAgree(S) BY <2>1, InitializersInvariance
  <2>3. IInv /\ InitializersAgree(S) => GlobalsAreNotRaced
    <3> SUFFICES ASSUME IInv, InitializersAgree(S), NEW w \in Workers, Initializing,
                        worker[w] = "running"
                 PROVE  future[Main] = "pending"
      BY DEF GlobalsAreNotRaced
    <3> QED BY DEF InitializersAgree, IInv, AwaitAgrees, Entrusted
  <2> QED BY <2>2, <2>3, Invariance, PTL
<1>2. CASE ~\E S \in SUBSET Functions : CalledFromInitializers(S) /\ NeverAsync(S)
  <2>1. GlobalsAreNotRaced BY <1>2 DEF GlobalsAreNotRaced
  <2> QED BY <2>1, PTL
<1> QED BY <1>1, <1>2

(***************************************************************************)
(* The pool.  Every step of a run is one that TaskScheduler's users may    *)
(* take or expect, or one that does not concern the pool.                  *)
(***************************************************************************)
Held == [w \in Workers |-> Holding(w)]
Gone == {w \in Workers : worker[w] = "exited"}
View == <<queue, Held, stopping, Gone>>

\* A step that leaves every worker where it is, or with the task it has.
LEMMA OutOfView ==
  ASSUME UNCHANGED <<queue, stopping, task>>,
         \A v \in Workers :
           \/ worker'[v] = worker[v]
           \/ /\ worker[v] \in {"popped", "running", "finished"}
              /\ worker'[v] \in {"popped", "running", "finished"}
  PROVE  UNCHANGED View
BY DEF View, Held, Gone, Holding

\* What a thread executes is its own affair, but for a call that the main thread submits.
LEMMA InterpretInView ==
  ASSUME IInv, NEW t \in Threads, Interpret(t), ~Submit(t)
  PROVE  UNCHANGED View
<1>0. worker \in [Workers -> {"idle", "popped", "running", "finished", "exited"}]
  BY DEF IInv, TypeOK
<1>1. CASE UNCHANGED <<queue, stopping, task, worker>> BY <1>1, OutOfView
<1>2. ASSUME NEW end, Executing(t), t # Main, Publish(t, end), UNCHANGED <<queue, stopping, task>>
      PROVE  UNCHANGED View
  <2>1. t \in Workers /\ worker[t] = "running" BY <1>2, ExecutingThread
  <2>2. worker' = [worker EXCEPT ![t] = "finished"] BY <1>2 DEF Publish
  <2> QED BY <1>0, <1>2, <2>1, <2>2, OutOfView
<1>3. ASSUME NEW what, Executing(t), Fail(t, what) PROVE UNCHANGED View
  <2>1. UNCHANGED <<queue, stopping, task>> BY <1>3 DEF Fail
  <2>2. CASE t = Main BY <1>1, <1>3, <2>1, <2>2 DEF Fail
  <2>3. CASE t # Main BY <1>2, <1>3, <2>1, <2>3 DEF Fail
  <2> QED BY <2>2, <2>3
<1>4. CASE CallCancelled(t)
  <2>1. t # Main /\ Executing(t) BY <1>4 DEF CallCancelled, At
  <2>2. Cancelled(t) BY <1>4 DEF CallCancelled
  <2> QED BY <1>2, <2>1, <2>2 DEF Cancelled
<1>5. CASE CallTooDeep(t) \/ AssertFails(t) \/ WorkFails(t)
  BY <1>3, <1>5 DEF CallTooDeep, AssertFails, WorkFails, At
<1>6. CASE AwaitFails(t)
  <2>1. t = Main BY <1>6, AwaitingThread DEF AwaitFails
  <2> QED BY <1>1, <1>6, <2>1 DEF AwaitFails, Fail
<1>7. CASE Return(t)
  <2>1. Executing(t) /\ UNCHANGED <<queue, stopping, task>> BY <1>7 DEF Return
  <2>2. CASE Len(stack[t]) > 1 BY <1>1, <1>7, <2>1, <2>2 DEF Return
  <2>3. CASE ~(Len(stack[t]) > 1)
    <3>1. t # Main
      <4>e. Executing(t) BY <2>1
      <4>0. Len(stack[t]) \in Nat \ {0} /\ Top(t) = stack[t][Len(stack[t])]
        BY <4>e, ExecutingThread
      <4>1. Len(stack[t]) = 1
        <5>1. \A n \in Nat \ {0} : ~(n > 1) => n = 1 OBVIOUS
        <5> QED BY <2>3, <4>0, <5>1
      <4>2. Top(t).function # Program BY <1>7 DEF Return
      <4> QED BY <2>1, <4>0, <4>1, <4>2 DEF IInv, PhaseAgrees, Executing
    <3> QED BY <1>2, <1>7, <2>1, <2>3, <3>1 DEF Return
  <2> QED BY <2>2, <2>3
<1>8. CASE CallInline(t) \/ AwaitSucceeds(t) \/ AssertHolds(t) \/ WorkSucceeds(t) \/ Skip(t)
  BY <1>1, <1>8 DEF CallInline, AwaitSucceeds, AssertHolds, WorkSucceeds, Skip, poolVars
<1> QED BY <1>4, <1>5, <1>6, <1>7, <1>8 DEF Interpret

\* What the main thread submits, it submits to a pool that is not stopping, at a depth
\* within the bound.
LEMMA SubmitInView ==
  ASSUME IInv, NEW t \in Threads, Submit(t)
  PROVE  Pool!Next
<1> DEFINE taskOf(f) == [function |-> f, depth |-> CalleeDepth(t),
                         waiter |-> IF Policy[f] = "AsyncAfter" THEN t ELSE Nobody]
<1>1. PICK f \in Functions :
        /\ At(t, f) /\ ~Inline(t, f)
        /\ Len(queue) < MaximumQueuedTasks
        /\ queue' = Append(queue, taskOf(f))
        /\ UNCHANGED <<worker, task, stopping>>
  BY DEF Submit
<1>2. t = Main /\ Executing(Main) BY <1>1 DEF Inline, At
<1>3. Len(stack[Main]) \in Nat \ {0} /\ Top(Main) = stack[Main][Len(stack[Main])]
      /\ Top(Main).depth = Len(stack[Main]) - 1
  BY <1>2, ExecutingThread DEF Base
<1>4. Top(Main).depth < MaximumCallDepth
  <2>1. Len(stack[Main]) \in 1..Len(stack[Main]) BY <1>3
  <2> QED BY <1>3, <2>1 DEF IInv, DepthsAgree
<1>5. CalleeDepth(Main) \in 1..MaximumCallDepth BY <1>3, <1>4 DEF CalleeDepth
<1>6. taskOf(f) \in [function : Functions, depth : 1..MaximumCallDepth, waiter : {Main, Nobody}]
  BY <1>2, <1>5
<1>7. ~stopping BY <1>2 DEF Executing, IInv, PhaseAgrees
<1>8. UNCHANGED <<Held, stopping, Gone>> BY <1>1 DEF Held, Holding, Gone
<1> HIDE DEF taskOf
<1>9. Pool!Accept(taskOf(f)) BY <1>1, <1>7, <1>8 DEF Pool!Accept, Held, Gone
<1> QED BY <1>6, <1>9 DEF Pool!Next

\* Each step of a run is one of the pool's steps or does not concern it.
LEMMA PoolStep == IInv /\ [Next]_vars => [Pool!Next]_View
<1> SUFFICES ASSUME IInv, [Next]_vars PROVE [Pool!Next]_View OBVIOUS
<1>0. /\ worker \in [Workers -> {"idle", "popped", "running", "finished", "exited"}]
      /\ task \in [Workers -> Tasks \cup {NoTask}]
  BY DEF IInv, TypeOK
<1>1. ASSUME NEW t \in Threads, Interpret(t) PROVE [Pool!Next]_View
  BY <1>1, SubmitInView, InterpretInView
<1>2. ASSUME NEW w \in Workers, Pop(w) PROVE Pool!Next
  <2> USE <1>2 DEF Pop
  <2>1. Holding(w) = NoTask /\ w \notin Gone BY DEF Holding, Gone
  <2>2. Gone' = Gone BY <1>0 DEF Gone
  <2>3. Held' = [Held EXCEPT ![w] = Head(queue)] BY <1>0 DEF Held, Holding
  <2>4. Pool!Take(w) BY <2>1, <2>2, <2>3 DEF Pool!Take, Held, Gone
  <2> QED BY <2>4 DEF Pool!Next
<1>3. ASSUME NEW w \in Workers, worker[w] = "popped", NEW end, Publish(w, end),
             UNCHANGED <<queue, stopping, task>>
      PROVE  UNCHANGED View
  <2>1. worker' = [worker EXCEPT ![w] = "finished"] BY <1>3 DEF Publish
  <2> QED BY <1>0, <1>3, <2>1, OutOfView
<1>4. ASSUME NEW w \in Workers, BeginCancelled(w) \/ BeginTooDeep(w) \/ Begin(w)
      PROVE  UNCHANGED View
  <2>1. CASE BeginCancelled(w) BY <1>3, <2>1 DEF BeginCancelled, Cancelled
  <2>2. CASE BeginTooDeep(w) BY <1>3, <2>2 DEF BeginTooDeep, Fail
  <2>3. CASE Begin(w) BY <1>0, <2>3, OutOfView DEF Begin
  <2> QED BY <1>4, <2>1, <2>2, <2>3
<1>5. ASSUME NEW w \in Workers, Release(w) PROVE Pool!Next
  <2> USE <1>5 DEF Release
  <2>1. Holding(w) # NoTask BY NoTaskIsNoTask DEF Holding, IInv, WorkersAgree
  <2>2. Gone' = Gone BY <1>0 DEF Gone
  <2>3. Held' = [Held EXCEPT ![w] = NoTask] BY <1>0 DEF Held, Holding
  <2>4. Pool!Finish(w) BY <2>1, <2>2, <2>3 DEF Pool!Finish, Held, Gone
  <2> QED BY <2>4 DEF Pool!Next
<1>6. ASSUME NEW w \in Workers, Exit(w) PROVE Pool!Next
  <2> USE <1>6 DEF Exit
  <2>1. Holding(w) = NoTask BY DEF Holding
  <2>2. Gone' = Gone \cup {w} BY <1>0 DEF Gone
  <2>3. Held' = Held BY <1>0 DEF Held, Holding
  <2>4. Pool!Leave(w) BY <2>1, <2>2, <2>3 DEF Pool!Leave, Held, Gone
  <2> QED BY <2>4 DEF Pool!Next
<1>7. CASE StopScheduler
  <2>1. UNCHANGED <<Held, Gone>> BY <1>7 DEF StopScheduler, Held, Gone, Holding
  <2>2. Pool!Stop BY <1>7, <2>1 DEF StopScheduler, Pool!Stop, Held, Gone
  <2> QED BY <2>2 DEF Pool!Next
<1>8. CASE ProgramReturns \/ BecomesIdle \/ CheckAssertions \/ DestroyInterpreter \/ JoinWorkers
           \/ UNCHANGED vars
  BY <1>8, OutOfView DEF ProgramReturns, BecomesIdle, CheckAssertions, DestroyInterpreter,
     JoinWorkers, vars, poolVars
<1>9. CASE MainStep BY <1>1, <1>7, <1>8, <1>9 DEF MainStep
<1>10. ASSUME NEW w \in Workers, WorkerStep(w) PROVE [Pool!Next]_View
  BY <1>1, <1>2, <1>4, <1>5, <1>6, <1>10 DEF WorkerStep
<1> QED BY <1>8, <1>9, <1>10 DEF Next

\* For every program a run is a user of the pool that TaskScheduler implements: the
\* behaviour it takes for granted is one that PoolTheorem gives.
THEOREM UsesPoolTheorem == Spec => UsesPool
<1>1. Init => Pool!Init BY DEF Init, Pool!Init, Holding
<1>2. IInv /\ [Next]_vars =>
        [Pool!Next]_<<queue, [w \in Workers |-> Holding(w)], stopping,
                      {w \in Workers : worker[w] = "exited"}>>
  BY PoolStep DEF View, Held, Gone
<1> QED BY <1>1, <1>2, Invariance, PTL DEF Spec, UsesPool, Pool!Spec, Pool!poolVars
================================================================================
