----------------------------- MODULE CurlTransport -----------------------------
(***************************************************************************)
(* The bounded pool of libcurl handles behind NetworkEngine                *)
(* (src/network/transport/CurlTransport.cpp): callers that take a handle,  *)
(* transfer and give it back, cancellations seen or not seen by a running  *)
(* transfer, and the destructor that drains the pool.                      *)
(*                                                                         *)
(* One action is one critical section of mutex_, or one stretch of         *)
(* libcurl.  acquireHandle waits with wait_for(25 ms), so that waiting is  *)
(* a guard here and not a state: whatever is notified, the waiter looks    *)
(* again.  Time inside a transfer is counted in intervals between two      *)
(* calls of the progress callback, which libcurl makes at least once a     *)
(* second; TimeoutIntervals is CURLOPT_TIMEOUT_MS in that unit.            *)
(***************************************************************************)
EXTENDS Naturals, FiniteSets

CONSTANTS
  Requests,          \* the operations that call execute, one at a time each
  Monitored,         \* those whose uploadProgress is true
  Handles,           \* handles_
  TimeoutIntervals,  \* the request timeout, in progress intervals
  MaximumSends,      \* the attempts NetworkEngine makes with one operation
  NoRequest, NoHandle

ASSUME MonitoredAreRequests == Monitored \subseteq Requests
ASSUME HandlesExist == Handles # {} /\ IsFiniteSet(Handles)
ASSUME TimeoutPositive == TimeoutIntervals \in Nat \ {0}
ASSUME SendsPositive == MaximumSends \in Nat \ {0}
ASSUME NoRequestIsNone == NoRequest \notin Requests
ASSUME NoHandleIsNone == NoHandle \notin Handles

VARIABLES
  available,   \* availableHandles_
  active,      \* activeRequests_: the request that holds a handle, or NoRequest
  stopping,    \* stopping_
  owner,       \* the thread of the destructor: "away", "draining", "parked",
               \* "freeing" or "gone"
  cancelled,   \* the requests whose RequestHandle is cancelled
  pc, using,   \* of each request: where it is, and the local `handle` of execute
  elapsed,     \* intervals since the transfer began
  overrun,     \* intervals the transfer ran on after the cancellation (history)
  sends        \* the calls of execute made

poolVars == <<available, active, stopping, owner>>
timeVars == <<elapsed, overrun>>
vars == <<poolVars, cancelled, pc, using, timeVars, sends>>

CheckedOut == {r \in Requests : pc[r] \in {"configure", "transfer", "release"}}
NoneActive == [h \in Handles |-> NoRequest]

(***************************************************************************)
(* What the code branches on and computes, some preceded by a faulty form. *)
(***************************************************************************)
\* Which requests observeProgress is asked about: NOPROGRESS is set back to 1
\* unless uploadProgress is set.
Observes(r) == r \in Monitored

\* The handles left for others when one is taken.
Taken(h) == available \ {h}

\* releaseHandle: the pool with the handle.
Returned(h) == available \cup {h}

\* releaseHandle: the map without the handle, and whether the destructor is told.
Erased(h) == [active EXCEPT ![h] = NoRequest]
TellsBeforeErase(h) == active = NoneActive
TellsOwner(h) == Erased(h) = NoneActive

\* What the destructor cancels, and what it waits for.
CancelsNothing == {}
ToCancel == {r \in Requests : \E h \in Handles : active[h] = r}
FreesAtOnce == TRUE
Drained == active = NoneActive

Init ==
  /\ available = Handles /\ active = NoneActive
  /\ stopping = FALSE /\ owner = "away"
  /\ cancelled = {}
  /\ pc = [r \in Requests |-> "idle"]
  /\ using = [r \in Requests |-> NoHandle]
  /\ elapsed = [r \in Requests |-> 0] /\ overrun = [r \in Requests |-> 0]
  /\ sends = [r \in Requests |-> 0]

(***************************************************************************)
(* The rest of the process: RequestHandle::cancel, by anybody at any time. *)
(***************************************************************************)
Cancel(r) ==
  /\ r \notin cancelled
  /\ cancelled' = cancelled \cup {r}
  /\ UNCHANGED <<poolVars, pc, using, timeVars, sends>>

(***************************************************************************)
(* execute.                                                                *)
(***************************************************************************)
Execute(r) ==
  /\ pc[r] = "idle" /\ owner # "gone"
  /\ sends[r] < MaximumSends
  /\ sends' = [sends EXCEPT ![r] = @ + 1]
  /\ pc' = [pc EXCEPT ![r] = IF r \in cancelled THEN "idle" ELSE "acquire"]
  /\ UNCHANGED <<poolVars, cancelled, using, timeVars>>

\* execute is left without a handle.
Leave(r) ==
  /\ pc' = [pc EXCEPT ![r] = "idle"]
  /\ UNCHANGED <<poolVars, cancelled, using, timeVars, sends>>

\* acquireHandle finds a handle; the check of line 272 comes first.
Acquire(r) ==
  /\ pc[r] = "acquire" /\ owner # "gone"
  /\ ~stopping /\ r \notin cancelled
  /\ \E h \in available :
       /\ available' = Taken(h)
       /\ active' = [active EXCEPT ![h] = r]
       /\ using' = [using EXCEPT ![r] = h]
  /\ pc' = [pc EXCEPT ![r] = "configure"]
  /\ UNCHANGED <<stopping, owner, cancelled, timeVars, sends>>

AcquireCancelled(r) ==
  /\ pc[r] = "acquire" /\ owner # "gone"
  /\ ~stopping /\ r \in cancelled
  /\ Leave(r)

AcquireStopped(r) ==
  /\ pc[r] = "acquire" /\ owner # "gone"
  /\ stopping
  /\ Leave(r)

\* The destructor does not wait for callers that hold no handle: one that is
\* still in acquireHandle locks a mutex that is gone.  Both owners of a transport
\* (NativeRuntime, ExecutionEngine) join its callers first; the model lets the
\* call end, as it does while the memory is not reused.
AcquireAfterEnd(r) ==
  /\ pc[r] = "acquire" /\ owner = "gone"
  /\ Leave(r)

\* perform, up to curl_easy_perform: options, headers or multipart may throw.
Configure(r) ==
  /\ pc[r] = "configure"
  /\ pc' = [pc EXCEPT ![r] = "transfer"]
  /\ UNCHANGED <<poolVars, cancelled, using, timeVars, sends>>

\* perform returns or throws: a response, or one of the errors of throwTransportError.
EndTransfer(r) ==
  /\ pc' = [pc EXCEPT ![r] = "release"]
  /\ UNCHANGED <<poolVars, cancelled, using, timeVars, sends>>

ConfigureThrows(r) == pc[r] = "configure" /\ EndTransfer(r)

\* An interval passes: observeProgress, where it is installed, aborts.
ProgressAborts(r) ==
  /\ pc[r] = "transfer" /\ Observes(r) /\ r \in cancelled
  /\ EndTransfer(r)

Progress(r) ==
  /\ pc[r] = "transfer" /\ ~(Observes(r) /\ r \in cancelled)
  /\ elapsed[r] < TimeoutIntervals
  /\ elapsed' = [elapsed EXCEPT ![r] = @ + 1]
  /\ overrun' = [overrun EXCEPT ![r] = IF r \in cancelled THEN @ + 1 ELSE 0]
  /\ UNCHANGED <<poolVars, cancelled, pc, using, sends>>

\* CURLE_OPERATION_TIMEDOUT.
TimesOut(r) ==
  /\ pc[r] = "transfer" /\ elapsed[r] = TimeoutIntervals
  /\ EndTransfer(r)

\* The server answers, the limits are exceeded or the connection fails.
Answered(r) == pc[r] = "transfer" /\ EndTransfer(r)

\* releaseHandle, on both paths of execute.
ReleaseHandle(r) ==
  /\ pc[r] = "release"
  /\ active' = Erased(using[r])
  /\ available' = Returned(using[r])
  /\ owner' = IF owner = "parked" /\ TellsOwner(using[r]) THEN "draining" ELSE owner
  /\ using' = [using EXCEPT ![r] = NoHandle]
  /\ pc' = [pc EXCEPT ![r] = "notify"]
  /\ elapsed' = [elapsed EXCEPT ![r] = 0]
  /\ overrun' = [overrun EXCEPT ![r] = 0]
  /\ UNCHANGED <<stopping, cancelled, sends>>

\* available_.notify_one, after the mutex is unlocked: it wakes a waiter early.  The
\* destructor does not wait for it and may have destroyed available_ meanwhile, which
\* the owners that join their callers first rule out, as in AcquireAfterEnd.
NotifyAvailable(r) ==
  /\ pc[r] = "notify"
  /\ Leave(r)

(***************************************************************************)
(* ~Implementation.                                                        *)
(***************************************************************************)
Destroy ==
  /\ owner = "away"
  /\ stopping' = TRUE
  /\ cancelled' = cancelled \cup ToCancel
  /\ owner' = "draining"
  /\ UNCHANGED <<available, active, pc, using, timeVars, sends>>

DrainWait ==
  /\ owner = "draining" /\ ~Drained
  /\ owner' = "parked"
  /\ UNCHANGED <<available, active, stopping, cancelled, pc, using, timeVars, sends>>

SpuriousWake ==
  /\ owner = "parked"
  /\ owner' = "draining"
  /\ UNCHANGED <<available, active, stopping, cancelled, pc, using, timeVars, sends>>

DrainEnds ==
  /\ owner = "draining" /\ Drained
  /\ owner' = "freeing"
  /\ UNCHANGED <<available, active, stopping, cancelled, pc, using, timeVars, sends>>

ReleaseHandles ==
  /\ owner = "freeing"
  /\ owner' = "gone"
  /\ available' = {}
  /\ UNCHANGED <<active, stopping, cancelled, pc, using, timeVars, sends>>

\* Nobody is inside execute and the transport is gone.
Finished ==
  /\ owner = "gone" /\ \A r \in Requests : pc[r] = "idle" /\ r \in cancelled
  /\ UNCHANGED vars

RequestStep(r) ==
  \/ Execute(r) \/ Acquire(r) \/ AcquireCancelled(r) \/ AcquireStopped(r)
  \/ AcquireAfterEnd(r) \/ Configure(r) \/ ConfigureThrows(r) \/ ProgressAborts(r)
  \/ Progress(r) \/ TimesOut(r) \/ Answered(r) \/ ReleaseHandle(r) \/ NotifyAvailable(r)

OwnerStep == DrainWait \/ DrainEnds \/ ReleaseHandles

Next ==
  \/ \E r \in Requests : RequestStep(r) \/ Cancel(r)
  \/ Destroy \/ OwnerStep \/ SpuriousWake
  \/ Finished

Spec == Init /\ [][Next]_vars

\* Every thread is scheduled and libcurl keeps its clock; that a server answers,
\* that somebody cancels and that the condition variable wakes by itself is not
\* assumed.
Inside(r) ==
  \/ Acquire(r) \/ AcquireCancelled(r) \/ AcquireStopped(r) \/ AcquireAfterEnd(r)
  \/ Configure(r) \/ ProgressAborts(r) \/ Progress(r) \/ TimesOut(r) \/ ReleaseHandle(r)
  \/ NotifyAvailable(r)

FairSpec == Spec /\ WF_vars(OwnerStep) /\ \A r \in Requests : WF_vars(Inside(r))

(***************************************************************************)
(* Properties.                                                             *)
(***************************************************************************)
\* Every variable in its range.
TypeOK ==
  /\ available \subseteq Handles
  /\ active \in [Handles -> Requests \cup {NoRequest}]
  /\ stopping \in BOOLEAN
  /\ owner \in {"away", "draining", "parked", "freeing", "gone"}
  /\ cancelled \subseteq Requests
  /\ pc \in [Requests -> {"idle", "acquire", "configure", "transfer", "release",
                       "notify"}]
  /\ using \in [Requests -> Handles \cup {NoHandle}]
  /\ elapsed \in [Requests -> 0..TimeoutIntervals]
  /\ overrun \in [Requests -> 0..TimeoutIntervals]
  /\ sends \in [Requests -> 0..MaximumSends]

\* A handle is in the pool or recorded for the one request that uses it, never
\* both and never neither: an early return of execute loses none, and two
\* transfers never share one.
PoolIsPartitioned ==
  /\ owner # "gone" => available = {h \in Handles : active[h] = NoRequest}
  /\ \A r \in CheckedOut : using[r] \in Handles /\ active[using[r]] = r
  /\ \A h \in Handles : active[h] # NoRequest => active[h] \in CheckedOut /\ using[active[h]] = h

\* No libcurl handle is cleaned up under a transfer: the destructor leaves only
\* when every handle it saw checked out, and every one taken before it stopped
\* the pool, has come back (memory-ownership.md, "Cancellation Ownership").
FreedHandlesAreIdle == owner \in {"freeing", "gone"} => CheckedOut = {}

\* Once the destructor has begun, every operation that holds a handle is
\* cancelled, including one that was taking its handle meanwhile.
StoppingCancelsTransfers == stopping => CheckedOut \subseteq cancelled

\* Nobody waits for a release that nobody will make: the destructor is parked on
\* drained_, and a caller finds no handle in acquireHandle, only while a request
\* still holds one.  The release that empties activeRequests_ is never missed.
WaitsEndWithRelease ==
  /\ owner = "parked" => CheckedOut # {}
  /\ owner # "gone" /\ available = {} => CheckedOut # {}

\* A cancellation reaches a running transfer that reports progress at the next call
\* of the progress callback.
MonitoredTransferStops ==
  \A r \in Monitored : pc[r] = "transfer" /\ r \in cancelled => overrun[r] = 0

\* The same for every transfer: "cancellation during execution propagates through
\* the execution frame into transport" (docs/runtime/scheduling.md).
CancelStopsTransfer ==
  \A r \in Requests : pc[r] = "transfer" /\ r \in cancelled => overrun[r] = 0

\* Every call of execute returns, whatever the server does.
ExecutionsReturn == \A r \in Requests : pc[r] # "idle" ~> pc[r] = "idle"

\* The destructor returns: the wake-up of the last release is not lost.
DestructorReturns == stopping ~> owner = "gone"

\* Neither a request nor the destructor waits for ever for a handle.
EverythingEnds == ExecutionsReturn /\ DestructorReturns

\* No interval is counted as overrun before the cancellation, or under a callback.
ClocksAgree ==
  \A r \in Requests : /\ overrun[r] <= elapsed[r]
                      /\ r \notin cancelled \/ Observes(r) => overrun[r] = 0

\* The inductive invariant.
IInv ==
  /\ TypeOK
  /\ PoolIsPartitioned
  /\ FreedHandlesAreIdle
  /\ StoppingCancelsTransfers
  /\ stopping = (owner # "away")
  /\ owner = "parked" => ~Drained
  /\ ClocksAgree
================================================================================
