-------------------------- MODULE CurlTransportProofs --------------------------
(***************************************************************************)
(* Theorems about CurlTransport.  IInv is the conjunction of the type      *)
(* invariant with the partition of the handles, which is what makes both   *)
(* the drain of the destructor and the cancellation of the transfers it    *)
(* finds complete: activeRequests_ names exactly the requests that hold a  *)
(* handle.                                                                 *)
(***************************************************************************)
EXTENDS CurlTransport, TLAPS

USE MonitoredAreRequests, TimeoutPositive, SendsPositive, NoRequestIsNone, NoHandleIsNone
USE DEF Taken, Erased, Returned, Drained, ToCancel, NoneActive, CheckedOut

\* The constructor establishes the invariant.
LEMMA InitEstablishes == Init => IInv
<1> SUFFICES ASSUME Init PROVE IInv OBVIOUS
<1> USE DEF Init
<1>1. TypeOK
  <2>1. 0 \in 0..TimeoutIntervals /\ 0 \in 0..MaximumSends OBVIOUS
  <2>2. active \in [Handles -> Requests \cup {NoRequest}] OBVIOUS
  <2> QED BY <2>1, <2>2 DEF TypeOK
<1>2. CheckedOut = {} OBVIOUS
<1>3. PoolIsPartitioned BY <1>2 DEF PoolIsPartitioned
<1>4. FreedHandlesAreIdle /\ StoppingCancelsTransfers BY DEF FreedHandlesAreIdle,
                                                                StoppingCancelsTransfers
<1>5. ClocksAgree BY DEF ClocksAgree
<1> QED BY <1>1, <1>3, <1>4, <1>5 DEF IInv

\* execute and acquireHandle, where no handle changes hands.
LEMMA WaitingPreserves ==
  ASSUME IInv, NEW r \in Requests,
         \/ Execute(r) \/ AcquireCancelled(r) \/ AcquireStopped(r) \/ AcquireAfterEnd(r)
         \/ NotifyAvailable(r)
  PROVE  IInv'
<1> USE DEF Execute, AcquireCancelled, AcquireStopped, AcquireAfterEnd, NotifyAvailable, Leave,
            poolVars, timeVars
<1>1. TypeOK'
  <2>1. pc' \in [Requests -> {"idle", "acquire", "configure", "transfer", "release", "notify"}]
    BY DEF IInv, TypeOK
  <2>2. sends' \in [Requests -> 0..MaximumSends]
    <3>1. CASE Execute(r) BY <3>1 DEF IInv, TypeOK
    <3> QED BY <3>1 DEF IInv, TypeOK
  <2>3. UNCHANGED <<poolVars, cancelled, using, timeVars>> OBVIOUS
  <2> QED BY <2>1, <2>2, <2>3 DEF IInv, TypeOK
<1>2. CheckedOut' = CheckedOut BY DEF IInv, TypeOK
<1>3. PoolIsPartitioned' BY <1>2 DEF IInv, TypeOK, PoolIsPartitioned
<1>4. FreedHandlesAreIdle' BY <1>2 DEF IInv, TypeOK, FreedHandlesAreIdle
<1>5. StoppingCancelsTransfers' BY <1>2 DEF IInv, TypeOK, StoppingCancelsTransfers
<1>6. ClocksAgree' BY DEF IInv, TypeOK, ClocksAgree
<1> QED BY <1>1, <1>3, <1>4, <1>5, <1>6 DEF IInv

\* acquireHandle takes one handle for one request, before the destructor began.
LEMMA AcquirePreserves ==
  ASSUME IInv, NEW r \in Requests, Acquire(r)
  PROVE  IInv'
<1> USE DEF Acquire, timeVars
<1>0. PICK h \in available : /\ available' = available \ {h}
                             /\ active' = [active EXCEPT ![h] = r]
                             /\ using' = [using EXCEPT ![r] = h]
  OBVIOUS
<1>1. TypeOK' BY <1>0 DEF IInv, TypeOK
<1>2. CheckedOut' = CheckedOut \cup {r} /\ r \notin CheckedOut BY DEF IInv, TypeOK
<1>3. owner = "away" /\ owner' = "away" BY DEF IInv
<1>4. h \in Handles /\ active[h] = NoRequest BY <1>0, <1>3 DEF IInv, TypeOK, PoolIsPartitioned
<1>5. PoolIsPartitioned'
  <2>1. available' = {g \in Handles : active'[g] = NoRequest}
    BY <1>0, <1>3, <1>4 DEF IInv, TypeOK, PoolIsPartitioned
  <2>2. \A s \in CheckedOut' : using'[s] \in Handles /\ active'[using'[s]] = s
    BY <1>0, <1>2, <1>4 DEF IInv, TypeOK, PoolIsPartitioned
  <2>3. \A g \in Handles : active'[g] # NoRequest =>
          active'[g] \in CheckedOut' /\ using'[active'[g]] = g
    BY <1>0, <1>2, <1>4 DEF IInv, TypeOK, PoolIsPartitioned
  <2> QED BY <2>1, <2>2, <2>3 DEF PoolIsPartitioned
<1>6. FreedHandlesAreIdle' BY <1>3 DEF FreedHandlesAreIdle
<1>7. StoppingCancelsTransfers' BY <1>3 DEF IInv, StoppingCancelsTransfers
<1>8. ClocksAgree' BY DEF IInv, ClocksAgree
<1> QED BY <1>1, <1>3, <1>5, <1>6, <1>7, <1>8 DEF IInv

\* perform: the request keeps its handle, however the transfer goes.
LEMMA TransferPreserves ==
  ASSUME IInv, NEW r \in Requests,
         \/ Configure(r) \/ ConfigureThrows(r) \/ ProgressAborts(r)
         \/ Progress(r) \/ TimesOut(r) \/ Answered(r)
  PROVE  IInv'
<1> USE DEF Configure, ConfigureThrows, ProgressAborts, TimesOut, Answered, EndTransfer,
            poolVars, timeVars
<1>1. TypeOK'
  <2>1. CASE Progress(r)
    <3>1. elapsed[r] \in 0..(TimeoutIntervals - 1) BY <2>1 DEF Progress, IInv, TypeOK
    <3>2. overrun[r] <= elapsed[r]
      <4>1. ClocksAgree BY DEF IInv
      <4> QED BY <4>1 DEF ClocksAgree
    <3>3. overrun[r] + 1 \in 0..TimeoutIntervals /\ elapsed[r] + 1 \in 0..TimeoutIntervals
      BY <3>1, <3>2 DEF IInv, TypeOK
    <3> QED BY <2>1, <3>3 DEF Progress, IInv, TypeOK
  <2> QED BY <2>1 DEF IInv, TypeOK
<1>2. CheckedOut' = CheckedOut BY DEF Progress, IInv, TypeOK
<1>3. PoolIsPartitioned' BY <1>2 DEF Progress, IInv, TypeOK, PoolIsPartitioned
<1>4. FreedHandlesAreIdle' BY <1>2 DEF Progress, IInv, TypeOK, FreedHandlesAreIdle
<1>5. StoppingCancelsTransfers' BY <1>2 DEF Progress, IInv, TypeOK, StoppingCancelsTransfers
<1>6. ClocksAgree' BY DEF Progress, IInv, TypeOK, ClocksAgree
<1> QED BY <1>1, <1>3, <1>4, <1>5, <1>6 DEF IInv, Progress

\* releaseHandle gives the handle back: one request fewer holds one.
LEMMA ReleasePreserves ==
  ASSUME IInv, NEW r \in Requests, ReleaseHandle(r)
  PROVE  IInv'
<1> USE DEF ReleaseHandle
<1> DEFINE h == using[r]
<1>1. h \in Handles /\ active[h] = r BY DEF IInv, TypeOK, PoolIsPartitioned
<1>2. TypeOK' BY <1>1 DEF IInv, TypeOK
<1>3. CheckedOut' = CheckedOut \ {r} /\ r \in CheckedOut BY DEF IInv, TypeOK
<1>4. owner \notin {"freeing", "gone"} BY <1>3 DEF IInv, FreedHandlesAreIdle
<1>5. owner' \notin {"freeing", "gone"} /\ (owner' = "away" <=> owner = "away") BY <1>4
<1>6. PoolIsPartitioned'
  <2>1. available' = {g \in Handles : active'[g] = NoRequest}
    BY <1>1, <1>4 DEF IInv, TypeOK, PoolIsPartitioned
  <2>2. \A s \in CheckedOut' : using'[s] \in Handles /\ active'[using'[s]] = s
    BY <1>1, <1>3 DEF IInv, TypeOK, PoolIsPartitioned
  <2>3. \A g \in Handles : active'[g] # NoRequest =>
          active'[g] \in CheckedOut' /\ using'[active'[g]] = g
    BY <1>1, <1>3 DEF IInv, TypeOK, PoolIsPartitioned
  <2> QED BY <2>1, <2>2, <2>3 DEF PoolIsPartitioned
<1>7. FreedHandlesAreIdle' BY <1>5 DEF FreedHandlesAreIdle
<1>8. StoppingCancelsTransfers' BY <1>3 DEF IInv, StoppingCancelsTransfers
<1>9. ClocksAgree' BY DEF IInv, TypeOK, ClocksAgree
<1>10. owner' = "parked" => ~Drained' BY DEF TellsOwner
<1> QED BY <1>10, <1>2, <1>5, <1>6, <1>7, <1>8, <1>9 DEF IInv

\* The destructor: it cancels what activeRequests_ names, and leaves when that is empty.
LEMMA OwnerPreserves ==
  ASSUME IInv, Destroy \/ OwnerStep \/ SpuriousWake
  PROVE  IInv'
<1> USE DEF Destroy, OwnerStep, SpuriousWake, DrainWait, DrainEnds, ReleaseHandles, timeVars
<1>1. TypeOK' BY DEF IInv, TypeOK
<1>2. CheckedOut' = CheckedOut OBVIOUS
<1>3. ASSUME DrainEnds PROVE CheckedOut = {}
  BY <1>3, NoRequestIsNone DEF IInv, PoolIsPartitioned
<1>4. ASSUME Destroy PROVE CheckedOut \subseteq cancelled'
  BY <1>4 DEF IInv, PoolIsPartitioned
<1>5. PoolIsPartitioned' BY <1>2 DEF IInv, TypeOK, PoolIsPartitioned
<1>6. FreedHandlesAreIdle' BY <1>2, <1>3 DEF IInv, FreedHandlesAreIdle
<1>7. StoppingCancelsTransfers' BY <1>2, <1>4 DEF IInv, StoppingCancelsTransfers
<1>8. ClocksAgree' BY DEF IInv, ClocksAgree
<1>9. stopping' = (owner' # "away") BY DEF IInv
<1> QED BY <1>1, <1>5, <1>6, <1>7, <1>8, <1>9 DEF IInv

\* A cancellation from outside only adds to the cancelled requests.
LEMMA CancelPreserves ==
  ASSUME IInv, NEW r \in Requests, Cancel(r)
  PROVE  IInv'
<1> USE DEF Cancel, poolVars, timeVars
<1>1. TypeOK' BY DEF IInv, TypeOK
<1>2. CheckedOut' = CheckedOut OBVIOUS
<1>3. PoolIsPartitioned' BY <1>2 DEF IInv, PoolIsPartitioned
<1>4. FreedHandlesAreIdle' BY <1>2 DEF IInv, FreedHandlesAreIdle
<1>5. StoppingCancelsTransfers' BY <1>2 DEF IInv, StoppingCancelsTransfers
<1>6. ClocksAgree' BY DEF IInv, ClocksAgree
<1> QED BY <1>1, <1>3, <1>4, <1>5, <1>6 DEF IInv

\* Every step preserves the invariant.
LEMMA NextPreserves ==
  ASSUME IInv, [Next]_vars
  PROVE  IInv'
<1>1. CASE UNCHANGED vars
  BY <1>1 DEF vars, poolVars, timeVars, IInv, TypeOK, PoolIsPartitioned, FreedHandlesAreIdle,
              StoppingCancelsTransfers, ClocksAgree
<1>2. ASSUME NEW r \in Requests, RequestStep(r) \/ Cancel(r) PROVE IInv'
  BY <1>2, WaitingPreserves, AcquirePreserves, TransferPreserves, ReleasePreserves,
     CancelPreserves DEF RequestStep
<1>3. CASE Destroy \/ OwnerStep \/ SpuriousWake BY <1>3, OwnerPreserves
<1>4. CASE Finished BY <1>1, <1>4 DEF Finished
<1> QED BY <1>1, <1>2, <1>3, <1>4 DEF Next

\* The invariant holds in every reachable state.
THEOREM Invariance == Spec => []IInv
BY InitEstablishes, NextPreserves, PTL DEF Spec

\* The handles stay partitioned between the pool and the requests that use them.
THEOREM PoolIsPartitionedTheorem == Spec => []PoolIsPartitioned
<1>1. IInv => PoolIsPartitioned BY DEF IInv
<1> QED BY <1>1, Invariance, PTL

\* The destructor cleans up no handle under a transfer.
THEOREM FreedHandlesAreIdleTheorem == Spec => []FreedHandlesAreIdle
<1>1. IInv => FreedHandlesAreIdle BY DEF IInv
<1> QED BY <1>1, Invariance, PTL

\* No release that the destructor or a caller waits for is missed.
THEOREM WaitsEndWithReleaseTheorem == Spec => []WaitsEndWithRelease
<1>1. IInv => WaitsEndWithRelease
  <2> SUFFICES ASSUME IInv PROVE WaitsEndWithRelease OBVIOUS
  <2>1. \A h \in Handles : active[h] # NoRequest => active[h] \in CheckedOut
    BY DEF IInv, PoolIsPartitioned
  <2>2. ~Drained => \E h \in Handles : active[h] # NoRequest
    <3>1. active \in [Handles -> Requests \cup {NoRequest}] BY DEF IInv, TypeOK
    <3> QED BY <3>1
  <2>3. owner # "gone" /\ available = {} => \E h \in Handles : active[h] # NoRequest
    BY HandlesExist DEF IInv, PoolIsPartitioned
  <2> QED BY <2>1, <2>2, <2>3 DEF IInv, WaitsEndWithRelease
<1> QED BY <1>1, Invariance, PTL

\* The destructor leaves no transfer uncancelled.
THEOREM StoppingCancelsTransfersTheorem == Spec => []StoppingCancelsTransfers
<1>1. IInv => StoppingCancelsTransfers BY DEF IInv
<1> QED BY <1>1, Invariance, PTL

\* A transfer with a progress callback stops at the next call after its cancellation.
THEOREM MonitoredTransferStopsTheorem == Spec => []MonitoredTransferStops
<1>1. IInv => MonitoredTransferStops
  BY DEF IInv, ClocksAgree, Observes, MonitoredTransferStops
<1> QED BY <1>1, Invariance, PTL
================================================================================
