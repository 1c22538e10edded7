---------------------------- MODULE AsyncOperation ----------------------------
(***************************************************************************)
(* What a submitter may rely on, with the pool left out: the contract that *)
(* docs/runtime/scheduling.md gives for a RequestHandle and its terminal   *)
(* CrossaState.  A task is refused or accepted once; a cancel() that wins  *)
(* before the outcome is decided leaves Cancelled as the only outcome; one *)
(* outcome is decided, never changed, and reported exactly once.           *)
(***************************************************************************)
EXTENDS Naturals

CONSTANTS Tasks, SelfCancelling  \* SelfCancelling: Cancelled without a cancel()

VARIABLES status, reports

Undecided == {"pending", "cancelling"}
Outcomes == {"Success", "Failed", "Cancelled"}

Init ==
  /\ status = [t \in Tasks |-> "new"]
  /\ reports = [t \in Tasks |-> 0]

Submit(t) ==
  /\ status[t] = "new"
  /\ status' = [status EXCEPT ![t] = "pending"]
  /\ UNCHANGED reports

Refuse(t) ==
  /\ status[t] \in Undecided
  /\ status' = [status EXCEPT ![t] = "refused"]
  /\ UNCHANGED reports

\* A shutdown cancels any number of tasks at once.
Cancel(S) ==
  /\ \A t \in S : status[t] = "pending"
  /\ status' = [t \in Tasks |-> IF t \in S THEN "cancelling" ELSE status[t]]
  /\ UNCHANGED reports

Decide(t) ==
  /\ \E outcome \in Outcomes :
       /\ status[t] = "pending" => outcome # "Cancelled" \/ SelfCancelling
       /\ status[t] = "cancelling" => outcome = "Cancelled"
       /\ status' = [status EXCEPT ![t] = outcome]
  /\ status[t] \in Undecided
  /\ UNCHANGED reports

Report(t) ==
  /\ status[t] \in Outcomes /\ reports[t] = 0
  /\ reports' = [reports EXCEPT ![t] = 1]
  /\ UNCHANGED status

Next ==
  \/ \E t \in Tasks : Submit(t) \/ Refuse(t) \/ Decide(t) \/ Report(t)
  \/ \E S \in SUBSET Tasks : Cancel(S)

Spec == Init /\ [][Next]_<<status, reports>>
=============================================================================
