---------------------------- MODULE NetworkEngine ----------------------------
(***************************************************************************)
(* NetworkEngine::execute of src/network/NetworkEngine.cpp: the threads    *)
(* that carry out requests with one specification, which share the table   *)
(* of coalesced requests, the access token of one authentication provider  *)
(* and the retry policy.  The transport, the token server and the user who *)
(* cancels are the environment.                                            *)
(*                                                                         *)
(* One action is one critical section of coalescingMutex_, authMutex_ or a *)
(* coalesced request's mutex_, one transfer, or one wait.                  *)
(***************************************************************************)
EXTENDS Naturals, FiniteSets

CONSTANTS
  Requests,       \* the calls of execute(), each on a thread of its own
  NoRequest,
  Policies,       \* the settings a behaviour may run under
  TokenSupply     \* bound: the last token the token server hands out

StatusClasses == {"unauthorized", "transient", "final"}   \* 401, retryable, other

ASSUME NoRequestIsNone == NoRequest \notin Requests
ASSUME TokenSupplyPositive == TokenSupply \in Nat \ {0}
ASSUME PoliciesAreSettings ==
  Policies \subseteq
    [maxAttempts : Nat \ {0},          \* NetworkPolicy::Retry
     listed : SUBSET StatusClasses,    \* retryableStatusCodes
     retryableMethod : BOOLEAN,        \* idempotent, or retryNonIdempotent
     coalesce : BOOLEAN,
     authenticated : BOOLEAN,          \* has an authentication provider
     refreshable : BOOLEAN,            \* which has a refreshToken and a tokenUrl
     accessToken : {0, 1}]             \* and an accessToken, or the empty one

\* The empty token is 0, the configured one 1, those of the token server follow.
Tokens == 0..TokenSupply

VARIABLES
  policy,
  expired,            \* expiresAtMilliseconds has passed
  accessTokens,       \* the provider's token in accessTokens_
  issued,             \* the last token of the token server
  coalescedRequests,  \* the request that owns the exchange of a key, by token
  published,          \* response or error of an owner's CoalescedRequest
  cancelled,          \* requests whose handle was cancelled
  pc,
  stage,              \* why a token is looked up: "prepare", "rejected" or "reapply"
  fresh,              \* the token of a refresh, until it is stored
  token,              \* the Authorization header of the prepared request
  key,                \* and the one it had when the key was formed
  follows,            \* the owner a request waits for
  attempt, refreshed, \* the counters of executePrepared
  result,             \* what execute() returns or throws
  \* history
  rejected,           \* the tokens with which the request was answered with 401
  sends,              \* how often the request was handed to the transport
  unanswered,         \* requests one of whose transfers ended without a response
  terminalEvents      \* interceptor events that end the request

tokenVars    == <<accessTokens, issued, fresh, token>>
coalesceVars == <<coalescedRequests, published, key, follows>>
attemptVars  == <<attempt, refreshed, sends, unanswered, terminalEvents>>
vars == <<policy, expired, cancelled, pc, stage, result, rejected,
          tokenVars, coalesceVars, attemptVars>>

Points == {"start", "apply", "exchange", "store", "coalesce", "follow", "attempt",
           "transfer", "backoff", "publish", "erase", "done"}
Results == {"ok", "status", "failed", "cancelled", "exhausted"}

(***************************************************************************)
(* The decisions of the engine, some preceded by a faulty form under a     *)
(* name of its own: a mistake that the properties below must detect.       *)
(***************************************************************************)
MaximumAttempts(r) == policy.maxAttempts + (IF refreshed[r] THEN 1 ELSE 0)

PastLastAttempt(r) == attempt[r] > MaximumAttempts(r)
LastAttemptOffByOne(r) == attempt[r] > MaximumAttempts(r)
LastAttempt(r) == attempt[r] = MaximumAttempts(r)

AnyMethod == TRUE
IsRetryableMethod == policy.retryableMethod
IsRetryableStatus(class) == class \in policy.listed

\* A CrossaException is retried if its category is and, where it has one, its status.
Retryable(failure) ==
  \/ failure = "connection"
  \/ failure = "transient" /\ IsRetryableStatus("transient")

MayRefresh(r) == policy.authenticated /\ policy.refreshable /\ ~refreshed[r]

\* getAccessToken; the fault reads the provider where the table is meant.
ConfiguredToken == IF expired THEN 0 ELSE policy.accessToken
AccessToken == IF expired THEN 0 ELSE accessTokens

\* Whether the key is free, and what its owner publishes and takes back; the faults
\* overwrite an entry, publish no error, and publish every outcome as a success.
OverwritesEntry(r) == TRUE
IsFirst(r) == coalescedRequests[token[r]] = NoRequest
PublishesSuccess(out) == IF policy.coalesce /\ out = "ok" THEN "publish" ELSE "done"
AfterExchange(out) == IF policy.coalesce THEN "publish" ELSE "done"
Succeeded(r) == "ok"
Outcome(r) == result[r]

\* The type invariant: every variable in its range.
TypeOK ==
  /\ policy \in Policies /\ expired \in BOOLEAN
  /\ accessTokens \in Tokens /\ issued \in 1..TokenSupply
  /\ coalescedRequests \in [Tokens -> Requests \cup {NoRequest}]
  /\ published \in [Requests -> Results \cup {"none"}]
  /\ cancelled \subseteq Requests
  /\ pc \in [Requests -> Points]
  /\ stage \in [Requests -> {"prepare", "rejected", "reapply"}]
  /\ fresh \in [Requests -> Tokens]
  /\ token \in [Requests -> Tokens] /\ key \in [Requests -> Tokens]
  /\ follows \in [Requests -> Requests \cup {NoRequest}]
  /\ attempt \in [Requests -> 1..(policy.maxAttempts + 1)]
  /\ refreshed \in [Requests -> BOOLEAN]
  /\ result \in [Requests -> Results \cup {"none"}]
  /\ rejected \in [Requests -> SUBSET Tokens]
  /\ sends \in [Requests -> Nat]
  /\ unanswered \subseteq Requests
  /\ terminalEvents \in [Requests -> 0..2]

Init ==
  /\ policy \in Policies /\ expired \in BOOLEAN
  /\ accessTokens = policy.accessToken /\ issued = 1
  /\ coalescedRequests = [t \in Tokens |-> NoRequest]
  /\ published = [r \in Requests |-> "none"]
  /\ cancelled = {}
  /\ pc = [r \in Requests |-> "start"]
  /\ stage = [r \in Requests |-> "prepare"]
  /\ fresh = [r \in Requests |-> 0]
  /\ token = [r \in Requests |-> 0] /\ key = [r \in Requests |-> 0]
  /\ follows = [r \in Requests |-> NoRequest]
  /\ attempt = [r \in Requests |-> 1]
  /\ refreshed = [r \in Requests |-> FALSE]
  /\ result = [r \in Requests |-> "none"]
  /\ rejected = [r \in Requests |-> {}]
  /\ sends = [r \in Requests |-> 0]
  /\ unanswered = {}
  /\ terminalEvents = [r \in Requests |-> 0]

Goto(r, point) == pc' = [pc EXCEPT ![r] = point]

\* execute() ends here, or with the publication of what executePrepared ended with.
Leave(r, out) == Goto(r, "done") /\ result' = [result EXCEPT ![r] = out]
Settle(r, out) == Goto(r, AfterExchange(out)) /\ result' = [result EXCEPT ![r] = out]

\* The interceptor is told of the end of a request, possibly twice.
Tell(r, n) == terminalEvents' = [terminalEvents EXCEPT ![r] = @ + n]

NextAttempt(r) == attempt' = [attempt EXCEPT ![r] = @ + 1]

----------------------------------------------------------------------------
(* The environment: the user cancels, time passes.                         *)
CancelRequest(r) ==
  /\ r \notin cancelled /\ pc[r] # "done"
  /\ cancelled' = cancelled \cup {r}
  /\ UNCHANGED <<policy, expired, pc, stage, result, rejected, tokenVars, coalesceVars, attemptVars>>

Expire ==
  /\ ~expired /\ expired' = TRUE
  /\ UNCHANGED <<policy, cancelled, pc, stage, result, rejected, tokenVars, coalesceVars, attemptVars>>

----------------------------------------------------------------------------
(* execute, up to the exchange                                             *)
Begin(r) ==
  /\ pc[r] = "start" /\ r \notin cancelled
  /\ Goto(r, IF policy.authenticated THEN "apply" ELSE "coalesce")
  /\ UNCHANGED <<policy, expired, cancelled, stage, result, rejected, tokenVars, coalesceVars, attemptVars>>

\* The handle is cancelled, the request cannot be built or its provider is unknown.
BeginThrows(r) ==
  /\ pc[r] = "start"
  /\ Leave(r, IF r \in cancelled THEN "cancelled" ELSE "failed")
  /\ UNCHANGED <<policy, expired, cancelled, stage, rejected, tokenVars, coalesceVars, attemptVars>>

\* applyAuthentication has a token: before the exchange, or again after a 401.
Apply(r, t) ==
  /\ token' = [token EXCEPT ![r] = t]
  /\ IF stage[r] = "prepare"
       THEN Goto(r, "coalesce") /\ UNCHANGED <<attempt, refreshed>>
       ELSE /\ Goto(r, "attempt") /\ NextAttempt(r)
            /\ refreshed' = [refreshed EXCEPT ![r] = TRUE]

ApplyAuthentication(r) ==
  /\ pc[r] = "apply" /\ AccessToken # 0
  /\ Apply(r, AccessToken)
  /\ UNCHANGED <<policy, expired, cancelled, stage, result, rejected, accessTokens, issued, fresh,
                 coalesceVars, sends, unanswered, terminalEvents>>

ApplyNeedsRefresh(r) ==
  /\ pc[r] = "apply" /\ AccessToken = 0 /\ policy.refreshable
  /\ Goto(r, "exchange")
  /\ UNCHANGED <<policy, expired, cancelled, stage, result, rejected, tokenVars, coalesceVars, attemptVars>>

\* "has no access token": a plain exception, outside executePrepared.
ApplyThrows(r) ==
  /\ pc[r] = "apply" /\ AccessToken = 0 /\ ~policy.refreshable
  /\ Leave(r, "failed")
  /\ UNCHANGED <<policy, expired, cancelled, stage, rejected, tokenVars, coalesceVars, attemptVars>>

----------------------------------------------------------------------------
(* refreshAccessToken: the transfer, then authMutex_ for the new token.    *)

\* The catch blocks of executePrepared: another attempt after a wait, or the end.
Catch(r, failure, out) ==
  IF Retryable(failure) /\ IsRetryableMethod /\ ~LastAttempt(r)
    THEN Goto(r, "backoff") /\ UNCHANGED <<result, terminalEvents>>
    ELSE Settle(r, out) /\ Tell(r, 1)

\* The token server answers with a new token, or with an empty one.
RefreshAnswered(r) ==
  /\ pc[r] = "exchange"
  /\ \E t \in {0, issued + 1} \cap Tokens :
       /\ fresh' = [fresh EXCEPT ![r] = t]
       /\ issued' = IF t = 0 THEN issued ELSE t
  /\ Goto(r, "store")
  /\ UNCHANGED <<policy, expired, cancelled, stage, result, rejected, accessTokens, token,
                 coalesceVars, attemptVars>>

RefreshFails(r) ==
  /\ pc[r] = "exchange"
  /\ \E failure \in {"connection", "transient", "fatal", "cancelled"} :
       /\ failure = "cancelled" => r \in cancelled
       /\ LET out == IF failure = "cancelled" THEN "cancelled" ELSE "failed" IN
            IF stage[r] = "prepare"
              THEN Leave(r, out) /\ UNCHANGED terminalEvents
              ELSE Catch(r, failure, out)
  /\ UNCHANGED <<policy, expired, cancelled, stage, rejected, tokenVars, coalesceVars,
                 attempt, refreshed, sends, unanswered>>

\* The token is stored for everybody.  After a 401 it is then looked up again,
Store(r) ==
  /\ pc[r] = "store"
  /\ accessTokens' = fresh[r]
  /\ fresh' = [fresh EXCEPT ![r] = 0]
  /\ \/ /\ stage[r] = "rejected"
        /\ stage' = [stage EXCEPT ![r] = "reapply"]
        /\ Goto(r, "apply")
        /\ UNCHANGED <<result, token, attempt, refreshed, terminalEvents>>
     \* otherwise it is used as it is,
     \/ /\ stage[r] # "rejected" /\ fresh[r] # 0
        /\ Apply(r, fresh[r])
        /\ UNCHANGED <<stage, result, terminalEvents>>
     \* unless it is empty.
     \/ /\ stage[r] # "rejected" /\ fresh[r] = 0
        /\ IF stage[r] = "prepare"
             THEN Leave(r, "failed") /\ UNCHANGED terminalEvents
             ELSE Settle(r, "failed") /\ Tell(r, 1)
        /\ UNCHANGED <<stage, token, attempt, refreshed>>
  /\ UNCHANGED <<policy, expired, cancelled, rejected, issued, coalesceVars, sends, unanswered>>

----------------------------------------------------------------------------
(* Coalescing                                                              *)
ExecuteAlone(r) ==
  /\ pc[r] = "coalesce" /\ ~policy.coalesce
  /\ Goto(r, "attempt")
  /\ UNCHANGED <<policy, expired, cancelled, stage, result, rejected, tokenVars, coalesceVars, attemptVars>>

BecomeOwner(r) ==
  /\ pc[r] = "coalesce" /\ policy.coalesce /\ IsFirst(r)
  /\ coalescedRequests' = [coalescedRequests EXCEPT ![token[r]] = r]
  /\ key' = [key EXCEPT ![r] = token[r]]
  /\ Goto(r, "attempt")
  /\ UNCHANGED <<policy, expired, cancelled, stage, result, rejected, tokenVars, published,
                 follows, attemptVars>>

Follow(r) ==
  /\ pc[r] = "coalesce" /\ policy.coalesce /\ ~IsFirst(r)
  /\ follows' = [follows EXCEPT ![r] = coalescedRequests[token[r]]]
  /\ Goto(r, "follow")
  /\ UNCHANGED <<policy, expired, cancelled, stage, result, rejected, tokenVars,
                 coalescedRequests, published, key, attemptVars>>

\* A follower wakes every 25 ms: to its own cancellation, or to the owner's outcome.
FollowerCancelled(r) ==
  /\ pc[r] = "follow" /\ published[follows[r]] = "none" /\ r \in cancelled
  /\ Leave(r, "cancelled")
  /\ UNCHANGED <<policy, expired, cancelled, stage, rejected, tokenVars, coalesceVars, attemptVars>>

FollowerShares(r) ==
  /\ pc[r] = "follow" /\ published[follows[r]] # "none"
  /\ Leave(r, published[follows[r]])
  /\ UNCHANGED <<policy, expired, cancelled, stage, rejected, tokenVars, coalesceVars, attemptVars>>

\* The owner publishes under the mutex of the coalesced request, and only then takes
\* it out of the table.
Publish(r) ==
  /\ pc[r] = "publish"
  /\ published' = [published EXCEPT ![r] = Outcome(r)]
  /\ Goto(r, "erase")
  /\ UNCHANGED <<policy, expired, cancelled, stage, result, rejected, tokenVars,
                 coalescedRequests, key, follows, attemptVars>>

Erase(r) ==
  /\ pc[r] = "erase"
  /\ coalescedRequests' = [coalescedRequests EXCEPT ![key[r]] = NoRequest]
  /\ Goto(r, "done")
  /\ UNCHANGED <<policy, expired, cancelled, stage, result, rejected, tokenVars,
                 published, key, follows, attemptVars>>

----------------------------------------------------------------------------
(* executePrepared                                                         *)
\* A cancelled handle throws inside the try block; past the last attempt the loop is
\* over and nobody is told.
AttemptThrows(r) ==
  /\ pc[r] = "attempt"
  /\ PastLastAttempt(r) \/ r \in cancelled
  /\ Settle(r, IF PastLastAttempt(r) THEN "exhausted" ELSE "cancelled")
  /\ Tell(r, IF PastLastAttempt(r) THEN 0 ELSE 1)
  /\ UNCHANGED <<policy, expired, cancelled, stage, rejected, tokenVars, coalesceVars,
                 attempt, refreshed, sends, unanswered>>

Send(r) ==
  /\ pc[r] = "attempt" /\ ~PastLastAttempt(r) /\ r \notin cancelled
  /\ sends' = [sends EXCEPT ![r] = @ + 1]
  /\ Goto(r, "transfer")
  /\ UNCHANGED <<policy, expired, cancelled, stage, result, rejected, tokenVars, coalesceVars,
                 attempt, refreshed, unanswered, terminalEvents>>

Succeeds(r) ==
  /\ pc[r] = "transfer"
  /\ Settle(r, "ok") /\ Tell(r, 1)
  /\ UNCHANGED <<policy, expired, cancelled, stage, rejected, tokenVars, coalesceVars,
                 attempt, refreshed, sends, unanswered>>

Reject(r) == rejected' = [rejected EXCEPT ![r] = @ \cup {token[r]}]

\* A 401 that a new token may mend: the next attempt follows without a wait.
Unauthorized(r) ==
  /\ pc[r] = "transfer" /\ MayRefresh(r)
  /\ Reject(r)
  /\ stage' = [stage EXCEPT ![r] = "rejected"]
  /\ Goto(r, "exchange")
  /\ UNCHANGED <<policy, expired, cancelled, result, tokenVars, coalesceVars, attemptVars>>

\* Any other status that is not a success.  The exception that ends the request is
\* thrown inside the try block, whose catch block tells the interceptor once more.
FailingStatus(r) ==
  /\ pc[r] = "transfer"
  /\ \E class \in StatusClasses :
       /\ IF class = "unauthorized" THEN ~MayRefresh(r) /\ Reject(r) ELSE UNCHANGED rejected
       /\ IF IsRetryableStatus(class) /\ IsRetryableMethod /\ ~LastAttempt(r)
            THEN Goto(r, "backoff") /\ UNCHANGED <<result, terminalEvents>>
            ELSE Settle(r, "status") /\ Tell(r, 2)
  /\ UNCHANGED <<policy, expired, cancelled, stage, tokenVars, coalesceVars,
                 attempt, refreshed, sends, unanswered>>

\* A transfer that ends without a response: timeout or connection (retryable), the
\* rest (TLS, limits) and a cancellation, which are not.
TransferThrows(r) ==
  /\ pc[r] = "transfer"
  /\ unanswered' = unanswered \cup {r}
  /\ \E failure \in {"connection", "fatal", "cancelled"} :
       /\ failure = "cancelled" => r \in cancelled
       /\ Catch(r, failure, IF failure = "cancelled" THEN "cancelled" ELSE "failed")
  /\ UNCHANGED <<policy, expired, cancelled, stage, rejected, tokenVars, coalesceVars,
                 attempt, refreshed, sends>>

WaitBeforeRetry(r) ==
  /\ pc[r] = "backoff"
  /\ NextAttempt(r)
  /\ Goto(r, "attempt")
  /\ UNCHANGED <<policy, expired, cancelled, stage, result, rejected, tokenVars, coalesceVars,
                 refreshed, sends, unanswered, terminalEvents>>

\* Between two slices of 25 ms, outside the try block: nobody is told.
WaitCancelled(r) ==
  /\ pc[r] = "backoff" /\ r \in cancelled
  /\ Settle(r, "cancelled")
  /\ UNCHANGED <<policy, expired, cancelled, stage, rejected, tokenVars, coalesceVars, attemptVars>>

----------------------------------------------------------------------------
Step(r) ==
  \/ Begin(r) \/ BeginThrows(r)
  \/ ApplyAuthentication(r) \/ ApplyNeedsRefresh(r) \/ ApplyThrows(r)
  \/ RefreshAnswered(r) \/ RefreshFails(r) \/ Store(r)
  \/ ExecuteAlone(r) \/ BecomeOwner(r) \/ Follow(r)
  \/ FollowerCancelled(r) \/ FollowerShares(r) \/ Publish(r) \/ Erase(r)
  \/ AttemptThrows(r) \/ Send(r)
  \/ Succeeds(r) \/ Unauthorized(r) \/ FailingStatus(r) \/ TransferThrows(r)
  \/ WaitBeforeRetry(r) \/ WaitCancelled(r)

Finished == (\A r \in Requests : pc[r] = "done") /\ UNCHANGED vars

Next == (\E r \in Requests : Step(r) \/ CancelRequest(r)) \/ Expire \/ Finished

Spec == Init /\ [][Next]_vars

\* Threads are scheduled, and a transfer ends: libcurl's timeout bounds it.
FairSpec == Spec /\ \A r \in Requests : WF_vars(Step(r))

----------------------------------------------------------------------------
(* What the engine promises                                                *)

\* A request whose method must not be repeated is not handed to the transport again
\* once a transfer of it ended without a response, refreshed or not.
UnansweredIsNotRepeated ==
  [][\A r \in Requests : r \in unanswered /\ ~policy.retryableMethod => sends'[r] = sends[r]]_vars

\* The transport sees a request at most maxAttempts times and once more after a 401,
\* and the loop never runs past its end ("Retry policy exhausted unexpectedly.").
SendsAreBounded ==
  \A r \in Requests :
    /\ sends[r] <= policy.maxAttempts + 1
    /\ sends[r] = policy.maxAttempts + 1 => refreshed[r]
    /\ result[r] # "exhausted"

\* The token that a refresh gives a request is none that was answered with 401,
\* whichever requests refreshed it meanwhile and in whatever order they stored it.  A
\* request goes out again with a rejected token only as an ordinary retry: its method
\* is retryable, and either 401 is listed as a status to retry or the refresh that it
\* asked for has failed.
RetriesRejected(r) ==
  policy.retryableMethod /\ ("unauthorized" \in policy.listed \/ MayRefresh(r))

RejectedTokenIsReplaced ==
  [][\A r \in Requests :
       /\ refreshed'[r] # refreshed[r] \/ token'[r] # token[r] =>
            token'[r] \notin rejected[r] \cup {0}
       /\ sends'[r] # sends[r] /\ token[r] \in rejected[r] => RetriesRejected(r)]_vars

\* Two requests with one key are not in exchange at the same time.
OneExchangePerKey ==
  \A r, s \in Requests : r # s /\ policy.coalesce =>
    ~(/\ {pc[r], pc[s]} \subseteq {"attempt", "transfer", "backoff", "publish"}
      /\ key[r] = key[s])

\* A key leads to a request that is still going to publish or erase it: no ending
\* leaves an entry behind that would serve an old outcome, or none, for ever.
EntryHasLiveOwner ==
  \A t \in Tokens : coalescedRequests[t] # NoRequest =>
    LET r == coalescedRequests[t] IN
      pc[r] \notin {"start", "coalesce", "follow", "done"} /\ key[r] = t

\* A follower never reaches the transport, and ends as its owner did unless it was
\* cancelled itself.
FollowerSharesOutcome ==
  \A r \in Requests : follows[r] # NoRequest =>
    /\ sends[r] = 0
    /\ pc[r] = "done" => \/ result[r] = result[follows[r]]
                         \/ r \in cancelled /\ result[r] = "cancelled"

\* execute() returns, to followers and cancelled requests too.
RequestsReturn == \A r \in Requests : (pc[r] # "start") ~> (pc[r] = "done")

\* NetworkEngine.h: "execute() guarantees one interceptor terminal event for every
\* prepared request."
OneTerminalEvent ==
  \A r \in Requests : pc[r] = "done" /\ sends[r] > 0 => terminalEvents[r] = 1

----------------------------------------------------------------------------
(***************************************************************************)
(* The inductive invariant.                                                *)
(***************************************************************************)
\* r looks up a token before its first attempt, or after a 401.
LooksUp(r) == pc[r] \in {"apply", "exchange", "store"}
Preparing(r) == pc[r] \in {"start", "coalesce", "follow"} \/ (LooksUp(r) /\ stage[r] = "prepare")
Refreshing(r) == LooksUp(r) /\ stage[r] # "prepare"

\* r is inside executePrepared, or owns its key still.
Sending(r) == pc[r] \in {"attempt", "transfer", "backoff"}
InExchange(r) == Sending(r) \/ Refreshing(r)
Owns(r) == InExchange(r) \/ pc[r] \in {"publish", "erase"}

\* The counters of the retry loop.
CountersOf(r) ==
  /\ attempt[r] <= MaximumAttempts(r)
  /\ pc[r] = "backoff" => ~LastAttempt(r)
  /\ Refreshing(r) => MayRefresh(r)
  /\ Preparing(r) => /\ sends[r] = 0 /\ ~refreshed[r] /\ attempt[r] = 1
                     /\ stage[r] = "prepare" /\ r \notin unanswered
  /\ pc[r] = "attempt" => sends[r] < attempt[r]
  /\ sends[r] <= attempt[r]
  /\ result[r] # "exhausted" /\ published[r] # "exhausted"
  /\ Preparing(r) \/ InExchange(r) => terminalEvents[r] = 0
  /\ r \in unanswered /\ InExchange(r) => policy.retryableMethod

\* Where tokens are: one that is not stored yet is nowhere else.
TokensOf(r) ==
  /\ fresh[r] <= issued /\ token[r] <= issued /\ \A t \in rejected[r] : t <= issued
  /\ fresh[r] # 0 => pc[r] = "store" /\ fresh[r] # accessTokens
  /\ pc[r] = "apply" => stage[r] # "rejected"
  /\ pc[r] = "apply" /\ stage[r] = "reapply" => accessTokens \notin rejected[r] \ {0}
  /\ Preparing(r) => rejected[r] = {}
  /\ Sending(r) /\ token[r] \in rejected[r] => RetriesRejected(r)

Unused(r, s) ==
  fresh[r] # 0 => /\ token[s] # fresh[r] /\ fresh[r] \notin rejected[s]
                  /\ s # r => fresh[s] # fresh[r]

\* Who is in the table.
OwnerOf(t) ==
  LET r == coalescedRequests[t] IN r # NoRequest => Owns(r) /\ key[r] = t /\ policy.coalesce

OwnerEntry(r) == policy.coalesce /\ Owns(r) => coalescedRequests[key[r]] = r

\* What an owner has published, and who waits for it.
OutcomeOf(r) ==
  /\ pc[r] \in {"publish", "erase"} => policy.coalesce /\ result[r] # "none"
  /\ published[r] # "none" => pc[r] \in {"erase", "done"} /\ result[r] = published[r]
  /\ pc[r] = "erase" => published[r] # "none"

FollowerOf(r) ==
  /\ pc[r] = "follow" => follows[r] # NoRequest
  /\ follows[r] # NoRequest => /\ pc[r] \in {"follow", "done"} /\ sends[r] = 0 /\ policy.coalesce
                               /\ Owns(follows[r]) \/ published[follows[r]] # "none"
  /\ pc[r] = "done" /\ follows[r] # NoRequest =>
       \/ published[follows[r]] # "none" /\ result[r] = published[follows[r]]
       \/ r \in cancelled /\ result[r] = "cancelled"

CountersAgree == \A r \in Requests : CountersOf(r)
TokensAgree == accessTokens <= issued /\ \A r \in Requests : TokensOf(r) /\ \A s \in Requests : Unused(r, s)
TableAgrees == (\A t \in Tokens : OwnerOf(t)) /\ (\A r \in Requests : OwnerEntry(r))
OutcomesAgree == \A r \in Requests : OutcomeOf(r)
FollowersAgree == \A r \in Requests : FollowerOf(r)

\* The conjunction that every step preserves.
IInv == TypeOK /\ CountersAgree /\ TokensAgree /\ TableAgrees /\ OutcomesAgree /\ FollowersAgree
=============================================================================
