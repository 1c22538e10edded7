------------------------- MODULE NetworkEngineProofs -------------------------
(***************************************************************************)
(* Theorems about NetworkEngine for every number of requests, every policy *)
(* and any supply of tokens.  IInv is inductive.  A step changes one       *)
(* request, so lemmas about what it leaves alone come first, then one      *)
(* lemma per action says what becomes of that request.                     *)
(***************************************************************************)
EXTENDS NetworkEngine, TLAPS

USE NoRequestIsNone, TokenSupplyPositive
USE DEF Points, Results, StatusClasses, Tokens, Goto, Leave, Settle, Tell, NextAttempt,
        MaximumAttempts, PastLastAttempt, LastAttempt, IsRetryableMethod, MayRefresh,
        AccessToken, AfterExchange, Outcome, IsFirst, Apply,
        LooksUp, Preparing, Refreshing, Sending, InExchange, Owns, Reject, RetriesRejected,
        vars, tokenVars, coalesceVars, attemptVars

\* What a policy is made of.
LEMMA PolicyFields ==
  ASSUME policy \in Policies
  PROVE  /\ policy.maxAttempts \in Nat \ {0} /\ policy.accessToken \in {0, 1}
         /\ policy.coalesce \in BOOLEAN /\ policy.retryableMethod \in BOOLEAN
         /\ policy.authenticated \in BOOLEAN /\ policy.refreshable \in BOOLEAN
BY PoliciesAreSettings

\* A state before any request has begun satisfies the invariant.
LEMMA InitEstablishes == Init => IInv
<1> SUFFICES ASSUME Init PROVE IInv OBVIOUS
<1> USE PolicyFields DEF Init
<1>1. TypeOK BY DEF TypeOK
<1>2. CountersAgree BY DEF CountersAgree, CountersOf
<1>3. TokensAgree BY DEF TokensAgree, TokensOf, Unused
<1>4. TableAgrees BY DEF TableAgrees, OwnerOf, OwnerEntry
<1>5. OutcomesAgree BY DEF OutcomesAgree, OutcomeOf
<1>6. FollowersAgree BY DEF FollowersAgree, FollowerOf
<1> QED BY <1>1, <1>2, <1>3, <1>4, <1>5, <1>6 DEF IInv

----------------------------------------------------------------------------
(* What a step of one request means for the others.                        *)

\* A step leaves everything of s alone.
Untouched(s) ==
  /\ pc'[s] = pc[s] /\ stage'[s] = stage[s] /\ result'[s] = result[s]
  /\ fresh'[s] = fresh[s] /\ token'[s] = token[s] /\ rejected'[s] = rejected[s]
  /\ published'[s] = published[s] /\ key'[s] = key[s] /\ follows'[s] = follows[s]
  /\ attempt'[s] = attempt[s] /\ refreshed'[s] = refreshed[s] /\ sends'[s] = sends[s]
  /\ terminalEvents'[s] = terminalEvents[s]
  /\ s \in unanswered' <=> s \in unanswered
  /\ s \in cancelled' <=> s \in cancelled

\* The counters agree if those of the request that moved do.
LEMMA CountersKept ==
  ASSUME IInv, NEW r \in Requests, policy' = policy,
         \A s \in Requests \ {r} : Untouched(s), CountersOf(r)'
  PROVE  CountersAgree'
<1> SUFFICES ASSUME NEW s \in Requests \ {r} PROVE CountersOf(s)' BY DEF CountersAgree
<1>1. CountersOf(s) BY DEF IInv, CountersAgree
<1> QED BY <1>1 DEF CountersOf, Untouched

\* A request keeps its tokens if it changes no token and its look-up or its loop goes on.
MayMove(r) ==
  /\ fresh[r] = 0
  /\ pc'[r] = "apply" => stage'[r] = "prepare"
  /\ Preparing(r)' => Preparing(r)
  /\ Sending(r)' => Sending(r) \/ Preparing(r) \/ RetriesRejected(r)

\* The tokens agree after a step that moves none and begins no second look-up.
LEMMA TokensKept ==
  ASSUME IInv, NEW r \in Requests, \A s \in Requests \ {r} : Untouched(s),
         UNCHANGED <<policy, accessTokens, issued, fresh, token, rejected, refreshed>>,
         MayMove(r)
  PROVE  TokensAgree'
<1>1. \A s \in Requests : TokensOf(s)' BY DEF IInv, TokensAgree, TokensOf, MayMove, Untouched
<1>2. \A s, t \in Requests : Unused(s, t)' BY DEF IInv, TokensAgree, Unused
<1> QED BY <1>1, <1>2 DEF IInv, TokensAgree

\* A request that neither follows nor has published keeps its place in the table, or
\* leaves it alone, or has no key.
LEMMA RoleKept ==
  ASSUME IInv, NEW r \in Requests, \A s \in Requests \ {r} : Untouched(s),
         UNCHANGED <<policy, coalescedRequests, published, key, follows>>,
         published[r] = "none", follows[r] = NoRequest, pc'[r] \notin {"erase", "follow"},
         policy.coalesce => (Owns(r)' <=> Owns(r)),
         pc'[r] = "publish" => policy.coalesce /\ result'[r] # "none"
  PROVE  TableAgrees' /\ OutcomesAgree' /\ FollowersAgree'
<1>1. \A s \in Requests : policy.coalesce => (Owns(s)' <=> Owns(s)) BY DEF Untouched
<1>2. TableAgrees'
  <2>1. \A t \in Tokens : OwnerOf(t)'
    <3> SUFFICES ASSUME NEW t \in Tokens, coalescedRequests[t] # NoRequest PROVE OwnerOf(t)'
      BY DEF OwnerOf
    <3>1. coalescedRequests[t] \in Requests BY DEF IInv, TypeOK
    <3>2. OwnerOf(t) BY DEF IInv, TableAgrees
    <3> HIDE DEF Owns
    <3> QED BY <1>1, <3>1, <3>2 DEF OwnerOf
  <2>2. \A s \in Requests : OwnerEntry(s)'
    <3> HIDE DEF Owns
    <3> QED BY <1>1 DEF IInv, TableAgrees, OwnerEntry
  <2> QED BY <2>1, <2>2 DEF TableAgrees
<1>3. OutcomesAgree'
  <2>1. OutcomeOf(r)' BY DEF OutcomeOf
  <2>2. \A s \in Requests \ {r} : OutcomeOf(s)' BY DEF IInv, OutcomesAgree, OutcomeOf, Untouched
  <2> QED BY <2>1, <2>2 DEF OutcomesAgree
<1>4. FollowersAgree'
  <2>1. FollowerOf(r)' BY DEF FollowerOf
  <2>2. ASSUME NEW s \in Requests \ {r} PROVE FollowerOf(s)'
    <3>1. FollowerOf(s) BY DEF IInv, FollowersAgree
    <3>2. follows[s] # NoRequest => follows[s] \in Requests BY DEF IInv, TypeOK
    <3> HIDE DEF Owns
    <3> QED BY <1>1, <3>1, <3>2 DEF FollowerOf, Untouched
  <2> QED BY <2>1, <2>2 DEF FollowersAgree
<1> QED BY <1>2, <1>3, <1>4

----------------------------------------------------------------------------
(* One lemma per action.                                                   *)

\* A request goes on to its token or to the table.
LEMMA BeginKeeps ==
  ASSUME IInv, NEW r \in Requests, Begin(r)
  PROVE  IInv'
<1>0. CountersOf(r) /\ TokensOf(r) /\ OutcomeOf(r) /\ FollowerOf(r)
  BY DEF IInv, CountersAgree, TokensAgree, OutcomesAgree, FollowersAgree
<1>1. TypeOK' BY PolicyFields DEF IInv, TypeOK, Begin
<1>2. \A s \in Requests \ {r} : Untouched(s) BY DEF IInv, TypeOK, Begin, Untouched
<1>3. CountersOf(r)' BY <1>0, PolicyFields DEF IInv, TypeOK, CountersOf, Begin
<1>4. CountersAgree' BY <1>2, <1>3, CountersKept DEF Begin
<1>5. TokensAgree' BY <1>0, <1>2, TokensKept DEF MayMove, IInv, TypeOK, TokensOf, CountersOf, Begin
<1>6. /\ published[r] = "none" /\ follows[r] = NoRequest /\ pc'[r] \notin {"erase", "follow"}
      /\ policy.coalesce => (Owns(r)' <=> Owns(r))
      /\ pc'[r] = "publish" => policy.coalesce /\ result'[r] # "none"
  BY <1>0 DEF IInv, TypeOK, OutcomeOf, FollowerOf, CountersOf, Begin
<1>7. TableAgrees' /\ OutcomesAgree' /\ FollowersAgree'
  BY <1>2, <1>6, RoleKept DEF Begin
<1> QED BY <1>1, <1>4, <1>5, <1>7 DEF IInv

\* A request that fails at once never had a key.
LEMMA BeginThrowsKeeps ==
  ASSUME IInv, NEW r \in Requests, BeginThrows(r)
  PROVE  IInv'
<1>0. CountersOf(r) /\ TokensOf(r) /\ OutcomeOf(r) /\ FollowerOf(r)
  BY DEF IInv, CountersAgree, TokensAgree, OutcomesAgree, FollowersAgree
<1>1. TypeOK' BY PolicyFields DEF IInv, TypeOK, BeginThrows
<1>2. \A s \in Requests \ {r} : Untouched(s) BY DEF IInv, TypeOK, BeginThrows, Untouched
<1>3. CountersOf(r)' BY <1>0, PolicyFields DEF IInv, TypeOK, CountersOf, BeginThrows
<1>4. CountersAgree' BY <1>2, <1>3, CountersKept DEF BeginThrows
<1>5. TokensAgree' BY <1>0, <1>2, TokensKept DEF MayMove, IInv, TypeOK, TokensOf, CountersOf, BeginThrows
<1>6. /\ published[r] = "none" /\ follows[r] = NoRequest /\ pc'[r] \notin {"erase", "follow"}
      /\ policy.coalesce => (Owns(r)' <=> Owns(r))
      /\ pc'[r] = "publish" => policy.coalesce /\ result'[r] # "none"
  BY <1>0 DEF IInv, TypeOK, OutcomeOf, FollowerOf, CountersOf, BeginThrows
<1>7. TableAgrees' /\ OutcomesAgree' /\ FollowersAgree'
  BY <1>2, <1>6, RoleKept DEF BeginThrows
<1> QED BY <1>1, <1>4, <1>5, <1>7 DEF IInv

\* The token in the table is not the rejected one: only a new token was stored since.
LEMMA ApplyAuthenticationKeeps ==
  ASSUME IInv, NEW r \in Requests, ApplyAuthentication(r)
  PROVE  IInv'
<1>0. CountersOf(r) /\ TokensOf(r) /\ OutcomeOf(r) /\ FollowerOf(r)
  BY DEF IInv, CountersAgree, TokensAgree, OutcomesAgree, FollowersAgree
<1>1. TypeOK'
  <2>1. \/ UNCHANGED terminalEvents
        \/ \E n \in 0..2 : terminalEvents' = [terminalEvents EXCEPT ![r] = @ + n]
    BY DEF ApplyAuthentication
  <2>2. terminalEvents \in [Requests -> 0..2] /\ terminalEvents[r] = 0
    BY <1>0 DEF IInv, TypeOK, CountersOf, ApplyAuthentication
  <2>3. terminalEvents' \in [Requests -> 0..2] BY <2>1, <2>2
  <2>4. pc' \in [Requests -> Points] /\ result' \in [Requests -> Results \cup {"none"}]
    <3>1. \E p \in Points : pc' = [pc EXCEPT ![r] = p] BY DEF ApplyAuthentication
    <3>2. result' \in [Requests -> Results \cup {"none"}]
      BY SMTT(60) DEF IInv, TypeOK, ApplyAuthentication
    <3> HIDE DEF Points
    <3>3. pc \in [Requests -> Points] BY DEF IInv, TypeOK
    <3>4. pc' \in [Requests -> Points] BY <3>1, <3>3
    <3> QED BY <3>2, <3>4
  <2>5. \/ attempt' = attempt
        \/ attempt' = [attempt EXCEPT ![r] = @ + 1] /\ attempt[r] <= policy.maxAttempts
    BY <1>0, PolicyFields DEF IInv, TypeOK, CountersOf, ApplyAuthentication
  <2>6. attempt \in [Requests -> 1..(policy.maxAttempts + 1)] /\ policy.maxAttempts \in Nat
    BY PolicyFields DEF IInv, TypeOK
  <2>7. attempt' \in [Requests -> 1..(policy.maxAttempts + 1)] BY <2>5, <2>6
  <2>8. accessTokens' \in Tokens BY DEF IInv, TypeOK, ApplyAuthentication
  <2>9. fresh' \in [Requests -> Tokens] BY DEF IInv, TypeOK, ApplyAuthentication
  <2>10. token' \in [Requests -> Tokens] BY DEF IInv, TypeOK, ApplyAuthentication
  <2>11. /\ stage' \in [Requests -> {"prepare", "rejected", "reapply"}]
         /\ issued' \in 1..TokenSupply /\ refreshed' \in [Requests -> BOOLEAN]
    BY DEF IInv, TypeOK, ApplyAuthentication
  <2>12. UNCHANGED <<policy, expired, coalescedRequests, published, cancelled, key, follows,
                     rejected, sends, unanswered>>
    BY DEF ApplyAuthentication
  <2> QED BY <2>3, <2>4, <2>7, <2>8, <2>9, <2>10, <2>11, <2>12 DEF IInv, TypeOK
<1>2. \A s \in Requests \ {r} : Untouched(s) BY DEF IInv, TypeOK, ApplyAuthentication, Untouched
<1>3. CountersOf(r)'
  BY SMTT(30), <1>0, PolicyFields DEF IInv, TypeOK, CountersOf, ApplyAuthentication
<1>4. CountersAgree' BY <1>2, <1>3, CountersKept DEF ApplyAuthentication
<1>5. TokensAgree'
  <2>1. TokensOf(r)' BY <1>0 DEF IInv, TypeOK, TokensAgree, TokensOf, Unused, CountersOf,
       ApplyAuthentication
  <2>2. \A s \in Requests \ {r} : TokensOf(s)'
   
      BY SMTT(30), <1>2 DEF IInv, TypeOK, TokensAgree, TokensOf, Unused, ApplyAuthentication, Untouched
  <2>3. ASSUME NEW s \in Requests, NEW t \in Requests PROVE Unused(s, t)'
    <3>1. Unused(s, t) /\ TokensOf(s) BY DEF IInv, TokensAgree
    <3>2. token'[t] \in {token[t], accessTokens} /\ pc[r] = "apply"
      BY DEF IInv, TypeOK, ApplyAuthentication
    <3>3. UNCHANGED <<fresh, rejected>> BY DEF ApplyAuthentication
    <3> QED BY <3>1, <3>2, <3>3 DEF TokensOf, Unused
  <2> QED BY <2>1, <2>2, <2>3 DEF IInv, TypeOK, TokensAgree, ApplyAuthentication
<1>6. /\ published[r] = "none" /\ follows[r] = NoRequest /\ pc'[r] \notin {"erase", "follow"}
      /\ policy.coalesce => (Owns(r)' <=> Owns(r))
      /\ pc'[r] = "publish" => policy.coalesce /\ result'[r] # "none"
  BY <1>0 DEF IInv, TypeOK, OutcomeOf, FollowerOf, CountersOf, ApplyAuthentication
<1>7. TableAgrees' /\ OutcomesAgree' /\ FollowersAgree'
  BY <1>2, <1>6, RoleKept DEF ApplyAuthentication
<1> QED BY <1>1, <1>4, <1>5, <1>7 DEF IInv

\* An empty or expired token is refreshed.
LEMMA ApplyNeedsRefreshKeeps ==
  ASSUME IInv, NEW r \in Requests, ApplyNeedsRefresh(r)
  PROVE  IInv'
<1>0. CountersOf(r) /\ TokensOf(r) /\ OutcomeOf(r) /\ FollowerOf(r)
  BY DEF IInv, CountersAgree, TokensAgree, OutcomesAgree, FollowersAgree
<1>1. TypeOK' BY PolicyFields DEF IInv, TypeOK, ApplyNeedsRefresh
<1>2. \A s \in Requests \ {r} : Untouched(s) BY DEF IInv, TypeOK, ApplyNeedsRefresh, Untouched
<1>3. CountersOf(r)' BY <1>0, PolicyFields DEF IInv, TypeOK, CountersOf, ApplyNeedsRefresh
<1>4. CountersAgree' BY <1>2, <1>3, CountersKept DEF ApplyNeedsRefresh
<1>5. TokensAgree' BY <1>0, <1>2, TokensKept DEF MayMove, IInv, TypeOK, TokensOf, CountersOf,
     ApplyNeedsRefresh
<1>6. /\ published[r] = "none" /\ follows[r] = NoRequest /\ pc'[r] \notin {"erase", "follow"}
      /\ policy.coalesce => (Owns(r)' <=> Owns(r))
      /\ pc'[r] = "publish" => policy.coalesce /\ result'[r] # "none"
  BY <1>0 DEF IInv, TypeOK, OutcomeOf, FollowerOf, CountersOf, ApplyNeedsRefresh
<1>7. TableAgrees' /\ OutcomesAgree' /\ FollowersAgree'
  BY <1>2, <1>6, RoleKept DEF ApplyNeedsRefresh
<1> QED BY <1>1, <1>4, <1>5, <1>7 DEF IInv

\* Without a refresh token the request ends before it has a key.
LEMMA ApplyThrowsKeeps ==
  ASSUME IInv, NEW r \in Requests, ApplyThrows(r)
  PROVE  IInv'
<1>0. CountersOf(r) /\ TokensOf(r) /\ OutcomeOf(r) /\ FollowerOf(r)
  BY DEF IInv, CountersAgree, TokensAgree, OutcomesAgree, FollowersAgree
<1>1. TypeOK' BY PolicyFields DEF IInv, TypeOK, ApplyThrows
<1>2. \A s \in Requests \ {r} : Untouched(s) BY DEF IInv, TypeOK, ApplyThrows, Untouched
<1>3. CountersOf(r)' BY <1>0, PolicyFields DEF IInv, TypeOK, CountersOf, ApplyThrows
<1>4. CountersAgree' BY <1>2, <1>3, CountersKept DEF ApplyThrows
<1>5. TokensAgree' BY <1>0, <1>2, TokensKept DEF MayMove, IInv, TypeOK, TokensOf, CountersOf, ApplyThrows
<1>6. /\ published[r] = "none" /\ follows[r] = NoRequest /\ pc'[r] \notin {"erase", "follow"}
      /\ policy.coalesce => (Owns(r)' <=> Owns(r))
      /\ pc'[r] = "publish" => policy.coalesce /\ result'[r] # "none"
  BY <1>0 DEF IInv, TypeOK, OutcomeOf, FollowerOf, CountersOf, ApplyThrows
<1>7. TableAgrees' /\ OutcomesAgree' /\ FollowersAgree'
  BY <1>2, <1>6, RoleKept DEF ApplyThrows
<1> QED BY <1>1, <1>4, <1>5, <1>7 DEF IInv

\* The token server's token is in nobody's hands.
LEMMA RefreshAnsweredKeeps ==
  ASSUME IInv, NEW r \in Requests, RefreshAnswered(r)
  PROVE  IInv'
<1>0. CountersOf(r) /\ TokensOf(r) /\ OutcomeOf(r) /\ FollowerOf(r)
  BY DEF IInv, CountersAgree, TokensAgree, OutcomesAgree, FollowersAgree
<1>1. TypeOK' BY SMTT(30), PolicyFields DEF IInv, TypeOK, RefreshAnswered
<1>2. \A s \in Requests \ {r} : Untouched(s) BY DEF IInv, TypeOK, RefreshAnswered, Untouched
<1>3. CountersOf(r)' BY <1>0, PolicyFields DEF IInv, TypeOK, CountersOf, RefreshAnswered
<1>4. CountersAgree' BY <1>2, <1>3, CountersKept DEF RefreshAnswered
<1>5. TokensAgree'
  <2>1. \A s \in Requests : /\ fresh[s] <= issued /\ token[s] <= issued
                             /\ issued + 1 \notin rejected[s]
    BY DEF IInv, TypeOK, TokensAgree, TokensOf
  <2>2. accessTokens <= issued BY DEF IInv, TokensAgree
  <2>3. TokensOf(r)' BY <1>0, <2>1, <2>2 DEF IInv, TypeOK, TokensOf, RefreshAnswered
  <2>4. \A s \in Requests \ {r} : TokensOf(s)'
    BY SMTT(30), <1>2 DEF IInv, TypeOK, TokensAgree, TokensOf, RefreshAnswered, Untouched
  <2>5. ASSUME NEW t \in Requests PROVE Unused(r, t)'
    <3>1. fresh'[r] \in {0, issued + 1} /\ (t # r => fresh'[t] = fresh[t])
      BY <1>2 DEF IInv, TypeOK, RefreshAnswered, Untouched
    <3>2. UNCHANGED <<token, rejected>> /\ issued \in Nat
      BY DEF IInv, TypeOK, RefreshAnswered
    <3>3. token[t] \in Nat /\ fresh[t] \in Nat BY DEF IInv, TypeOK
    <3> QED BY <2>1, <3>1, <3>2, <3>3 DEF Unused
  <2>6. ASSUME NEW s \in Requests \ {r}, NEW t \in Requests PROVE Unused(s, t)'
    <3>1. Unused(s, t) /\ fresh[s] <= issued BY <2>1 DEF IInv, TokensAgree
    <3> QED BY <1>2, <3>1 DEF IInv, TypeOK, Unused, RefreshAnswered, Untouched
  <2>7. accessTokens' <= issued' BY <2>2 DEF IInv, TypeOK, RefreshAnswered
  <2> QED BY <2>3, <2>4, <2>5, <2>6, <2>7 DEF TokensAgree
<1>6. /\ published[r] = "none" /\ follows[r] = NoRequest /\ pc'[r] \notin {"erase", "follow"}
      /\ policy.coalesce => (Owns(r)' <=> Owns(r))
      /\ pc'[r] = "publish" => policy.coalesce /\ result'[r] # "none"
  BY <1>0 DEF IInv, TypeOK, OutcomeOf, FollowerOf, CountersOf, RefreshAnswered
<1>7. TableAgrees' /\ OutcomesAgree' /\ FollowersAgree'
  BY <1>2, <1>6, RoleKept DEF RefreshAnswered
<1> QED BY <1>1, <1>4, <1>5, <1>7 DEF IInv

\* A refresh that fails ends the attempt, or the request.
LEMMA RefreshFailsKeeps ==
  ASSUME IInv, NEW r \in Requests, RefreshFails(r)
  PROVE  IInv'
<1>0. CountersOf(r) /\ TokensOf(r) /\ OutcomeOf(r) /\ FollowerOf(r)
  BY DEF IInv, CountersAgree, TokensAgree, OutcomesAgree, FollowersAgree
<1>1. TypeOK'
  <2>1. \/ UNCHANGED terminalEvents
        \/ \E n \in 0..2 : terminalEvents' = [terminalEvents EXCEPT ![r] = @ + n]
    BY DEF RefreshFails, Catch
  <2>2. terminalEvents \in [Requests -> 0..2] /\ terminalEvents[r] = 0
    BY <1>0 DEF IInv, TypeOK, CountersOf, RefreshFails
  <2>3. terminalEvents' \in [Requests -> 0..2] BY <2>1, <2>2
  <2>4. pc' \in [Requests -> Points] /\ result' \in [Requests -> Results \cup {"none"}]
    <3>1. \E p \in Points : pc' = [pc EXCEPT ![r] = p] BY DEF RefreshFails, Catch
    <3>2. result' \in [Requests -> Results \cup {"none"}]
      BY ZenonT(60) DEF IInv, TypeOK, RefreshFails, Catch
    <3> HIDE DEF Points
    <3>3. pc \in [Requests -> Points] BY DEF IInv, TypeOK
    <3>4. pc' \in [Requests -> Points] BY <3>1, <3>3
    <3> QED BY <3>2, <3>4
  <2> QED BY <2>3, <2>4 DEF IInv, TypeOK, RefreshFails, Catch
<1>2. \A s \in Requests \ {r} : Untouched(s)
  BY SMTT(30) DEF IInv, TypeOK, RefreshFails, Catch, Untouched
<1>3. CountersOf(r)' BY <1>0, PolicyFields DEF IInv, TypeOK, CountersOf, RefreshFails, Catch
<1>4. CountersAgree' BY <1>2, <1>3, CountersKept DEF RefreshFails
<1>5. TokensAgree'
  <2>1. /\ fresh[r] = 0 /\ stage' = stage
        /\ stage[r] = "prepare" => pc'[r] = "done"
        /\ stage[r] # "prepare" => RetriesRejected(r) \/ pc'[r] \in {"publish", "done"}
        /\ pc'[r] \in {"backoff", "publish", "done"}
    BY <1>0 DEF IInv, TypeOK, TokensOf, CountersOf, RefreshFails, Catch
  <2>2. MayMove(r)
    <3>1. RetriesRejected(r)' <=> RetriesRejected(r) BY DEF RefreshFails
    <3> HIDE DEF RetriesRejected
    <3> QED BY <2>1, <3>1 DEF MayMove
  <2> QED BY <1>2, <2>2, TokensKept DEF RefreshFails
<1>6. /\ published[r] = "none" /\ follows[r] = NoRequest /\ pc'[r] \notin {"erase", "follow"}
      /\ policy.coalesce => (Owns(r)' <=> Owns(r))
      /\ pc'[r] = "publish" => policy.coalesce /\ result'[r] # "none"
  BY <1>0 DEF IInv, TypeOK, OutcomeOf, FollowerOf, CountersOf, RefreshFails, Catch
<1>7. TableAgrees' /\ OutcomesAgree' /\ FollowersAgree'
  BY <1>2, <1>6, RoleKept DEF RefreshFails
<1> QED BY <1>1, <1>4, <1>5, <1>7 DEF IInv

\* A stored token is new to every request.
LEMMA StoreKeeps ==
  ASSUME IInv, NEW r \in Requests, Store(r)
  PROVE  IInv'
<1>0. CountersOf(r) /\ TokensOf(r) /\ OutcomeOf(r) /\ FollowerOf(r)
  BY DEF IInv, CountersAgree, TokensAgree, OutcomesAgree, FollowersAgree
<1>1. TypeOK'
  <2>1. \/ UNCHANGED terminalEvents
        \/ \E n \in 0..2 : terminalEvents' = [terminalEvents EXCEPT ![r] = @ + n]
    BY DEF Store
  <2>2. terminalEvents \in [Requests -> 0..2] /\ terminalEvents[r] = 0
    BY <1>0 DEF IInv, TypeOK, CountersOf, Store
  <2>3. terminalEvents' \in [Requests -> 0..2] BY <2>1, <2>2
  <2>4. pc' \in [Requests -> Points] /\ result' \in [Requests -> Results \cup {"none"}]
    <3>1. \E p \in Points : pc' = [pc EXCEPT ![r] = p] BY DEF Store
    <3>2. result' \in [Requests -> Results \cup {"none"}] BY ZenonT(60) DEF IInv, TypeOK, Store
    <3> HIDE DEF Points
    <3>3. pc \in [Requests -> Points] BY DEF IInv, TypeOK
    <3>4. pc' \in [Requests -> Points] BY <3>1, <3>3
    <3> QED BY <3>2, <3>4
  <2>5. \/ attempt' = attempt
        \/ attempt' = [attempt EXCEPT ![r] = @ + 1] /\ attempt[r] <= policy.maxAttempts
    BY <1>0, PolicyFields DEF IInv, TypeOK, CountersOf, Store
  <2>6. attempt \in [Requests -> 1..(policy.maxAttempts + 1)] /\ policy.maxAttempts \in Nat
    BY PolicyFields DEF IInv, TypeOK
  <2>7. attempt' \in [Requests -> 1..(policy.maxAttempts + 1)] BY <2>5, <2>6
  <2>8. accessTokens' \in Tokens BY DEF IInv, TypeOK, Store
  <2>9. fresh' \in [Requests -> Tokens] BY DEF IInv, TypeOK, Store
  <2>10. token' \in [Requests -> Tokens] BY SMTT(30) DEF IInv, TypeOK, Store
  <2>11. /\ stage' \in [Requests -> {"prepare", "rejected", "reapply"}]
         /\ issued' \in 1..TokenSupply /\ refreshed' \in [Requests -> BOOLEAN]
    BY DEF IInv, TypeOK, Store
  <2>12. UNCHANGED <<policy, expired, coalescedRequests, published, cancelled, key, follows,
                     rejected, sends, unanswered>>
    BY DEF Store
  <2> QED BY <2>3, <2>4, <2>7, <2>8, <2>9, <2>10, <2>11, <2>12 DEF IInv, TypeOK
<1>2. \A s \in Requests \ {r} : Untouched(s) BY SMTT(30) DEF IInv, TypeOK, Store, Untouched
<1>3. CountersOf(r)' BY <1>0, PolicyFields DEF IInv, TypeOK, CountersOf, Store
<1>4. CountersAgree' BY <1>2, <1>3, CountersKept DEF Store
<1>5. TokensAgree'
  <2>1. TokensOf(r)' BY <1>0 DEF IInv, TypeOK, TokensAgree, TokensOf, Unused, CountersOf, Store
  <2>2. \A s \in Requests \ {r} : TokensOf(s)'
    BY SMTT(30), <1>2 DEF IInv, TypeOK, TokensAgree, TokensOf, Unused, Store, Untouched
  <2>3. ASSUME NEW t \in Requests PROVE Unused(r, t)' BY DEF IInv, TypeOK, Unused, Store
  <2>4. ASSUME NEW s \in Requests \ {r}, NEW t \in Requests PROVE Unused(s, t)'
    <3>1. Unused(s, t) /\ Unused(s, r) BY DEF IInv, TokensAgree
    <3> QED BY SMTT(30), <1>2, <3>1 DEF IInv, TypeOK, Unused, Store, Untouched
  <2>5. accessTokens' <= issued' BY <1>0 DEF TokensOf, Store
  <2> QED BY <2>1, <2>2, <2>3, <2>4, <2>5 DEF TokensAgree
<1>6. /\ published[r] = "none" /\ follows[r] = NoRequest /\ pc'[r] \notin {"erase", "follow"}
      /\ policy.coalesce => (Owns(r)' <=> Owns(r))
      /\ pc'[r] = "publish" => policy.coalesce /\ result'[r] # "none"
  BY <1>0 DEF IInv, TypeOK, OutcomeOf, FollowerOf, CountersOf, Store
<1>7. TableAgrees' /\ OutcomesAgree' /\ FollowersAgree'
  BY <1>2, <1>6, RoleKept DEF Store
<1> QED BY <1>1, <1>4, <1>5, <1>7 DEF IInv

\* Without coalescing there is no key.
LEMMA ExecuteAloneKeeps ==
  ASSUME IInv, NEW r \in Requests, ExecuteAlone(r)
  PROVE  IInv'
<1>0. CountersOf(r) /\ TokensOf(r) /\ OutcomeOf(r) /\ FollowerOf(r)
  BY DEF IInv, CountersAgree, TokensAgree, OutcomesAgree, FollowersAgree
<1>1. TypeOK' BY PolicyFields DEF IInv, TypeOK, ExecuteAlone
<1>2. \A s \in Requests \ {r} : Untouched(s) BY DEF IInv, TypeOK, ExecuteAlone, Untouched
<1>3. CountersOf(r)' BY <1>0, PolicyFields DEF IInv, TypeOK, CountersOf, ExecuteAlone
<1>4. CountersAgree' BY <1>2, <1>3, CountersKept DEF ExecuteAlone
<1>5. TokensAgree' BY <1>0, <1>2, TokensKept DEF MayMove, IInv, TypeOK, TokensOf, CountersOf, ExecuteAlone
<1>6. /\ published[r] = "none" /\ follows[r] = NoRequest /\ pc'[r] \notin {"erase", "follow"}
      /\ policy.coalesce => (Owns(r)' <=> Owns(r))
      /\ pc'[r] = "publish" => policy.coalesce /\ result'[r] # "none"
  BY <1>0 DEF IInv, TypeOK, OutcomeOf, FollowerOf, CountersOf, ExecuteAlone
<1>7. TableAgrees' /\ OutcomesAgree' /\ FollowersAgree'
  BY <1>2, <1>6, RoleKept DEF ExecuteAlone
<1> QED BY <1>1, <1>4, <1>5, <1>7 DEF IInv

\* The key was free.
LEMMA BecomeOwnerKeeps ==
  ASSUME IInv, NEW r \in Requests, BecomeOwner(r)
  PROVE  IInv'
<1>0. CountersOf(r) /\ TokensOf(r) /\ OutcomeOf(r) /\ FollowerOf(r)
  BY DEF IInv, CountersAgree, TokensAgree, OutcomesAgree, FollowersAgree
<1>1. TypeOK' BY PolicyFields DEF IInv, TypeOK, BecomeOwner
<1>2. \A s \in Requests \ {r} : Untouched(s) BY DEF IInv, TypeOK, BecomeOwner, Untouched
<1>3. CountersOf(r)' BY <1>0, PolicyFields DEF IInv, TypeOK, CountersOf, BecomeOwner
<1>4. CountersAgree' BY <1>2, <1>3, CountersKept DEF BecomeOwner
<1>5. TokensAgree' BY <1>0, <1>2, TokensKept DEF MayMove, IInv, TypeOK, TokensOf, CountersOf, BecomeOwner
<1>7. TableAgrees' /\ OutcomesAgree' /\ FollowersAgree'
  <2>1. TableAgrees'
    <3>1. \A t \in Tokens : OwnerOf(t)'
      BY SMTT(30), <1>0, <1>2 DEF IInv, TypeOK, TableAgrees, OwnerOf,
         Untouched, BecomeOwner
    <3>2. \A s \in Requests : OwnerEntry(s)' BY SMTT(30), <1>0, <1>2 DEF IInv, TypeOK, TableAgrees,
         OwnerEntry, Untouched, BecomeOwner
    <3> QED BY <3>1, <3>2 DEF TableAgrees
  <2>2. OutcomesAgree'
    <3>1. OutcomeOf(r)' BY <1>0 DEF IInv, TypeOK, OutcomeOf, FollowerOf, CountersOf, BecomeOwner
    <3>2. \A s \in Requests \ {r} : OutcomeOf(s)' BY <1>2 DEF IInv, OutcomesAgree, OutcomeOf,
         Untouched, BecomeOwner
    <3> QED BY <3>1, <3>2 DEF OutcomesAgree
  <2>3. FollowersAgree'
    <3>1. FollowerOf(r)'
      BY <1>0, <1>2 DEF IInv, TypeOK, FollowerOf, CountersOf, OutcomesAgree, OutcomeOf,
           TableAgrees, OwnerOf, Untouched, BecomeOwner
    <3>2. ASSUME NEW s \in Requests \ {r} PROVE FollowerOf(s)'
      <4>1. FollowerOf(s) /\ follows[s] \in Requests \cup {NoRequest}
        BY DEF IInv, TypeOK, FollowersAgree
      <4>2. \A q \in Requests :
              /\ Owns(q) => Owns(q)' \/ published'[q] # "none"
              /\ published[q] # "none" => published'[q] = published[q]
        BY <1>0, <1>2 DEF IInv, TypeOK, OutcomeOf, Untouched, BecomeOwner
      <4>3. policy' = policy BY DEF BecomeOwner
      <4> HIDE DEF Owns
      <4> QED BY <1>2, <4>1, <4>2, <4>3 DEF FollowerOf, Untouched
    <3> QED BY <3>1, <3>2 DEF FollowersAgree
  <2> QED BY <2>1, <2>2, <2>3
<1> QED BY <1>1, <1>4, <1>5, <1>7 DEF IInv

\* The owner of the key is in exchange, or has published.
LEMMA FollowKeeps ==
  ASSUME IInv, NEW r \in Requests, Follow(r)
  PROVE  IInv'
<1>0. CountersOf(r) /\ TokensOf(r) /\ OutcomeOf(r) /\ FollowerOf(r)
  BY DEF IInv, CountersAgree, TokensAgree, OutcomesAgree, FollowersAgree
<1>1. TypeOK' BY PolicyFields DEF IInv, TypeOK, Follow
<1>2. \A s \in Requests \ {r} : Untouched(s) BY DEF IInv, TypeOK, Follow, Untouched
<1>3. CountersOf(r)' BY <1>0, PolicyFields DEF IInv, TypeOK, CountersOf, Follow
<1>4. CountersAgree' BY <1>2, <1>3, CountersKept DEF Follow
<1>5. TokensAgree' BY <1>0, <1>2, TokensKept DEF MayMove, IInv, TypeOK, TokensOf, CountersOf, Follow
<1>7. TableAgrees' /\ OutcomesAgree' /\ FollowersAgree'
  <2>1. TableAgrees'
    <3>1. \A t \in Tokens : OwnerOf(t)'
      BY SMTT(30), <1>0, <1>2 DEF IInv, TypeOK, TableAgrees, OwnerOf,
         Untouched, Follow
    <3>2. \A s \in Requests : OwnerEntry(s)' BY <1>0, <1>2 DEF IInv, TypeOK, TableAgrees,
         OwnerEntry, Untouched, Follow
    <3> QED BY <3>1, <3>2 DEF TableAgrees
  <2>2. OutcomesAgree'
    <3>1. OutcomeOf(r)' BY <1>0 DEF IInv, TypeOK, OutcomeOf, FollowerOf, CountersOf, Follow
    <3>2. \A s \in Requests \ {r} : OutcomeOf(s)' BY <1>2 DEF IInv, OutcomesAgree, OutcomeOf,
         Untouched, Follow
    <3> QED BY <3>1, <3>2 DEF OutcomesAgree
  <2>3. FollowersAgree'
    <3>1. FollowerOf(r)'
      BY <1>0, <1>2 DEF IInv, TypeOK, FollowerOf, CountersOf, OutcomesAgree, OutcomeOf,
           TableAgrees, OwnerOf, Untouched, Follow
    <3>2. ASSUME NEW s \in Requests \ {r} PROVE FollowerOf(s)'
      <4>1. FollowerOf(s) /\ follows[s] \in Requests \cup {NoRequest}
        BY DEF IInv, TypeOK, FollowersAgree
      <4>2. \A q \in Requests :
              /\ Owns(q) => Owns(q)' \/ published'[q] # "none"
              /\ published[q] # "none" => published'[q] = published[q]
        BY <1>0, <1>2 DEF IInv, TypeOK, OutcomeOf, Untouched, Follow
      <4>3. policy' = policy BY DEF Follow
      <4> HIDE DEF Owns
      <4> QED BY <1>2, <4>1, <4>2, <4>3 DEF FollowerOf, Untouched
    <3> QED BY <3>1, <3>2 DEF FollowersAgree
  <2> QED BY <2>1, <2>2, <2>3
<1> QED BY <1>1, <1>4, <1>5, <1>7 DEF IInv

\* A cancelled follower leaves.
LEMMA FollowerCancelledKeeps ==
  ASSUME IInv, NEW r \in Requests, FollowerCancelled(r)
  PROVE  IInv'
<1>0. CountersOf(r) /\ TokensOf(r) /\ OutcomeOf(r) /\ FollowerOf(r)
  BY DEF IInv, CountersAgree, TokensAgree, OutcomesAgree, FollowersAgree
<1>1. TypeOK' BY PolicyFields DEF IInv, TypeOK, FollowerCancelled
<1>2. \A s \in Requests \ {r} : Untouched(s) BY DEF IInv, TypeOK, FollowerCancelled, Untouched
<1>3. CountersOf(r)' BY <1>0, PolicyFields DEF IInv, TypeOK, CountersOf, FollowerCancelled
<1>4. CountersAgree' BY <1>2, <1>3, CountersKept DEF FollowerCancelled
<1>5. TokensAgree' BY <1>0, <1>2, TokensKept DEF MayMove, IInv, TypeOK, TokensOf, CountersOf,
     FollowerCancelled
<1>7. TableAgrees' /\ OutcomesAgree' /\ FollowersAgree'
  <2>1. TableAgrees'
    <3>1. \A t \in Tokens : OwnerOf(t)'
      BY SMTT(30), <1>0, <1>2 DEF IInv, TypeOK, TableAgrees, OwnerOf,
         Untouched, FollowerCancelled
    <3>2. \A s \in Requests : OwnerEntry(s)' BY <1>0, <1>2 DEF IInv, TypeOK, TableAgrees,
         OwnerEntry, Untouched, FollowerCancelled
    <3> QED BY <3>1, <3>2 DEF TableAgrees
  <2>2. OutcomesAgree'
    <3>1. OutcomeOf(r)' BY <1>0 DEF IInv, TypeOK, OutcomeOf, FollowerOf, CountersOf,
         FollowerCancelled
    <3>2. \A s \in Requests \ {r} : OutcomeOf(s)' BY <1>2 DEF IInv, OutcomesAgree, OutcomeOf,
         Untouched, FollowerCancelled
    <3> QED BY <3>1, <3>2 DEF OutcomesAgree
  <2>3. FollowersAgree'
    <3>1. FollowerOf(r)'
      BY <1>0, <1>2 DEF IInv, TypeOK, FollowerOf, CountersOf, OutcomesAgree, OutcomeOf,
           TableAgrees, OwnerOf, Untouched, FollowerCancelled
    <3>2. ASSUME NEW s \in Requests \ {r} PROVE FollowerOf(s)'
      <4>1. FollowerOf(s) /\ follows[s] \in Requests \cup {NoRequest}
        BY DEF IInv, TypeOK, FollowersAgree
      <4>2. \A q \in Requests :
              /\ Owns(q) => Owns(q)' \/ published'[q] # "none"
              /\ published[q] # "none" => published'[q] = published[q]
        BY <1>0, <1>2 DEF IInv, TypeOK, OutcomeOf, Untouched, FollowerCancelled
      <4>3. policy' = policy BY DEF FollowerCancelled
      <4> HIDE DEF Owns
      <4> QED BY <1>2, <4>1, <4>2, <4>3 DEF FollowerOf, Untouched
    <3> QED BY <3>1, <3>2 DEF FollowersAgree
  <2> QED BY <2>1, <2>2, <2>3
<1> QED BY <1>1, <1>4, <1>5, <1>7 DEF IInv

\* A follower ends as its owner did.
LEMMA FollowerSharesKeeps ==
  ASSUME IInv, NEW r \in Requests, FollowerShares(r)
  PROVE  IInv'
<1>0. CountersOf(r) /\ TokensOf(r) /\ OutcomeOf(r) /\ FollowerOf(r)
  BY DEF IInv, CountersAgree, TokensAgree, OutcomesAgree, FollowersAgree
<1>f. follows[r] \in Requests /\ CountersOf(follows[r])
  BY <1>0 DEF IInv, TypeOK, FollowerOf, CountersAgree, FollowerShares
<1>1. TypeOK' BY <1>0, <1>f DEF IInv, TypeOK, FollowerOf, FollowerShares
<1>2. \A s \in Requests \ {r} : Untouched(s) BY DEF IInv, TypeOK, FollowerShares, Untouched
<1>3. CountersOf(r)' BY <1>0, <1>f, PolicyFields DEF IInv, TypeOK, CountersOf, FollowerShares
<1>4. CountersAgree' BY <1>2, <1>3, CountersKept DEF FollowerShares
<1>5. TokensAgree' BY <1>0, <1>2, TokensKept DEF MayMove, IInv, TypeOK, TokensOf, CountersOf, FollowerShares
<1>7. TableAgrees' /\ OutcomesAgree' /\ FollowersAgree'
  <2>1. TableAgrees'
    <3>1. \A t \in Tokens : OwnerOf(t)'
      BY SMTT(90), <1>0, <1>2 DEF IInv, TypeOK, TableAgrees, OwnerOf,
         Untouched, FollowerShares
    <3>2. \A s \in Requests : OwnerEntry(s)' BY <1>0, <1>2 DEF IInv, TypeOK, TableAgrees,
         OwnerEntry, Untouched, FollowerShares
    <3> QED BY <3>1, <3>2 DEF TableAgrees
  <2>2. OutcomesAgree'
    <3>1. OutcomeOf(r)' BY <1>0 DEF IInv, TypeOK, OutcomeOf, FollowerOf, CountersOf, FollowerShares
    <3>2. \A s \in Requests \ {r} : OutcomeOf(s)' BY <1>2 DEF IInv, OutcomesAgree, OutcomeOf,
         Untouched, FollowerShares
    <3> QED BY <3>1, <3>2 DEF OutcomesAgree
  <2>3. FollowersAgree'
    <3>1. FollowerOf(r)'
      BY <1>0, <1>2 DEF IInv, TypeOK, FollowerOf, CountersOf, OutcomesAgree, OutcomeOf,
           TableAgrees, OwnerOf, Untouched, FollowerShares
    <3>2. ASSUME NEW s \in Requests \ {r} PROVE FollowerOf(s)'
      <4>1. FollowerOf(s) /\ follows[s] \in Requests \cup {NoRequest}
        BY DEF IInv, TypeOK, FollowersAgree
      <4>2. \A q \in Requests :
              /\ Owns(q) => Owns(q)' \/ published'[q] # "none"
              /\ published[q] # "none" => published'[q] = published[q]
        BY <1>0, <1>2 DEF IInv, TypeOK, OutcomeOf, Untouched, FollowerShares
      <4>3. policy' = policy BY DEF FollowerShares
      <4> HIDE DEF Owns
      <4> QED BY <1>2, <4>1, <4>2, <4>3 DEF FollowerOf, Untouched
    <3> QED BY <3>1, <3>2 DEF FollowersAgree
  <2> QED BY <2>1, <2>2, <2>3
<1> QED BY <1>1, <1>4, <1>5, <1>7 DEF IInv

\* The outcome is published before the key is free.
LEMMA PublishKeeps ==
  ASSUME IInv, NEW r \in Requests, Publish(r)
  PROVE  IInv'
<1>0. CountersOf(r) /\ TokensOf(r) /\ OutcomeOf(r) /\ FollowerOf(r)
  BY DEF IInv, CountersAgree, TokensAgree, OutcomesAgree, FollowersAgree
<1>1. TypeOK' BY PolicyFields DEF IInv, TypeOK, Publish
<1>2. \A s \in Requests \ {r} : Untouched(s) BY DEF IInv, TypeOK, Publish, Untouched
<1>3. CountersOf(r)' BY <1>0, PolicyFields DEF IInv, TypeOK, CountersOf, Publish
<1>4. CountersAgree' BY <1>2, <1>3, CountersKept DEF Publish
<1>5. TokensAgree' BY <1>0, <1>2, TokensKept DEF MayMove, IInv, TypeOK, TokensOf, CountersOf, Publish
<1>7. TableAgrees' /\ OutcomesAgree' /\ FollowersAgree'
  <2>1. TableAgrees'
    <3>1. \A t \in Tokens : OwnerOf(t)'
      BY SMTT(30), <1>0, <1>2 DEF IInv, TypeOK, TableAgrees, OwnerOf,
         Untouched, Publish
    <3>2. \A s \in Requests : OwnerEntry(s)' BY <1>0, <1>2 DEF IInv, TypeOK, TableAgrees,
         OwnerEntry, Untouched, Publish
    <3> QED BY <3>1, <3>2 DEF TableAgrees
  <2>2. OutcomesAgree'
    <3>1. OutcomeOf(r)' BY <1>0 DEF IInv, TypeOK, OutcomeOf, FollowerOf, CountersOf, Publish
    <3>2. \A s \in Requests \ {r} : OutcomeOf(s)' BY <1>2 DEF IInv, OutcomesAgree, OutcomeOf,
         Untouched, Publish
    <3> QED BY <3>1, <3>2 DEF OutcomesAgree
  <2>3. FollowersAgree'
    <3>1. FollowerOf(r)'
      BY <1>0, <1>2 DEF IInv, TypeOK, FollowerOf, CountersOf, OutcomesAgree, OutcomeOf,
           TableAgrees, OwnerOf, Untouched, Publish
    <3>2. ASSUME NEW s \in Requests \ {r} PROVE FollowerOf(s)'
      <4>1. FollowerOf(s) /\ follows[s] \in Requests \cup {NoRequest}
        BY DEF IInv, TypeOK, FollowersAgree
      <4>2. \A q \in Requests :
              /\ Owns(q) => Owns(q)' \/ published'[q] # "none"
              /\ published[q] # "none" => published'[q] = published[q]
        BY <1>0, <1>2 DEF IInv, TypeOK, OutcomeOf, Untouched, Publish
      <4>3. policy' = policy BY DEF Publish
      <4> HIDE DEF Owns
      <4> QED BY <1>2, <4>1, <4>2, <4>3 DEF FollowerOf, Untouched
    <3> QED BY <3>1, <3>2 DEF FollowersAgree
  <2> QED BY <2>1, <2>2, <2>3
<1> QED BY <1>1, <1>4, <1>5, <1>7 DEF IInv

\* The owner erases its own entry.
LEMMA EraseKeeps ==
  ASSUME IInv, NEW r \in Requests, Erase(r)
  PROVE  IInv'
<1>0. CountersOf(r) /\ TokensOf(r) /\ OutcomeOf(r) /\ FollowerOf(r)
  BY DEF IInv, CountersAgree, TokensAgree, OutcomesAgree, FollowersAgree
<1>1. TypeOK' BY PolicyFields DEF IInv, TypeOK, Erase
<1>2. \A s \in Requests \ {r} : Untouched(s) BY DEF IInv, TypeOK, Erase, Untouched
<1>3. CountersOf(r)' BY <1>0, PolicyFields DEF IInv, TypeOK, CountersOf, Erase
<1>4. CountersAgree' BY <1>2, <1>3, CountersKept DEF Erase
<1>5. TokensAgree' BY <1>0, <1>2, TokensKept DEF MayMove, IInv, TypeOK, TokensOf, CountersOf, Erase
<1>7. TableAgrees' /\ OutcomesAgree' /\ FollowersAgree'
  <2>1. TableAgrees'
    <3>1. \A t \in Tokens : OwnerOf(t)'
      BY SMTT(30), <1>0, <1>2 DEF IInv, TypeOK, TableAgrees, OwnerOf,
         Untouched, Erase
    <3>2. \A s \in Requests : OwnerEntry(s)' BY <1>0, <1>2 DEF IInv, TypeOK, TableAgrees,
         OwnerEntry, Untouched, Erase
    <3> QED BY <3>1, <3>2 DEF TableAgrees
  <2>2. OutcomesAgree'
    <3>1. OutcomeOf(r)' BY <1>0 DEF IInv, TypeOK, OutcomeOf, FollowerOf, CountersOf, Erase
    <3>2. \A s \in Requests \ {r} : OutcomeOf(s)' BY <1>2 DEF IInv, OutcomesAgree, OutcomeOf,
         Untouched, Erase
    <3> QED BY <3>1, <3>2 DEF OutcomesAgree
  <2>3. FollowersAgree'
    <3>1. FollowerOf(r)'
      BY <1>0, <1>2 DEF IInv, TypeOK, FollowerOf, CountersOf, OutcomesAgree, OutcomeOf,
           TableAgrees, OwnerOf, Untouched, Erase
    <3>2. ASSUME NEW s \in Requests \ {r} PROVE FollowerOf(s)'
      <4>1. FollowerOf(s) /\ follows[s] \in Requests \cup {NoRequest}
        BY DEF IInv, TypeOK, FollowersAgree
      <4>2. \A q \in Requests :
              /\ Owns(q) => Owns(q)' \/ published'[q] # "none"
              /\ published[q] # "none" => published'[q] = published[q]
        BY <1>0, <1>2 DEF IInv, TypeOK, OutcomeOf, Untouched, Erase
      <4>3. policy' = policy BY DEF Erase
      <4> HIDE DEF Owns
      <4> QED BY <1>2, <4>1, <4>2, <4>3 DEF FollowerOf, Untouched
    <3> QED BY <3>1, <3>2 DEF FollowersAgree
  <2> QED BY <2>1, <2>2, <2>3
<1> QED BY <1>1, <1>4, <1>5, <1>7 DEF IInv

\* The loop never runs past its last attempt; a cancelled one ends.
LEMMA AttemptThrowsKeeps ==
  ASSUME IInv, NEW r \in Requests, AttemptThrows(r)
  PROVE  IInv'
<1>0. CountersOf(r) /\ TokensOf(r) /\ OutcomeOf(r) /\ FollowerOf(r)
  BY DEF IInv, CountersAgree, TokensAgree, OutcomesAgree, FollowersAgree
<1>1. TypeOK'
  <2>1. terminalEvents' \in [Requests -> 0..2] BY <1>0 DEF IInv, TypeOK, CountersOf, AttemptThrows
  <2>2. pc' \in [Requests -> Points] /\ result' \in [Requests -> Results \cup {"none"}]
    BY DEF IInv, TypeOK, AttemptThrows
  <2> QED BY <2>1, <2>2 DEF IInv, TypeOK, AttemptThrows
<1>2. \A s \in Requests \ {r} : Untouched(s) BY DEF IInv, TypeOK, AttemptThrows, Untouched
<1>3. CountersOf(r)' BY <1>0, PolicyFields DEF IInv, TypeOK, CountersOf, AttemptThrows
<1>4. CountersAgree' BY <1>2, <1>3, CountersKept DEF AttemptThrows
<1>5. TokensAgree' BY <1>0, <1>2, TokensKept DEF MayMove, IInv, TypeOK, TokensOf, CountersOf, AttemptThrows
<1>6. /\ published[r] = "none" /\ follows[r] = NoRequest /\ pc'[r] \notin {"erase", "follow"}
      /\ policy.coalesce => (Owns(r)' <=> Owns(r))
      /\ pc'[r] = "publish" => policy.coalesce /\ result'[r] # "none"
  BY <1>0 DEF IInv, TypeOK, OutcomeOf, FollowerOf, CountersOf, AttemptThrows
<1>7. TableAgrees' /\ OutcomesAgree' /\ FollowersAgree'
  BY <1>2, <1>6, RoleKept DEF AttemptThrows
<1> QED BY <1>1, <1>4, <1>5, <1>7 DEF IInv

\* Each attempt sends once.
LEMMA SendKeeps ==
  ASSUME IInv, NEW r \in Requests, Send(r)
  PROVE  IInv'
<1>0. CountersOf(r) /\ TokensOf(r) /\ OutcomeOf(r) /\ FollowerOf(r)
  BY DEF IInv, CountersAgree, TokensAgree, OutcomesAgree, FollowersAgree
<1>1. TypeOK' BY SMTT(30), PolicyFields DEF IInv, TypeOK, Send
<1>2. \A s \in Requests \ {r} : Untouched(s) BY DEF IInv, TypeOK, Send, Untouched
<1>3. CountersOf(r)' BY <1>0, PolicyFields DEF IInv, TypeOK, CountersOf, Send
<1>4. CountersAgree' BY <1>2, <1>3, CountersKept DEF Send
<1>5. TokensAgree' BY <1>0, <1>2, TokensKept DEF MayMove, IInv, TypeOK, TokensOf, CountersOf, Send
<1>6. /\ published[r] = "none" /\ follows[r] = NoRequest /\ pc'[r] \notin {"erase", "follow"}
      /\ policy.coalesce => (Owns(r)' <=> Owns(r))
      /\ pc'[r] = "publish" => policy.coalesce /\ result'[r] # "none"
  BY <1>0 DEF IInv, TypeOK, OutcomeOf, FollowerOf, CountersOf, Send
<1>7. TableAgrees' /\ OutcomesAgree' /\ FollowersAgree'
  BY <1>2, <1>6, RoleKept DEF Send
<1> QED BY <1>1, <1>4, <1>5, <1>7 DEF IInv

\* A response with success ends the request.
LEMMA SucceedsKeeps ==
  ASSUME IInv, NEW r \in Requests, Succeeds(r)
  PROVE  IInv'
<1>0. CountersOf(r) /\ TokensOf(r) /\ OutcomeOf(r) /\ FollowerOf(r)
  BY DEF IInv, CountersAgree, TokensAgree, OutcomesAgree, FollowersAgree
<1>1. TypeOK'
  <2>1. \/ UNCHANGED terminalEvents
        \/ \E n \in 0..2 : terminalEvents' = [terminalEvents EXCEPT ![r] = @ + n]
    BY DEF Succeeds
  <2>2. terminalEvents \in [Requests -> 0..2] /\ terminalEvents[r] = 0
    BY <1>0 DEF IInv, TypeOK, CountersOf, Succeeds
  <2>3. terminalEvents' \in [Requests -> 0..2] BY <2>1, <2>2
  <2>4. pc' \in [Requests -> Points] /\ result' \in [Requests -> Results \cup {"none"}]
    <3>1. \E p \in Points : pc' = [pc EXCEPT ![r] = p] BY DEF Succeeds
    <3>2. result' \in [Requests -> Results \cup {"none"}] BY SMTT(60) DEF IInv, TypeOK, Succeeds
    <3> HIDE DEF Points
    <3>3. pc \in [Requests -> Points] BY DEF IInv, TypeOK
    <3>4. pc' \in [Requests -> Points] BY <3>1, <3>3
    <3> QED BY <3>2, <3>4
  <2> QED BY <2>3, <2>4 DEF IInv, TypeOK, Succeeds
<1>2. \A s \in Requests \ {r} : Untouched(s) BY DEF IInv, TypeOK, Succeeds, Untouched
<1>3. CountersOf(r)' BY <1>0, PolicyFields DEF IInv, TypeOK, CountersOf, Succeeds
<1>4. CountersAgree' BY <1>2, <1>3, CountersKept DEF Succeeds
<1>5. TokensAgree' BY <1>0, <1>2, TokensKept DEF MayMove, IInv, TypeOK, TokensOf, CountersOf, Succeeds
<1>6. /\ published[r] = "none" /\ follows[r] = NoRequest /\ pc'[r] \notin {"erase", "follow"}
      /\ policy.coalesce => (Owns(r)' <=> Owns(r))
      /\ pc'[r] = "publish" => policy.coalesce /\ result'[r] # "none"
  BY <1>0 DEF IInv, TypeOK, OutcomeOf, FollowerOf, CountersOf, Succeeds
<1>7. TableAgrees' /\ OutcomesAgree' /\ FollowersAgree'
  BY <1>2, <1>6, RoleKept DEF Succeeds
<1> QED BY <1>1, <1>4, <1>5, <1>7 DEF IInv

\* The rejected token is remembered and a refresh begins.
LEMMA UnauthorizedKeeps ==
  ASSUME IInv, NEW r \in Requests, Unauthorized(r)
  PROVE  IInv'
<1>0. CountersOf(r) /\ TokensOf(r) /\ OutcomeOf(r) /\ FollowerOf(r)
  BY DEF IInv, CountersAgree, TokensAgree, OutcomesAgree, FollowersAgree
<1>1. TypeOK' BY PolicyFields DEF IInv, TypeOK, Unauthorized
<1>2. \A s \in Requests \ {r} : Untouched(s) BY DEF IInv, TypeOK, Unauthorized, Untouched
<1>3. CountersOf(r)' BY <1>0, PolicyFields DEF IInv, TypeOK, CountersOf, Unauthorized
<1>4. CountersAgree' BY <1>2, <1>3, CountersKept DEF Unauthorized
<1>5. TokensAgree'
  <2>1. TokensOf(r)' BY <1>0 DEF IInv, TypeOK, TokensAgree, TokensOf, Unused, CountersOf,
       Unauthorized
  <2>2. \A s \in Requests \ {r} : TokensOf(s)'
    BY <1>2 DEF IInv, TypeOK, TokensAgree, TokensOf, Unused, Unauthorized, Untouched
  <2>3. ASSUME NEW s \in Requests, NEW t \in Requests PROVE Unused(s, t)'
    <3>1. Unused(s, t) /\ Unused(s, r) BY DEF IInv, TokensAgree
    <3>2. rejected'[t] \subseteq rejected[t] \cup {token[t]}
      BY DEF IInv, TypeOK, Unauthorized
    <3>3. UNCHANGED <<fresh, token>> BY DEF Unauthorized
    <3> QED BY <3>1, <3>2, <3>3 DEF Unused
  <2> QED BY <2>1, <2>2, <2>3 DEF IInv, TypeOK, TokensAgree, Unauthorized
<1>6. /\ published[r] = "none" /\ follows[r] = NoRequest /\ pc'[r] \notin {"erase", "follow"}
      /\ policy.coalesce => (Owns(r)' <=> Owns(r))
      /\ pc'[r] = "publish" => policy.coalesce /\ result'[r] # "none"
  BY <1>0 DEF IInv, TypeOK, OutcomeOf, FollowerOf, CountersOf, Unauthorized
<1>7. TableAgrees' /\ OutcomesAgree' /\ FollowersAgree'
  BY <1>2, <1>6, RoleKept DEF Unauthorized
<1> QED BY <1>1, <1>4, <1>5, <1>7 DEF IInv

\* A failing status is retried below the last attempt only.
LEMMA FailingStatusKeeps ==
  ASSUME IInv, NEW r \in Requests, FailingStatus(r)
  PROVE  IInv'
<1>0. CountersOf(r) /\ TokensOf(r) /\ OutcomeOf(r) /\ FollowerOf(r)
  BY DEF IInv, CountersAgree, TokensAgree, OutcomesAgree, FollowersAgree
<1>1. TypeOK'
  <2>1. \/ UNCHANGED terminalEvents
        \/ \E n \in 0..2 : terminalEvents' = [terminalEvents EXCEPT ![r] = @ + n]
    BY DEF FailingStatus
  <2>2. terminalEvents \in [Requests -> 0..2] /\ terminalEvents[r] = 0
    BY <1>0 DEF IInv, TypeOK, CountersOf, FailingStatus
  <2>3. terminalEvents' \in [Requests -> 0..2] BY <2>1, <2>2
  <2>4. pc' \in [Requests -> Points] /\ result' \in [Requests -> Results \cup {"none"}]
    <3>1. \E p \in Points : pc' = [pc EXCEPT ![r] = p] BY DEF FailingStatus
    <3>2. result' \in [Requests -> Results \cup {"none"}]
      BY ZenonT(60) DEF IInv, TypeOK, FailingStatus
    <3> HIDE DEF Points
    <3>3. pc \in [Requests -> Points] BY DEF IInv, TypeOK
    <3>4. pc' \in [Requests -> Points] BY <3>1, <3>3
    <3> QED BY <3>2, <3>4
  <2>5. rejected' \in [Requests -> SUBSET Tokens]
    <3>1. rejected' = rejected \/ rejected' = [rejected EXCEPT ![r] = @ \cup {token[r]}]
      BY DEF FailingStatus
    <3>2. rejected \in [Requests -> SUBSET Tokens] /\ token[r] \in Tokens BY DEF IInv, TypeOK
    <3> QED BY <3>1, <3>2
  <2> QED BY <2>3, <2>4, <2>5 DEF IInv, TypeOK, FailingStatus
<1>2. \A s \in Requests \ {r} : Untouched(s) BY SMTT(30) DEF IInv, TypeOK, FailingStatus, Untouched
<1>3. CountersOf(r)' BY <1>0, PolicyFields DEF IInv, TypeOK, CountersOf, FailingStatus
<1>4. CountersAgree' BY <1>2, <1>3, CountersKept DEF FailingStatus
<1>5. TokensAgree'
  <2>1. /\ fresh[r] = 0 /\ pc[r] = "transfer" /\ pc'[r] \in {"backoff", "publish", "done"}
        /\ UNCHANGED <<policy, stage, fresh, token, issued, accessTokens, refreshed>>
    BY <1>0 DEF IInv, TypeOK, TokensOf, FailingStatus
  <2>2. /\ \A s \in Requests : rejected'[s] \subseteq rejected[s] \cup {token[s]}
        /\ rejected'[r] # rejected[r] /\ pc'[r] = "backoff" => RetriesRejected(r)
    <3>1. \/ rejected' = rejected
          \/ /\ rejected' = [rejected EXCEPT ![r] = @ \cup {token[r]}]
             /\ pc'[r] = "backoff" => RetriesRejected(r)
      <4>1. PICK class \in StatusClasses :
              /\ IF class = "unauthorized" THEN ~MayRefresh(r) /\ Reject(r)
                                           ELSE UNCHANGED rejected
              /\ pc' # pc => \/ IsRetryableStatus(class) /\ IsRetryableMethod
                             \/ pc' = [pc EXCEPT ![r] = AfterExchange("status")]
        BY DEF FailingStatus
      <4>2. pc' # pc /\ AfterExchange("status") # "backoff" BY <2>1
      <4>3. pc'[r] = "backoff" => IsRetryableStatus(class) /\ IsRetryableMethod
        BY <4>1, <4>2 DEF IInv, TypeOK
      <4> QED BY <4>1, <4>3 DEF IsRetryableStatus
    <3>2. rejected \in [Requests -> SUBSET Tokens] BY DEF IInv, TypeOK
    <3>3. \A s \in Requests : rejected'[s] \subseteq rejected[s] \cup {token[s]} BY <3>1, <3>2
    <3>4. CASE rejected' = rejected BY <3>3, <3>4
    <3> HIDE DEF RetriesRejected
    <3> QED BY <3>1, <3>3, <3>4
  <2>3. TokensOf(r)'
    <3>1. RetriesRejected(r)' <=> RetriesRejected(r) BY <2>1
    <3>2. token[r] <= issued /\ \A t \in rejected[r] : t <= issued BY <1>0 DEF TokensOf
    <3> HIDE DEF RetriesRejected
    <3> QED BY <1>0, <2>1, <2>2, <3>1, <3>2 DEF TokensOf
  <2>4. \A s \in Requests \ {r} : TokensOf(s)'
    BY <1>2, <2>1 DEF IInv, TokensAgree, TokensOf, Untouched
  <2>5. ASSUME NEW s \in Requests, NEW t \in Requests PROVE Unused(s, t)'
    <3>1. Unused(s, t) BY DEF IInv, TokensAgree
    <3> QED BY <2>1, <2>2, <3>1 DEF Unused
  <2> QED BY <2>1, <2>3, <2>4, <2>5 DEF IInv, TokensAgree
<1>6. /\ published[r] = "none" /\ follows[r] = NoRequest /\ pc'[r] \notin {"erase", "follow"}
      /\ policy.coalesce => (Owns(r)' <=> Owns(r))
      /\ pc'[r] = "publish" => policy.coalesce /\ result'[r] # "none"
  BY <1>0 DEF IInv, TypeOK, OutcomeOf, FollowerOf, CountersOf, FailingStatus
<1>7. TableAgrees' /\ OutcomesAgree' /\ FollowersAgree'
  BY <1>2, <1>6, RoleKept DEF FailingStatus
<1> QED BY <1>1, <1>4, <1>5, <1>7 DEF IInv

\* A transfer without response is repeated for a retryable method only.
LEMMA TransferThrowsKeeps ==
  ASSUME IInv, NEW r \in Requests, TransferThrows(r)
  PROVE  IInv'
<1>0. CountersOf(r) /\ TokensOf(r) /\ OutcomeOf(r) /\ FollowerOf(r)
  BY DEF IInv, CountersAgree, TokensAgree, OutcomesAgree, FollowersAgree
<1>1. TypeOK'
  <2>1. \/ UNCHANGED terminalEvents
        \/ \E n \in 0..2 : terminalEvents' = [terminalEvents EXCEPT ![r] = @ + n]
    BY DEF TransferThrows, Catch
  <2>2. terminalEvents \in [Requests -> 0..2] /\ terminalEvents[r] = 0
    BY <1>0 DEF IInv, TypeOK, CountersOf, TransferThrows
  <2>3. terminalEvents' \in [Requests -> 0..2] BY <2>1, <2>2
  <2>4. pc' \in [Requests -> Points] /\ result' \in [Requests -> Results \cup {"none"}]
    <3>1. \E p \in Points : pc' = [pc EXCEPT ![r] = p] BY DEF TransferThrows, Catch
    <3>2. result' \in [Requests -> Results \cup {"none"}]
      BY ZenonT(60) DEF IInv, TypeOK, TransferThrows, Catch
    <3> HIDE DEF Points
    <3>3. pc \in [Requests -> Points] BY DEF IInv, TypeOK
    <3>4. pc' \in [Requests -> Points] BY <3>1, <3>3
    <3> QED BY <3>2, <3>4
  <2> QED BY <2>3, <2>4 DEF IInv, TypeOK, TransferThrows, Catch
<1>2. \A s \in Requests \ {r} : Untouched(s) BY DEF IInv, TypeOK, TransferThrows, Catch, Untouched
<1>3. CountersOf(r)' BY <1>0, PolicyFields DEF IInv, TypeOK, CountersOf, TransferThrows, Catch
<1>4. CountersAgree' BY <1>2, <1>3, CountersKept DEF TransferThrows
<1>5. TokensAgree'
  <2>1. fresh[r] = 0 /\ Sending(r) /\ pc'[r] \in {"backoff", "publish", "done"}
    BY <1>0 DEF IInv, TypeOK, TokensOf, TransferThrows, Catch
  <2>2. MayMove(r)
    <3> HIDE DEF RetriesRejected
    <3> QED BY <2>1 DEF MayMove
  <2> QED BY <1>2, <2>2, TokensKept DEF TransferThrows
<1>6. /\ published[r] = "none" /\ follows[r] = NoRequest /\ pc'[r] \notin {"erase", "follow"}
      /\ policy.coalesce => (Owns(r)' <=> Owns(r))
      /\ pc'[r] = "publish" => policy.coalesce /\ result'[r] # "none"
  BY <1>0 DEF IInv, TypeOK, OutcomeOf, FollowerOf, CountersOf, TransferThrows, Catch
<1>7. TableAgrees' /\ OutcomesAgree' /\ FollowersAgree'
  BY <1>2, <1>6, RoleKept DEF TransferThrows
<1> QED BY <1>1, <1>4, <1>5, <1>7 DEF IInv

\* After the wait the next attempt is at most the last.
LEMMA WaitBeforeRetryKeeps ==
  ASSUME IInv, NEW r \in Requests, WaitBeforeRetry(r)
  PROVE  IInv'
<1>0. CountersOf(r) /\ TokensOf(r) /\ OutcomeOf(r) /\ FollowerOf(r)
  BY DEF IInv, CountersAgree, TokensAgree, OutcomesAgree, FollowersAgree
<1>1. TypeOK'
  <2>1. \/ UNCHANGED terminalEvents
        \/ \E n \in 0..2 : terminalEvents' = [terminalEvents EXCEPT ![r] = @ + n]
    BY DEF WaitBeforeRetry
  <2>2. terminalEvents \in [Requests -> 0..2] /\ terminalEvents[r] = 0
    BY <1>0 DEF IInv, TypeOK, CountersOf, WaitBeforeRetry
  <2>3. terminalEvents' \in [Requests -> 0..2] BY <2>1, <2>2
  <2>4. pc' \in [Requests -> Points] /\ result' \in [Requests -> Results \cup {"none"}]
    <3>1. \E p \in Points : pc' = [pc EXCEPT ![r] = p] BY DEF WaitBeforeRetry
    <3>2. result' \in [Requests -> Results \cup {"none"}]
      BY SMTT(60) DEF IInv, TypeOK, WaitBeforeRetry
    <3> HIDE DEF Points
    <3>3. pc \in [Requests -> Points] BY DEF IInv, TypeOK
    <3>4. pc' \in [Requests -> Points] BY <3>1, <3>3
    <3> QED BY <3>2, <3>4
  <2>5. \/ attempt' = attempt
        \/ attempt' = [attempt EXCEPT ![r] = @ + 1] /\ attempt[r] <= policy.maxAttempts
    BY <1>0, PolicyFields DEF IInv, TypeOK, CountersOf, WaitBeforeRetry
  <2>6. attempt \in [Requests -> 1..(policy.maxAttempts + 1)] /\ policy.maxAttempts \in Nat
    BY PolicyFields DEF IInv, TypeOK
  <2>7. attempt' \in [Requests -> 1..(policy.maxAttempts + 1)] BY <2>5, <2>6
  <2>8. accessTokens' \in Tokens BY DEF IInv, TypeOK, WaitBeforeRetry
  <2>9. fresh' \in [Requests -> Tokens] BY DEF IInv, TypeOK, WaitBeforeRetry
  <2>10. token' \in [Requests -> Tokens] BY DEF IInv, TypeOK, WaitBeforeRetry
  <2>11. /\ stage' \in [Requests -> {"prepare", "rejected", "reapply"}]
         /\ issued' \in 1..TokenSupply /\ refreshed' \in [Requests -> BOOLEAN]
    BY DEF IInv, TypeOK, WaitBeforeRetry
  <2>12. UNCHANGED <<policy, expired, coalescedRequests, published, cancelled, key, follows,
                     rejected, sends, unanswered>>
    BY DEF WaitBeforeRetry
  <2> QED BY <2>3, <2>4, <2>7, <2>8, <2>9, <2>10, <2>11, <2>12 DEF IInv, TypeOK
<1>2. \A s \in Requests \ {r} : Untouched(s) BY DEF IInv, TypeOK, WaitBeforeRetry, Untouched
<1>3. CountersOf(r)'
  <2>1. /\ pc[r] = "backoff" /\ pc'[r] = "attempt" /\ attempt'[r] = attempt[r] + 1
        /\ UNCHANGED <<policy, stage, result, published, refreshed, sends, unanswered,
                       terminalEvents>>
    BY DEF IInv, TypeOK, WaitBeforeRetry
  <2>2. policy.maxAttempts \in Nat /\ attempt[r] \in Nat /\ sends[r] \in Nat
    BY PolicyFields DEF IInv, TypeOK
  <2>3. attempt[r] + 1 <= MaximumAttempts(r) BY <1>0, <2>1, <2>2 DEF CountersOf
  <2> QED BY <1>0, <2>1, <2>2, <2>3 DEF CountersOf
<1>4. CountersAgree' BY <1>2, <1>3, CountersKept DEF WaitBeforeRetry
<1>5. TokensAgree'
  <2>1. fresh[r] = 0 /\ Sending(r) /\ pc'[r] = "attempt"
    BY <1>0 DEF IInv, TypeOK, TokensOf, WaitBeforeRetry
  <2>2. MayMove(r)
    <3> HIDE DEF RetriesRejected
    <3> QED BY <2>1 DEF MayMove
  <2> QED BY <1>2, <2>2, TokensKept DEF WaitBeforeRetry
<1>6. /\ published[r] = "none" /\ follows[r] = NoRequest /\ pc'[r] \notin {"erase", "follow"}
      /\ policy.coalesce => (Owns(r)' <=> Owns(r))
      /\ pc'[r] = "publish" => policy.coalesce /\ result'[r] # "none"
  BY <1>0 DEF IInv, TypeOK, OutcomeOf, FollowerOf, CountersOf, WaitBeforeRetry
<1>7. TableAgrees' /\ OutcomesAgree' /\ FollowersAgree'
  BY <1>2, <1>6, RoleKept DEF WaitBeforeRetry
<1> QED BY <1>1, <1>4, <1>5, <1>7 DEF IInv

\* A cancelled wait ends the request.
LEMMA WaitCancelledKeeps ==
  ASSUME IInv, NEW r \in Requests, WaitCancelled(r)
  PROVE  IInv'
<1>0. CountersOf(r) /\ TokensOf(r) /\ OutcomeOf(r) /\ FollowerOf(r)
  BY DEF IInv, CountersAgree, TokensAgree, OutcomesAgree, FollowersAgree
<1>1. TypeOK' BY PolicyFields DEF IInv, TypeOK, WaitCancelled
<1>2. \A s \in Requests \ {r} : Untouched(s) BY DEF IInv, TypeOK, WaitCancelled, Untouched
<1>3. CountersOf(r)' BY <1>0, PolicyFields DEF IInv, TypeOK, CountersOf, WaitCancelled
<1>4. CountersAgree' BY <1>2, <1>3, CountersKept DEF WaitCancelled
<1>5. TokensAgree' BY <1>0, <1>2, TokensKept DEF MayMove, IInv, TypeOK, TokensOf, CountersOf, WaitCancelled
<1>6. /\ published[r] = "none" /\ follows[r] = NoRequest /\ pc'[r] \notin {"erase", "follow"}
      /\ policy.coalesce => (Owns(r)' <=> Owns(r))
      /\ pc'[r] = "publish" => policy.coalesce /\ result'[r] # "none"
  BY <1>0 DEF IInv, TypeOK, OutcomeOf, FollowerOf, CountersOf, WaitCancelled
<1>7. TableAgrees' /\ OutcomesAgree' /\ FollowersAgree'
  BY <1>2, <1>6, RoleKept DEF WaitCancelled
<1> QED BY <1>1, <1>4, <1>5, <1>7 DEF IInv

\* A cancellation changes nothing but the handle, and time nothing that is stored.
LEMMA EnvironmentKeeps ==
  ASSUME IInv, Expire \/ \E r \in Requests : CancelRequest(r)
  PROVE  IInv'
<1> USE DEF CancelRequest, Expire, IInv
<1>1. TypeOK' BY DEF TypeOK
<1>2. CountersAgree' BY DEF CountersAgree, CountersOf
<1>3. TokensAgree' BY DEF TokensAgree, TokensOf, Unused
<1>4. TableAgrees' BY DEF TableAgrees, OwnerOf, OwnerEntry
<1>5. OutcomesAgree' BY DEF OutcomesAgree, OutcomeOf
<1>6. FollowersAgree' BY DEF FollowersAgree, FollowerOf
<1> QED BY <1>1, <1>2, <1>3, <1>4, <1>5, <1>6

\* A step that changes nothing preserves the invariant.
LEMMA StutterKeeps == IInv /\ UNCHANGED vars => IInv'
BY DEF IInv, TypeOK, CountersAgree, CountersOf, TokensAgree, TokensOf, Unused, TableAgrees,
     OwnerOf, OwnerEntry, OutcomesAgree, OutcomeOf, FollowersAgree, FollowerOf

\* Every step preserves the invariant: one lemma above for each action.
LEMMA NextPreserves == IInv /\ [Next]_vars => IInv'
<1> SUFFICES ASSUME IInv, [Next]_vars PROVE IInv' OBVIOUS
<1>1. ASSUME NEW r \in Requests, Step(r) PROVE IInv'
  BY <1>1, BeginKeeps, BeginThrowsKeeps, ApplyAuthenticationKeeps, ApplyNeedsRefreshKeeps,
       ApplyThrowsKeeps, RefreshAnsweredKeeps, RefreshFailsKeeps, StoreKeeps, ExecuteAloneKeeps,
       BecomeOwnerKeeps, FollowKeeps, FollowerCancelledKeeps, FollowerSharesKeeps, PublishKeeps,
       EraseKeeps, AttemptThrowsKeeps, SendKeeps, SucceedsKeeps, UnauthorizedKeeps,
       FailingStatusKeeps, TransferThrowsKeeps, WaitBeforeRetryKeeps, WaitCancelledKeeps DEF
       Step
<1> QED BY <1>1, EnvironmentKeeps, StutterKeeps DEF Next, Finished

\* Every reachable state of every instance satisfies the inductive invariant.
THEOREM Invariance == Spec => []IInv
BY InitEstablishes, NextPreserves, PTL DEF Spec

\* Every variable keeps its range.
THEOREM TypeCorrectness == Spec => []TypeOK
<1>1. IInv => TypeOK BY DEF IInv
<1> QED BY <1>1, Invariance, PTL

\* The transport sees a request at most maxAttempts times, and once more after a 401.
THEOREM SendsAreBoundedTheorem == Spec => []SendsAreBounded
<1>1. IInv => SendsAreBounded
  BY PolicyFields DEF IInv, TypeOK, CountersAgree, CountersOf, SendsAreBounded
<1> QED BY <1>1, Invariance, PTL

\* A refreshed request carries no token that was answered with 401, and a rejected
\* token goes out again only as an ordinary retry.
THEOREM RejectedTokenIsReplacedTheorem == Spec => RejectedTokenIsReplaced
<1>1. ASSUME IInv, [Next]_vars, NEW s \in Requests
      PROVE  /\ refreshed'[s] # refreshed[s] \/ token'[s] # token[s] =>
                  token'[s] \notin rejected[s] \cup {0}
             /\ sends'[s] # sends[s] /\ token[s] \in rejected[s] => RetriesRejected(s)
  <2>0. CountersOf(s) /\ TokensOf(s) BY <1>1 DEF IInv, CountersAgree, TokensAgree
  <2>1. ASSUME NEW r \in Requests, ApplyAuthentication(r)
        PROVE  /\ token'[s] # token[s] \/ refreshed'[s] # refreshed[s] =>
                    token'[s] \notin rejected[s] \cup {0}
               /\ sends' = sends
    <3>1. CASE s = r
      <4>1. token'[r] = accessTokens /\ accessTokens # 0 /\ sends' = sends /\ pc[r] = "apply"
        BY <1>1, <2>1 DEF ApplyAuthentication, IInv, TypeOK
      <4>2. accessTokens \notin rejected[r]
        BY <1>1, <2>0, <3>1, <4>1 DEF TokensOf, IInv, TypeOK
      <4> QED BY <3>1, <4>1, <4>2
    <3>2. CASE s # r
      <4>1. token'[s] = token[s] /\ refreshed'[s] = refreshed[s] /\ sends' = sends
        BY <1>1, <2>1, <3>2 DEF ApplyAuthentication, IInv, TypeOK
      <4> QED BY <4>1
    <3> QED BY <3>1, <3>2
  <2>2. ASSUME NEW r \in Requests, Store(r)
        PROVE  /\ token'[s] # token[s] \/ refreshed'[s] # refreshed[s] =>
                    token'[s] \notin rejected[s] \cup {0}
               /\ sends' = sends
    <3>1. Unused(r, s) BY <1>1 DEF IInv, TokensAgree
    <3>2. /\ sends' = sends
          /\ \/ token'[s] = token[s] /\ refreshed'[s] = refreshed[s]
             \/ token'[s] = fresh[r] /\ fresh[r] # 0
      BY <1>1, <2>2 DEF Store, IInv, TypeOK
    <3> QED BY <3>1, <3>2 DEF Unused
  <2>3. ASSUME NEW r \in Requests, Send(r)
        PROVE  /\ UNCHANGED <<token, refreshed>>
               /\ sends'[s] # sends[s] => Sending(s)
    BY <1>1, <2>3 DEF Send, IInv, TypeOK
  <2>4. ASSUME NEW r \in Requests, Step(r), ~ApplyAuthentication(r), ~Store(r), ~Send(r)
        PROVE  UNCHANGED <<token, refreshed, sends>>
    BY <2>4 DEF Step, Begin, BeginThrows, ApplyNeedsRefresh, ApplyThrows,
                RefreshAnswered, RefreshFails, ExecuteAlone, BecomeOwner, Follow,
                FollowerCancelled, FollowerShares, Publish, Erase, AttemptThrows, Succeeds,
                Unauthorized, FailingStatus, TransferThrows, WaitBeforeRetry, WaitCancelled
  <2>5. CASE \E r \in Requests : Step(r)
    <3> HIDE DEF RetriesRejected, Sending
    <3> QED BY <2>0, <2>1, <2>2, <2>3, <2>4, <2>5 DEF TokensOf
  <2>6. CASE ~\E r \in Requests : Step(r)
    <3>1. UNCHANGED <<token, refreshed, sends>>
      BY <1>1, <2>6 DEF Next, CancelRequest, Expire, Finished
    <3> QED BY <3>1
  <2> QED BY <2>5, <2>6
<1>2. IInv /\ [Next]_vars =>
        [\A r \in Requests :
           /\ refreshed'[r] # refreshed[r] \/ token'[r] # token[r] =>
                token'[r] \notin rejected[r] \cup {0}
           /\ sends'[r] # sends[r] /\ token[r] \in rejected[r] => RetriesRejected(r)]_vars
  <2> HIDE DEF RetriesRejected
  <2> QED BY <1>1
<1> QED BY <1>2, Invariance, PTL DEF Spec, RejectedTokenIsReplaced

\* Requests with one key are never in exchange at the same time.
THEOREM OneExchangePerKeyTheorem == Spec => []OneExchangePerKey
<1>1. IInv => OneExchangePerKey BY DEF IInv, TableAgrees, OwnerOf, OwnerEntry, OneExchangePerKey
<1> QED BY <1>1, Invariance, PTL

\* Every entry of coalescedRequests_ belongs to a request that will publish and erase it.
THEOREM EntryHasLiveOwnerTheorem == Spec => []EntryHasLiveOwner
<1>1. IInv => EntryHasLiveOwner BY DEF IInv, TypeOK, TableAgrees, OwnerOf, OwnerEntry,
     EntryHasLiveOwner
<1> QED BY <1>1, Invariance, PTL

\* A follower sends nothing and ends as its owner did, unless it was cancelled.
THEOREM FollowerSharesOutcomeTheorem == Spec => []FollowerSharesOutcome
<1>1. IInv => FollowerSharesOutcome
  BY DEF IInv, TypeOK, OutcomesAgree, OutcomeOf, FollowersAgree, FollowerOf, FollowerSharesOutcome
<1> QED BY <1>1, Invariance, PTL

\* A request that must not be repeated is not sent again after a lost response.
THEOREM UnansweredIsNotRepeatedTheorem == Spec => UnansweredIsNotRepeated
<1>1. IInv /\ [Next]_vars =>
        [\A r \in Requests : r \in unanswered /\ ~policy.retryableMethod => sends'[r] =
             sends[r]]_vars
  <2> SUFFICES ASSUME IInv, Next, NEW s \in Requests, s \in unanswered, ~policy.retryableMethod
               PROVE  sends'[s] = sends[s]
    OBVIOUS
  <2>1. pc[s] # "attempt" BY DEF IInv, CountersAgree, CountersOf
  <2>2. ASSUME NEW r \in Requests, Send(r) PROVE sends'[s] = sends[s]
    BY <2>1, <2>2 DEF Send, IInv, TypeOK
  <2>3. ASSUME NEW r \in Requests, Step(r), ~Send(r) PROVE sends' = sends
    BY <2>3 DEF Step, Begin, BeginThrows, ApplyAuthentication, ApplyNeedsRefresh, ApplyThrows,
                RefreshAnswered, RefreshFails, Store, ExecuteAlone, BecomeOwner, Follow,
                FollowerCancelled, FollowerShares, Publish, Erase, AttemptThrows, Succeeds,
                Unauthorized, FailingStatus, TransferThrows, WaitBeforeRetry, WaitCancelled
  <2> QED BY <2>2, <2>3 DEF Next, CancelRequest, Expire, Finished
<1> QED BY <1>1, Invariance, PTL DEF Spec, UnansweredIsNotRepeated
=============================================================================
