--------------------------- MODULE MCNetworkEngine ---------------------------
(* Small instances of NetworkEngine for TLC.                               *)
EXTENDS NetworkEngine, TLC

Setting(attempts, listed, method, coalesced, auth, refresh, configured) ==
  [maxAttempts |-> attempts, listed |-> listed, retryableMethod |-> method,
   coalesce |-> coalesced, authenticated |-> auth, refreshable |-> refresh,
   accessToken |-> configured]

\* With a provider that refreshes: a retryable method, coalesced, and one that is
\* neither; a provider that does not refresh; and no provider.
MCPolicies ==
  {Setting(2, {"transient"}, FALSE, FALSE, TRUE, TRUE, 1),
   Setting(2, {"unauthorized", "transient"}, TRUE, TRUE, TRUE, TRUE, 1)}
  \cup {Setting(1, {}, TRUE, TRUE, TRUE, FALSE, configured) : configured \in {0, 1}}
  \cup {Setting(2, StatusClasses, TRUE, FALSE, FALSE, FALSE, 0)}
=============================================================================
