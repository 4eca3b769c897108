------------------------- MODULE ServiceProperties --------------------------
(***************************************************************************)
(* What a client of the gRPC service may rely on.                          *)
(***************************************************************************)
EXTENDS Service

\* A request that arrives again, late or duplicated, is not verified again by
\* the server that verified it: its proof is rejected while it is remembered,
\* and stale afterwards.  In mode enforce it is therefore not run again; in
\* mode log-only a rejected request is logged and run all the same
\* (intercept_service), so there this only says what is logged.  The one
\* instant at which it may pass again is the last of its window, when it
\* passed at the first and the ttl is exactly the window (ReplayCache keeps
\* exp > now; verify_proof allows the skew itself).
RunsOnce ==
    \A r \in Requests : \A m, n \in DOMAIN ran[r] :
        m < n => /\ ran[r][n] - ran[r][m] = 2 * Skew
                 /\ Ttl = 2 * Skew

\* The reply to Take or Touch carries the lease of the claim whose token goes
\* with it; if the row it was read from, some transactions later, was not
\* under that claim any more, the claim was over: expired, or given up or
\* overridden by name (LaneqServicer.Take; touch reads after its COMMIT).
ReplyIsOfItsClaim ==
    (serve.at = "replied" /\ serve.token # Null) =>
        \/ serve.mine /\ serve.lease # Null
        \/ granted[serve.token] <= now

\* The lease in a reply to Take or Touch is exactly the one the queue promises
\* that claim at the instant of reading, no later end and no earlier one,
\* though the claim was written transactions ago and may have been swept,
\* forced or extended since; only a claim that is over may be shown a lease
\* that is not its own (LaneqServicer.Take, Touch; the last SELECT of touch).
ReplyTellsThePromise ==
    [][(serve.at = "read" /\ serve'.at = "replied" /\ serve'.token # Null) =>
        \/ serve'.lease = granted[serve'.token]
        \/ ~serve'.mine /\ granted[serve'.token] <= now
      ]_svars
=============================================================================
