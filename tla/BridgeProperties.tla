-------------------------- MODULE BridgeProperties --------------------------
(***************************************************************************)
(* What a launcher may conclude from what the bridge told it.              *)
(***************************************************************************)
EXTENDS StageBridge

\* A client that was told of a stage has the only claim there will ever be on
\* it: whatever expires, dies, is renewed or repeated, the stage stays under
\* that token, or was settled under it, and its text is the one admitted under
\* the key (claim: "retain the protected claim"; lookup, sealed_receipt).
ToldIsTheOnlyClaim ==
    \A c \in Clients :
        LET b == bridge[c]
        IN  b.at = "told" =>
            /\ admissions[b.key].id = b.id
            /\ body[b.id] = admissions[b.key].body
            /\ IF b.id \in DOMAIN receipts THEN receipts[b.id].token = b.token
                                           ELSE directives[b.id].token = b.token

\* What a client is told of its lease is what the queue promises its claim at
\* that instant, for renew too, which checked the claim in one connection,
\* extended it in a second and reads it in a third, with sweeps, forced calls
\* and other clients of the same token between them (claim, inspect, renew).
ToldLeaseIsGranted ==
    [][\A c \in Clients :
        LET b == bridge'[c]
        IN  b.at = "told" /\ b # bridge[c] =>
            b.lease > now /\ b.lease = granted[b.token]
      ]_bvars
=============================================================================
