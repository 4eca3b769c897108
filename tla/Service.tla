------------------------------ MODULE Service -------------------------------
(***************************************************************************)
(* The gRPC service (grpc_server.py) behind its authentication interceptor *)
(* (grpc_auth.py, auth.py), beside the other processes that use the queue. *)
(*                                                                         *)
(* The server is one event loop and no handler awaits between its calls of *)
(* core: it runs one request to its end, but each of these calls is a      *)
(* transaction of its own and other processes run in between.  Modelled    *)
(* are the requests whose reply is put together from several of them:      *)
(* Take, Peek and Touch.                                                   *)
(*                                                                         *)
(* A request stands for its message with the grant and the proof sent with *)
(* it: signed, for this audience, this method and this message, under a    *)
(* nonce of its own.  It may arrive any number of times, at any time.      *)
(***************************************************************************)
EXTENDS QueueProperties, Sequences

CONSTANTS
    Requests,   \* what clients may send
    Modes,      \* values of LANEQ_AUTH_MODE the server may be started with
    Skew,       \* LANEQ_AUTH_SKEW_SECONDS
    LeastTtl,   \* 60 in GrantAuthInterceptor
    Second,     \* 1000: milliseconds in a second
    UsualLease  \* 1800: lease of a Take or Touch that names none

Request ==
    [op : {"take", "peek", "touch"}, lane : Lanes, policy : Policies,
     reap : BOOLEAN, ms : Nat, id : Ids, token : Tokens,
     iat : Nat, nbf : Nat, exp : Nat]

\* The lease a Take or a Touch asks for, in whole seconds.
LeaseSeconds(ms) ==
    IF ms = 0 THEN UsualLease ELSE IF ms < Second THEN 1 ELSE ms \div Second

\* What clients ask for is what the queue may be asked for.
ASSUME ServiceAssumption ==
    /\ Requests \subseteq Request /\ Requests # {}
    /\ Modes \subseteq {"off", "log-only", "enforce"} /\ Modes # {}
    /\ Skew \in Nat /\ LeastTtl \in Nat /\ Second \in Nat \ {0} /\ UsualLease \in Nat \ {0}
    /\ \A r \in Requests : r.op = "peek" \/ LeaseSeconds(r.ms) \in Leases

VARIABLES
    mode,    \* of this run of the server
    seen,    \* ReplayCache: request -> when its nonce may be forgotten
    serve,   \* the request in hand, or the last reply
    ran      \* history: per request, when it was let through as verified

svars == <<vars, mode, seen, serve, ran>>

\* token and mine: the claim the reply speaks of, and whether the row it was
\* read from was under that claim (history); lease: lease_until in the reply.
Serve ==
    [at : {"idle", "reap", "take", "touch", "reclaim", "promote", "select", "read", "replied"},
     request : Requests, id : Ids \cup {Null}, token : Tokens \cup {Null},
     lease : Nat, mine : BOOLEAN]

ServiceTypeOK ==
    /\ mode \in Modes
    /\ DOMAIN seen \subseteq Requests /\ \A r \in DOMAIN seen : seen[r] \in Nat
    /\ serve \in Serve
    /\ ran \in [Requests -> Seq(Nat)]

Begin(at, r) ==
    [at |-> at, request |-> r, id |-> Null, token |-> Null, lease |-> Null, mine |-> FALSE]

Idles == Begin("idle", CHOOSE r \in Requests : TRUE)

ServiceInit ==
    /\ Init
    /\ mode \in Modes
    /\ seen = <<>>
    /\ serve = Idles
    /\ ran = [r \in Requests |-> <<>>]

(***************************************************************************)
(* GrantAuthInterceptor                                                    *)
(***************************************************************************)
\* Mutant: a nonce is remembered for the skew, not for the whole window.
TtlOfSkew == Skew

Ttl == IF 2 * Skew > LeastTtl THEN 2 * Skew ELSE LeastTtl

\* verify_grant and the checks of verify_proof before the nonce.
Valid(r) ==
    /\ now < r.exp /\ r.nbf <= now
    /\ r.iat - Skew <= now /\ now <= r.iat + Skew

\* ReplayCache.check_and_add
Remembered == {r \in DOMAIN seen : seen[r] > now}

Verified(r) == Valid(r) /\ r \notin Remembered

Authenticate(r) ==
    /\ seen' = IF Valid(r)
               THEN [s \in Remembered \cup {r} |->
                        IF s \in Remembered THEN seen[s] ELSE now + Ttl]
               ELSE seen
    /\ ran' = IF Verified(r) THEN [ran EXCEPT ![r] = Append(@, now)] ELSE ran

\* Mutant: the handler is looked up by the name of the request.
FirstStepByName(r) == r.op

FirstStep(r) ==
    CASE r.op = "take"  -> IF r.reap THEN "reap" ELSE "take"
      [] r.op = "peek"  -> "reclaim"
      [] r.op = "touch" -> "touch"

\* intercept_service
Receive(r) ==
    /\ serve.at \in {"idle", "replied"}
    /\ r.op = "touch" => r.token <= issued
    /\ IF mode = "off" THEN UNCHANGED <<seen, ran>> ELSE Authenticate(r)
    /\ serve' = IF mode = "enforce" /\ ~Verified(r) THEN Idles ELSE Begin(FirstStep(r), r)
    /\ UNCHANGED <<vars, mode>>

-----------------------------------------------------------------------------
(***************************************************************************)
(* The handlers                                                            *)
(***************************************************************************)
Stage(at) == serve.at = at /\ UNCHANGED <<mode, seen, ran>>

Asked == serve.request

ReapFirst ==
    /\ Stage("reap")
    /\ Reap
    /\ serve' = [serve EXCEPT !.at = "take"]

TakeOne ==
    /\ Stage("take")
    /\ \/ /\ Take(Asked.lane, Asked.policy, LeaseSeconds(Asked.ms))
          /\ \E i \in Ids :
                /\ directives'[i].token = issued'
                /\ serve' = [serve EXCEPT !.at = "reclaim", !.id = i, !.token = issued']
       \/ /\ TakeNothing(Asked.lane, Asked.policy)
          /\ serve' = [serve EXCEPT !.at = "replied"]

\* A touch whose guard fails has swept, and raises.
TouchOne ==
    LET i == Asked.id
        k == Asked.token
    IN  /\ Stage("touch")
        /\ TouchFenced(i, k, LeaseSeconds(Asked.ms))
        /\ serve' = IF directives'[i].status = "taken" /\ directives'[i].token = k
                    THEN [serve EXCEPT !.at = "read", !.id = i, !.token = k]
                    ELSE Idles

\* peek and show begin with the two sweeps.
SweepExpired ==
    /\ Stage("reclaim")
    /\ \E t \in EarlyReading : Commit(ReclaimExpired(directives, t))
    /\ serve' = [serve EXCEPT !.at = "promote"]
    /\ UNCHANGED <<issued, call, granted>>

SweepDeferred ==
    /\ Stage("promote")
    /\ \E t \in EarlyReading : Commit(ReclaimDeferred(directives, t))
    /\ serve' = [serve EXCEPT !.at = IF serve.id = Null THEN "select" ELSE "read"]
    /\ UNCHANGED <<issued, call, granted>>

\* The SELECT of peek; what it found is shown.
Select ==
    /\ Stage("select")
    /\ serve' = IF \E i \in Ids : IsHead(directives, i, Asked.lane, Asked.policy)
                THEN [serve EXCEPT !.at = "reclaim", !.id =
                        CHOOSE i \in Ids : IsHead(directives, i, Asked.lane, Asked.policy)]
                ELSE [serve EXCEPT !.at = "replied"]
    /\ UNCHANGED vars

\* Mutant: the reply is not read back, it shows the lease that was asked for.
ShowAsked ==
    /\ Stage("read")
    /\ LET r == directives[serve.id]
       IN  serve' = [serve EXCEPT !.at = "replied", !.lease = now + LeaseSeconds(Asked.ms),
                        !.mine = (r.status = "taken" /\ r.token = serve.token)]
    /\ UNCHANGED vars

\* The SELECT of show, and the one of touch after its COMMIT.
ShowRow ==
    /\ Stage("read")
    /\ LET r == directives[serve.id]
       IN  serve' = [serve EXCEPT !.at = "replied", !.lease = r.lease,
                        !.mine = (r.status = "taken" /\ r.token = serve.token)]
    /\ UNCHANGED vars

\* The server is stopped, wherever it is, and started again.
Restart ==
    /\ mode' \in Modes
    /\ seen' = <<>>
    /\ serve' = Idles
    /\ ran' = [r \in Requests |-> <<>>]
    /\ UNCHANGED vars

-----------------------------------------------------------------------------
ServiceNext ==
    \/ Next /\ UNCHANGED <<mode, seen, serve, ran>>
    \/ \E r \in Requests : Receive(r)
    \/ ReapFirst \/ TakeOne \/ TouchOne
    \/ SweepExpired \/ SweepDeferred \/ Select \/ ShowRow
    \/ Restart

ServiceSpec == ServiceInit /\ [][ServiceNext]_svars
=============================================================================
