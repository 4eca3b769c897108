-------------------------- MODULE QueueProperties ---------------------------
(***************************************************************************)
(* What the queue promises its workers and operators.                      *)
(***************************************************************************)
EXTENDS Queue

\* A promised lease is honoured: until the instant the service last wrote for
\* a token, the directive stays taken under that token, whatever other workers
\* with stale tokens, lazy reclaims with old clock readings and other
\* directives' mutations do.  Only the holder, a forced call on that very
\* directive or reap_stale ends it early (_claim_guard, release_or_hold).
LeaseHonoured ==
    \A k \in Tokens :
        granted[k] > now =>
            \E i \in Ids : /\ directives[i].status = "taken"
                           /\ directives[i].token = k
                           /\ directives[i].lease = granted[k]

\* A claim token names one directive and was handed out: retained claims of
\* parked protected rows are never confused with later ones (take, park).
TokensNameOneDirective ==
    \A i \in Ids :
        /\ directives[i].token <= issued
        /\ \A j \in Ids \ {i} :
            directives[i].token = directives[j].token => directives[i].token = Null

\* A protected directive is only ever waiting, taken, or parked with the
\* identity of its last claim: no generic operation completes, drops, defers
\* or requeues it, not even one that checked it before it was admitted
\* (require_ordinary_directive; STAGE-HANDOFF.md).
ProtectedIsHeld ==
    \A i \in Ids :
        Protected(directives[i]) =>
            /\ directives[i].status \in {"pending", "taken", "parked"}
            /\ directives[i].status = "pending" <=> directives[i].token = Null

\* Once a protected directive has been claimed, that claim is its last: the
\* token stays on the row through expiry, reaping, parking and every forced
\* call, so the work is never handed to a second worker.
ProtectedClaimedOnce ==
    [][\A i \in Ids :
        Protected(directives[i]) /\ directives[i].token # Null =>
            /\ directives'[i].token = directives[i].token
            /\ directives[i].status = "parked" => directives'[i].status = "parked"
      ]_vars

\* A finished directive is reopened only by a forced set_status or defer on
\* it; no worker with a stale token, sweep, reap or unpark brings it back.
FinishedStaysFinished ==
    [][\A i \in Ids :
        /\ directives[i].status \in Terminal
        /\ directives'[i].status \notin Terminal
        => \E p \in Procs : /\ call[p].id = i
                            /\ call[p].op \in {"set_status", "defer"}
                            /\ call[p].step = "update"
      ]_vars

\* A forced set_status commits its update of directive i.
ForcesStatus(i) ==
    \E p \in Procs : /\ call[p].op = "set_status" /\ call[p].id = i
                     /\ call[p].step = "update" /\ call'[p] = Idle

\* requeue_count counts claims, each at most once.  The step in which a token
\* leaves its row for the queue, or for the next worker, adds one, whichever
\* of the racing reclaimers makes it; a step that adds one is that step of a
\* claim, or the explicit requeue of a forced call, which counts for itself:
\* one whose own reclaim has just counted the claim counts again.  A token
\* that left a row is never on a row again, so no later step can count its
\* claim (release_or_hold, set_status, take).
LostClaimCountedOnce ==
    [][\A i \in Ids :
        LET r == directives[i]
            s == directives'[i]
            ends == r.status = "taken" /\ (s.status # "taken" \/ s.token # r.token)
        IN  /\ s.requeue_count \in {r.requeue_count, r.requeue_count + 1}
            /\ r.token # Null /\ (s.status = "pending" \/ s.token \notin {r.token, Null})
               => s.requeue_count = r.requeue_count + 1
            /\ s.requeue_count # r.requeue_count => ends \/ ForcesStatus(i)
            /\ s.token \notin {r.token, Null} => s.token > issued
      ]_vars

\* A deferred directive becomes claimable, or is claimed in the transaction
\* that promotes it, only when its time has come and every dependency is
\* terminal; the exception is a forced set_status (reclaim_deferred).
PromotedOnlyWhenReady ==
    [][\A i \in Ids :
        /\ directives[i].status = "deferred"
        /\ directives'[i].status \in {"pending", "taken"}
        => \/ Ready(directives, directives[i], now)
           \/ \E p \in Procs : /\ call[p].id = i
                               /\ call[p].op = "set_status"
                               /\ call[p].step = "update"
      ]_vars

\* What a waiting consumer could have had at the last commit: a directive
\* pending, or due to be reclaimed or promoted by then.
Claimable(i, lane, policy) ==
    /\ directives[i].lane = lane /\ directives[i].policy = policy
    /\ \/ directives[i].status = "pending"
       \/ Expired(directives[i], committed) /\ policy = "requeue"
       \/ Ready(directives, directives[i], committed)

\* A new claim goes to the first claimable directive of its lane and policy
\* by priority, then id: a directive whose lease lapsed or whose deferral
\* ended is never overtaken by a worse one (take sweeps before it selects).
TakesTheHead ==
    [][\A i, j \in Ids :
        /\ directives'[i].status = "taken" /\ directives'[i].token > issued
        /\ i # j
        /\ Claimable(j, directives[i].lane, directives[i].policy)
        => Before(directives, i, j)
      ]_vars

\* Every taken directive has the token, lease and time of its claim, and an
\* ordinary one that is not taken has no token left; a pending directive has
\* no deferral left to hide it again (take, set_status, defer, unpark).
ClaimColumnsAgree ==
    \A i \in Ids :
        LET r == directives[i]
        IN  /\ r.status = "taken" =>
                r.token # Null /\ r.lease # Null /\ r.taken_at # Null
            /\ r.token # Null =>
                r.status = "taken" \/ (r.policy = "hold" /\ r.status = "parked")
            /\ r.status = "pending" =>
                /\ r.lease = Null /\ r.taken_at = Null
                /\ r.not_before = Null /\ r.blocked_by = {}

\* A taken directive has a lease (README.md: "Taken directives receive a
\* lease"); without one no lazy reclaim ever finds it (set_status).
TakenHasLease ==
    \A i \in Ids : directives[i].status = "taken" => directives[i].lease # Null

\* Parents precede their children, so the parent chain the thread traversals
\* follow ends (push checks the parent before it inserts; cli.ancestors).
ParentsPrecede ==
    \A i \in Ids :
        LET parent == directives[i].parent
        IN  parent # Null => parent < i /\ Exists(directives[parent])

-----------------------------------------------------------------------------
(***************************************************************************)
(* Fairness.  Time passes.  Somebody keeps reading the queue (a consumer   *)
(* polls peek or next): its calls get the write lock now and then and do   *)
(* not all die half-way.  Every call goes on or dies.  Nothing is assumed  *)
(* of a worker that holds a claim.                                         *)
(***************************************************************************)
Read(p) == Reclaim(p, now) /\ call'[p].op = "read"

GoesOn(p) == call[p] # Idle /\ CallStep(p)

Fairness ==
    /\ WF_vars(Tick)
    /\ SF_vars(\E p \in Procs : Read(p))
    /\ \A p \in Procs : SF_vars(Promote(p, now)) /\ WF_vars(GoesOn(p))

FairSpec == Spec /\ Fairness

\* The claim of a worker that disappeared ends: nobody but other clients'
\* lazy reclaiming is needed, there is no background reaper.
AbandonedClaimEnds ==
    \A i \in Ids :
        directives[i].status = "taken" ~> directives[i].status # "taken"

\* A deferred directive whose dependencies are terminal does not stay hidden
\* once its time has come.
DeferralEnds ==
    \A i \in Ids :
        LET Due == /\ directives[i].status = "deferred"
                   /\ DependenciesSatisfied(directives, directives[i].blocked_by)
        IN  Due ~> ~Due
=============================================================================
