----------------------------- MODULE Directives -----------------------------
(***************************************************************************)
(* The `directives' table of laneq and the SQL statements that rewrite it. *)
(* Every operator here is a function of the table: the components that own *)
(* state (Queue, Handoff, ...) run them inside their transactions.         *)
(*                                                                         *)
(* The table is a total function on Ids; a row not inserted yet has status *)
(* "absent" (AUTOINCREMENT allocates ids upwards and nothing deletes a     *)
(* row).  SQL NULL is Null; clock readings and tokens are positive.        *)
(* Columns that are only ever displayed (body, created_at, done_at,        *)
(* taken_by) are left out.                                                 *)
(***************************************************************************)
EXTENDS Integers

CONSTANTS
    MaxId,         \* bound: directives the model may insert
    Lanes,         \* lane names
    Priorities,    \* the values of core.PRIORITIES, smaller first
    StaleSeconds   \* age at which reap_stale takes a claim back

ASSUME DirectivesAssumption ==
    /\ MaxId \in Nat
    /\ Lanes # {}
    /\ Priorities # {} /\ Priorities \subseteq Nat
    /\ StaleSeconds \in Nat

Ids == 1..MaxId
Null == 0
Policies == {"requeue", "hold"}
Terminal == {"done", "dropped"}
Statuses == {"pending", "taken", "deferred", "parked"} \cup Terminal

Directive ==
    [status : Statuses \cup {"absent"},
     policy : Policies,
     lane : Lanes,
     priority : Priorities,
     parent : Ids \cup {Null},
     token : Nat,
     lease : Nat,
     taken_at : Nat,
     requeue_count : Nat,
     not_before : Nat,
     blocked_by : SUBSET Ids]

Exists(r) == r.status # "absent"
Protected(r) == Exists(r) /\ r.policy = "hold"

\* Mutant: the mutation does not look at the policy.
OrdinaryUnchecked(r) == TRUE

\* require_ordinary_directive: a row that is not there passes.
Ordinary(r) == ~Protected(r)

\* Mutant: push takes the parent on trust.
ParentUnchecked(d, parent) == TRUE

ParentExists(d, parent) == parent # Null => Exists(d[parent])

Pending(policy, lane, priority, parent) ==
    [status |-> "pending", policy |-> policy, lane |-> lane,
     priority |-> priority, parent |-> parent, token |-> Null, lease |-> Null,
     taken_at |-> Null, requeue_count |-> 0, not_before |-> Null,
     blocked_by |-> {}]

Absent ==
    [Pending("requeue", CHOOSE l \in Lanes : TRUE, CHOOSE n \in Priorities : TRUE, Null)
        EXCEPT !.status = "absent"]

\* The id AUTOINCREMENT gives to the next INSERT.
IsNextId(d, i) ==
    /\ ~Exists(d[i])
    /\ \A j \in Ids : j < i => Exists(d[j])

(***************************************************************************)
(* Reclaiming.  Both sweeps select under the write lock they update under. *)
(***************************************************************************)
Unclaimed(r) == [r EXCEPT !.token = Null, !.lease = Null, !.taken_at = Null]

\* Mutants: a release that counts backwards, and one that ignores the policy.
ReleaseCountingDown(r) ==
    IF r.policy = "hold"
    THEN [r EXCEPT !.status = "parked"]
    ELSE [Unclaimed(r) EXCEPT !.status = "pending", !.requeue_count = @ - 1]

ReleaseAlways(r) ==
    [Unclaimed(r) EXCEPT !.status = "pending", !.requeue_count = @ + 1]

\* A protected row is parked with its claim kept for reconciliation.
ReleaseOrHold(r) ==
    IF r.policy = "hold"
    THEN [r EXCEPT !.status = "parked"]
    ELSE [Unclaimed(r) EXCEPT !.status = "pending", !.requeue_count = @ + 1]

\* Mutants: the SELECT forgets status = 'taken'; a lease that ends one instant
\* early, or one late.
ExpiredInAnyStatus(r, t) == r.lease # Null /\ r.lease <= t

ExpiredEarly(r, t) == r.status = "taken" /\ r.lease # Null /\ r.lease <= t + 1

ExpiredLate(r, t) == r.status = "taken" /\ r.lease # Null /\ r.lease < t

Expired(r, t) == r.status = "taken" /\ r.lease # Null /\ r.lease <= t

ReclaimExpired(d, t) ==
    [i \in Ids |-> IF Expired(d[i], t) THEN ReleaseOrHold(d[i]) ELSE d[i]]

Stale(r, t) ==
    r.status = "taken" /\ (r.taken_at = Null \/ t - r.taken_at >= StaleSeconds)

ReapStale(d, t) ==
    [i \in Ids |-> IF Stale(d[i], t) THEN ReleaseOrHold(d[i]) ELSE d[i]]

DependenciesSatisfied(d, deps) == \A j \in deps : d[j].status \in Terminal

Ready(d, r, t) ==
    /\ r.status = "deferred"
    /\ r.not_before <= t
    /\ DependenciesSatisfied(d, r.blocked_by)

Promoted(r) ==
    [Unclaimed(r) EXCEPT !.status = "pending", !.not_before = Null,
                         !.blocked_by = {}]

\* Mutants: dependencies are not looked at, or the time is compared with <.
PromoteOnTime(d, t) ==
    [i \in Ids |-> IF d[i].status = "deferred" /\ d[i].not_before <= t
                   THEN Promoted(d[i]) ELSE d[i]]

PromoteAfterTime(d, t) ==
    [i \in Ids |-> IF Ready(d, d[i], t) /\ d[i].not_before < t
                   THEN Promoted(d[i]) ELSE d[i]]

ReclaimDeferred(d, t) ==
    [i \in Ids |-> IF Ready(d, d[i], t) THEN Promoted(d[i]) ELSE d[i]]

\* The two sweeps one after the other; each reads the clock for itself.
Sweep(d, t, v) == ReclaimDeferred(ReclaimExpired(d, t), v)

(***************************************************************************)
(* Claiming and the statements that end, extend or replace a claim.        *)
(***************************************************************************)
Candidate(d, i, lane, policy) ==
    d[i].status = "pending" /\ d[i].lane = lane /\ d[i].policy = policy

\* ORDER BY priority ASC, id ASC
Before(d, i, j) ==
    \/ d[i].priority < d[j].priority
    \/ d[i].priority = d[j].priority /\ i < j

\* Mutant: first in, first out.
IsOldest(d, i, lane, policy) ==
    /\ Candidate(d, i, lane, policy)
    /\ \A j \in Ids \ {i} : Candidate(d, j, lane, policy) => i < j

IsHead(d, i, lane, policy) ==
    /\ Candidate(d, i, lane, policy)
    /\ \A j \in Ids \ {i} : Candidate(d, j, lane, policy) => Before(d, i, j)

\* Mutant: a token per consumer, not per claim.
TakenUnderOneToken(r, k, until, t) ==
    [r EXCEPT !.status = "taken", !.token = 1, !.lease = until, !.taken_at = t]

Taken(r, k, until, t) ==
    [r EXCEPT !.status = "taken", !.token = k, !.lease = until, !.taken_at = t]

\* Mutant: any live claim will do.
HoldsAnyClaim(r, k, t) == r.status = "taken" /\ r.lease > t

\* The SQL of _claim_guard: a live claim under exactly this token.
HoldsClaim(r, k, t) == r.status = "taken" /\ r.token = k /\ r.lease > t

Requeued(r) ==
    [Unclaimed(r) EXCEPT !.status = "pending", !.not_before = Null,
                         !.blocked_by = {}, !.requeue_count = @ + 1]

Completed(r) == [r EXCEPT !.status = "done", !.token = Null, !.lease = Null]

WithStatus(r, s, t) ==
    CASE s = "pending" -> Requeued(r)
      [] s = "done"    -> Completed(r)
      [] OTHER         -> [r EXCEPT !.status = s, !.taken_at = t,
                                    !.token = Null, !.lease = Null]

Deferred(r, not_before, deps) ==
    [Unclaimed(r) EXCEPT !.status = "deferred", !.not_before = not_before,
                         !.blocked_by = deps]

Touched(r, until) == [r EXCEPT !.lease = until]

\* Mutant: parking always clears the token.
ParkedWithoutToken(r) == [r EXCEPT !.status = "parked", !.token = Null]

Parked(r) ==
    [r EXCEPT !.status = "parked",
              !.token = IF r.policy = "hold" THEN @ ELSE Null]

\* Mutant: unpark leaves the columns of the old claim behind.
UnparkedWithClaim(r) == [r EXCEPT !.status = "pending"]

Unparked(r) == [Unclaimed(r) EXCEPT !.status = "pending"]
=============================================================================
