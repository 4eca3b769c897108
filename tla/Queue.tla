------------------------------- MODULE Queue --------------------------------
(***************************************************************************)
(* The queue operations of laneq (core.py over one SQLite file), called by *)
(* any number of workers, operators and service threads at once.           *)
(*                                                                         *)
(* One action is one SQLite transaction.  A call that is a single          *)
(* transaction (take, every mutation under a claim token, park, reap,      *)
(* reprioritize) is one action, whoever makes it.  A call that is several  *)
(* (push, the reading calls, every --force mutation, unpark) is recorded   *)
(* in `call' between its transactions, where other calls may run and where *)
(* its process may die.                                                    *)
(*                                                                         *)
(* Clock readings.  A call that reads the clock before BEGIN IMMEDIATE may *)
(* wait for the lock, so its reading is any earlier instant (EarlyReading);*)
(* one that reads it inside its transaction reads an instant since the     *)
(* previous commit (LockedReading).                                        *)
(***************************************************************************)
EXTENDS Directives

CONSTANTS
    Procs,         \* processes that run multi-transaction calls
    Leases,        \* lease durations asked for
    DeferTimes,    \* instants, or Null, that defer is asked to wait for
    SetStatuses,   \* statuses a front end passes to set_status
    KnownIds,      \* TRUE: callers name only directives that exist already
    MaxTime,       \* bound: last instant of the clock
    LastGrant,     \* bound: last instant at which a lease is granted or extended
    MaxTokens,     \* bound: claims the model may grant
    MaxRequeue     \* bound: requeue_count of a row that forced calls may
                   \* still put back into circulation

ASSUME QueueAssumption ==
    /\ Leases \subseteq Nat \ {0}
    /\ DeferTimes \subseteq Nat
    /\ SetStatuses \subseteq Statuses
    /\ KnownIds \in BOOLEAN
    /\ MaxTime \in Nat \ {0} /\ LastGrant \in Nat /\ MaxTokens \in Nat /\ MaxRequeue \in Nat

Tokens == 1..MaxTokens

VARIABLES
    directives,  \* the table
    now,         \* the wall clock, in seconds
    committed,   \* when the last write transaction ended
    issued,      \* claim tokens handed out so far (uuid4: never repeated)
    call,        \* per process: the multi-transaction call it is inside of
    granted      \* history: per token, the instant up to which its holder
                 \* was promised the directive; Null once the holder or an
                 \* operator gave it up.  No action reads it.

vars == <<directives, now, committed, issued, call, granted>>

Idle == [op |-> "idle", step |-> "idle", id |-> Null]
Steps == {"reclaim", "promote", "update"}
TableCalls == [op : {"push", "read", "reap"}, step : Steps, id : {Null}]
RowCalls == [op : {"touch", "set_status", "defer", "unpark"}, step : Steps, id : Ids]
Calls == {Idle} \cup TableCalls \cup RowCalls

TypeOK ==
    /\ directives \in [Ids -> Directive]
    /\ now \in 1..MaxTime
    /\ committed \in 1..now
    /\ issued \in 0..MaxTokens
    /\ call \in [Procs -> Calls]
    /\ granted \in [Tokens -> Nat]

Init ==
    /\ directives = [i \in Ids |-> Absent]
    /\ now = 1
    /\ committed = 1
    /\ issued = 0
    /\ call = [p \in Procs |-> Idle]
    /\ granted = [k \in Tokens |-> Null]

EarlyReading == 1..now
LockedReading == committed..now

\* An administrative write to row i takes the claim away from its holder.
Override(i) ==
    granted' = [k \in Tokens |-> IF k = directives[i].token THEN Null
                                                            ELSE granted[k]]

Commit(d) == directives' = d /\ committed' = now /\ now' = now

(***************************************************************************)
(* Claims.  `take --reap-stale' is Reap followed by Take: reap_stale works *)
(* on a connection and in a transaction of its own.                        *)
(***************************************************************************)
Take(lane, policy, duration) ==
    \E t, v, u \in LockedReading :
        LET d == Sweep(directives, t, v)
            k == issued + 1
        IN  /\ t <= v /\ v <= u /\ u <= LastGrant
            /\ k \in Tokens
            /\ \E i \in Ids :
                /\ IsHead(d, i, lane, policy)
                /\ Commit([d EXCEPT ![i] = Taken(@, k, u + duration, u)])
            /\ issued' = k
            /\ granted' = [granted EXCEPT ![k] = u + duration]
            /\ UNCHANGED call

\* An empty lane still commits what the sweeps did.
TakeNothing(lane, policy) ==
    \E t, v \in LockedReading :
        LET d == Sweep(directives, t, v)
        IN  /\ t <= v
            /\ \A i \in Ids : ~Candidate(d, i, lane, policy)
            /\ Commit(d)
            /\ UNCHANGED <<issued, call, granted>>

(***************************************************************************)
(* Mutations under a claim token: the sweeps and the guarded UPDATE are    *)
(* one transaction, committed also when the guard matches no row.  d is    *)
(* the swept table, r the new row, g what is promised to k from now on.    *)
(***************************************************************************)
FencedWrite(d, i, k, u, r, g) ==
    /\ IF HoldsClaim(d[i], k, u)
       THEN /\ Commit([d EXCEPT ![i] = r])
            /\ granted' = [granted EXCEPT ![k] = g]
       ELSE /\ Commit(d)
            /\ granted' = granted
    /\ UNCHANGED <<issued, call>>

\* set_status and defer first read that the row is not protected; policy is
\* immutable, and no token of a row is known before the row is inserted.
SetStatusFenced(i, k, s) ==
    /\ Ordinary(directives[i])
    /\ \E t, v, u \in LockedReading :
        LET d == Sweep(directives, t, v)
        IN  /\ t <= v /\ v <= u
            /\ FencedWrite(d, i, k, u, WithStatus(d[i], s, u), Null)

\* A missing dependency raises and rolls the whole transaction back.
DeferFenced(i, k, not_before, deps) ==
    /\ Ordinary(directives[i])
    /\ i \notin deps /\ \A j \in deps : Exists(directives[j])
    /\ not_before # Null \/ deps # {}
    /\ \E t, u \in LockedReading :
        LET d == ReclaimExpired(directives, t)
        IN  /\ t <= u
            /\ FencedWrite(d, i, k, u, Deferred(d[i], not_before, deps), Null)

TouchFenced(i, k, duration) ==
    \E t, v, u \in LockedReading :
        LET d == Sweep(directives, t, v)
        IN  /\ t <= v /\ v <= u /\ u <= LastGrant
            /\ FencedWrite(d, i, k, u, Touched(d[i], u + duration), u + duration)

ParkFenced(i, k) ==
    \E u \in LockedReading :
        FencedWrite(directives, i, k, u, Parked(directives[i]), Null)

(***************************************************************************)
(* Single-statement administrative calls.                                  *)
(***************************************************************************)
ParkForced(i) ==
    /\ directives[i].status = "taken"
    /\ Commit([directives EXCEPT ![i] = Parked(@)])
    /\ Override(i)
    /\ UNCHANGED <<issued, call>>

Reprioritize(i, n) ==
    /\ Exists(directives[i])
    /\ Commit([directives EXCEPT ![i].priority = n])
    /\ UNCHANGED <<issued, call, granted>>

Reap ==
    \E t \in EarlyReading :
        /\ Commit(ReapStale(directives, t))
        /\ granted' = [k \in Tokens |->
                        IF \E i \in Ids : /\ Stale(directives[i], t)
                                          /\ directives[i].token = k
                        THEN Null ELSE granted[k]]
        /\ UNCHANGED <<issued, call>>

(***************************************************************************)
(* Calls made of several transactions.  Their arguments are chosen when    *)
(* they are used: nothing before depends on them.                          *)
(***************************************************************************)
Continue(p, c) == call' = [call EXCEPT ![p] = c]
Return(p) == Continue(p, Idle)

\* require_ordinary_directive is a read of its own; a protected row ends the
\* call here.
Check(p, op, i) ==
    /\ call[p] = Idle
    /\ KnownIds => Exists(directives[i])
    /\ Ordinary(directives[i])
    /\ Continue(p, [op |-> op, id |-> i,
                    step |-> IF op = "unpark" THEN "update" ELSE "reclaim"])
    /\ UNCHANGED <<directives, now, committed, issued, granted>>

\* The calls whose first transaction is the reclaim of expired leases.
Started(p) ==
    IF call[p] = Idle
    THEN [op : {"push", "read", "reap"}, step : {"reclaim"}, id : {Null}]
            \cup [op : {"touch"}, step : {"reclaim"}, id : Ids]
    ELSE {call[p]}

Reclaim(p, t) ==
    /\ \E c \in Started(p) :
        /\ c.step = "reclaim"
        /\ CASE c.op = "reap"              -> Return(p)
             [] c.op \in {"push", "defer"} -> Continue(p, [c EXCEPT !.step = "update"])
             [] OTHER                      -> Continue(p, [c EXCEPT !.step = "promote"])
    /\ Commit(ReclaimExpired(directives, t))
    /\ UNCHANGED <<issued, granted>>

Promote(p, t) ==
    /\ call[p].step = "promote"
    /\ IF call[p].op = "read" THEN Return(p)
                              ELSE Continue(p, [call[p] EXCEPT !.step = "update"])
    /\ Commit(ReclaimDeferred(directives, t))
    /\ UNCHANGED <<issued, granted>>

AtUpdate(p, op) == call[p].step = "update" /\ call[p].op = op

\* The last transaction of a call on one row: an UPDATE without a token.
ForcedWrite(p, matches, r) ==
    LET i == call[p].id
    IN  /\ IF matches
           THEN Commit([directives EXCEPT ![i] = r]) /\ Override(i)
           ELSE Commit(directives) /\ granted' = granted
        /\ Return(p)
        /\ issued' = issued

SetStatusForced(p, s) ==
    /\ AtUpdate(p, "set_status")
    /\ LET r == directives[call[p].id]
       IN  /\ s \in {"pending", "taken"} => r.requeue_count < MaxRequeue
           /\ \E u \in EarlyReading : ForcedWrite(p, Exists(r), WithStatus(r, s, u))

DeferForced(p, not_before, deps) ==
    /\ AtUpdate(p, "defer")
    /\ call[p].id \notin deps /\ \A j \in deps : Exists(directives[j])
    /\ not_before # Null \/ deps # {}
    /\ LET r == directives[call[p].id]
       IN  ForcedWrite(p, Exists(r), Deferred(r, not_before, deps))

\* Mutant: the UPDATE of unpark has no status in its WHERE clause.
UnparkAnything(p) ==
    /\ AtUpdate(p, "unpark")
    /\ LET r == directives[call[p].id]
       IN  ForcedWrite(p, Exists(r), Unparked(r))

Unpark(p) ==
    /\ AtUpdate(p, "unpark")
    /\ LET r == directives[call[p].id]
       IN  ForcedWrite(p, r.status = "parked", Unparked(r))

\* The holder is not told of a forced extension; what it is promised is the
\* lease the service last wrote.
TouchForced(p, duration) ==
    /\ AtUpdate(p, "touch")
    /\ LET i == call[p].id
           r == directives[i]
       IN  \E u \in EarlyReading :
            /\ u <= LastGrant
            /\ IF r.status = "taken"
               THEN /\ Commit([directives EXCEPT ![i] = Touched(r, u + duration)])
                    /\ granted' = [k \in Tokens |->
                                    IF k = r.token THEN u + duration ELSE granted[k]]
               ELSE Commit(directives) /\ granted' = granted
    /\ Return(p)
    /\ issued' = issued

Push(p, policy, lane, priority, parent) ==
    /\ AtUpdate(p, "push")
    /\ ParentExists(directives, parent)
    /\ \E i \in Ids :
        /\ IsNextId(directives, i)
        /\ Commit([directives EXCEPT ![i] = Pending(policy, lane, priority, parent)])
    /\ Return(p)
    /\ UNCHANGED <<issued, granted>>

\* A process dies, or its call raises, between two of its transactions.
Abandon(p) ==
    /\ call[p] # Idle
    /\ Return(p)
    /\ UNCHANGED <<directives, now, committed, issued, granted>>

Tick ==
    /\ now < MaxTime
    /\ now' = now + 1
    /\ UNCHANGED <<directives, committed, issued, call, granted>>

-----------------------------------------------------------------------------
\* Any worker, with any token handed out so far and for any directive.
WorkerStep ==
    \/ \E lane \in Lanes, policy \in Policies, duration \in Leases :
            Take(lane, policy, duration)
    \/ \E lane \in Lanes, policy \in Policies : TakeNothing(lane, policy)
    \/ \E i \in Ids, k \in 1..issued :
        \/ \E s \in SetStatuses : SetStatusFenced(i, k, s)
        \/ \E not_before \in DeferTimes, deps \in SUBSET Ids :
                DeferFenced(i, k, not_before, deps)
        \/ \E duration \in Leases : TouchFenced(i, k, duration)
        \/ ParkFenced(i, k)

OperatorStep ==
    \/ \E i \in Ids : ParkForced(i)
    \/ \E i \in Ids, n \in Priorities : Reprioritize(i, n)
    \/ Reap

CallStep(p) ==
    \/ \E op \in {"set_status", "defer", "unpark"}, i \in Ids : Check(p, op, i)
    \/ \E t \in EarlyReading : Reclaim(p, t)
    \/ \E t \in EarlyReading : Promote(p, t)
    \/ \E s \in SetStatuses : SetStatusForced(p, s)
    \/ \E not_before \in DeferTimes, deps \in SUBSET Ids :
            DeferForced(p, not_before, deps)
    \/ Unpark(p)
    \/ \E duration \in Leases : TouchForced(p, duration)
    \/ \E policy \in Policies, lane \in Lanes, n \in Priorities,
          parent \in Ids \cup {Null} : Push(p, policy, lane, n, parent)
    \/ Abandon(p)

Next ==
    \/ WorkerStep
    \/ OperatorStep
    \/ \E p \in Procs : CallStep(p)
    \/ Tick

Spec == Init /\ [][Next]_vars
=============================================================================
