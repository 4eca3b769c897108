---------------------------- MODULE QueueProofs -----------------------------
(***************************************************************************)
(* Types of the queue: one lemma per operator that rewrites rows or the    *)
(* table, one per group of actions.  Below, the leases.                    *)
(***************************************************************************)
EXTENDS QueueProperties, TLAPS

LEMMA AbsentType == Absent \in Directive
  BY DirectivesAssumption DEF Absent, Pending, Directive, Policies, Statuses, Terminal, Ids, Null

LEMMA PendingType ==
    ASSUME NEW policy \in Policies, NEW lane \in Lanes,
           NEW priority \in Priorities, NEW parent \in Ids \cup {Null}
    PROVE  Pending(policy, lane, priority, parent) \in Directive
  BY DEF Pending, Directive, Policies, Statuses, Terminal, Ids, Null

LEMMA UnclaimedType ==
    ASSUME NEW r \in Directive
    PROVE  Unclaimed(r) \in Directive
  BY DEF Unclaimed, Directive, Null

LEMMA CountedReturnType ==
    ASSUME NEW r \in Directive
    PROVE  [r EXCEPT !.status = "pending", !.requeue_count = @ + 1] \in Directive
  <1>1. r.requeue_count + 1 \in Nat
    BY DEF Directive
  <1> DEFINE n == r.requeue_count + 1
  <1>2. n \in Nat
    BY <1>1
  <1> HIDE DEF n
  <1>3. [r EXCEPT !.status = "pending", !.requeue_count = n] \in Directive
    BY <1>2 DEF Directive, Statuses
  <1> QED BY <1>3 DEF n

LEMMA ReleaseOrHoldType ==
    ASSUME NEW r \in Directive
    PROVE  ReleaseOrHold(r) \in Directive
  <1>1. [r EXCEPT !.status = "parked"] \in Directive
    BY DEF Directive, Statuses
  <1> QED BY <1>1, UnclaimedType, CountedReturnType DEF ReleaseOrHold

LEMMA RowTypes ==
    ASSUME NEW r \in Directive, NEW s \in Statuses, NEW k \in Nat,
           NEW until \in Nat, NEW t \in Nat, NEW deps \in SUBSET Ids
    PROVE  /\ Taken(r, k, until, t) \in Directive
           /\ WithStatus(r, s, t) \in Directive
           /\ Deferred(r, t, deps) \in Directive
           /\ Touched(r, until) \in Directive
           /\ Parked(r) \in Directive
           /\ Unparked(r) \in Directive
           /\ Promoted(r) \in Directive
  <1> USE DEF Directive, Unclaimed, Null
  <1>1. Taken(r, k, until, t) \in Directive
    BY DEF Taken, Statuses
  <1>2. WithStatus(r, s, t) \in Directive
    <2>1. Requeued(r) \in Directive
      <3> DEFINE q == Unclaimed(r)
      <3>1. q \in Directive
        BY UnclaimedType
      <3> HIDE DEF q
      <3> DEFINE n == q.requeue_count + 1
      <3>2. n \in Nat
        BY <3>1
      <3> HIDE DEF n
      <3>3. [q EXCEPT !.status = "pending", !.not_before = Null,
                      !.blocked_by = {}, !.requeue_count = n] \in Directive
        BY <3>1, <3>2 DEF Statuses
      <3> QED BY <3>3 DEF Requeued, q, n
    <2>2. Completed(r) \in Directive
      BY DEF Completed, Statuses, Terminal
    <2>3. [r EXCEPT !.status = s, !.taken_at = t, !.token = Null, !.lease = Null]
            \in Directive
      OBVIOUS
    <2> QED BY <2>1, <2>2, <2>3, Zenon DEF WithStatus
  <1>3. Deferred(r, t, deps) \in Directive
    BY DEF Deferred, Statuses
  <1>4. Touched(r, until) \in Directive
    BY DEF Touched
  <1>5. Parked(r) \in Directive
    BY DEF Parked, Statuses
  <1>6. Unparked(r) \in Directive
    BY DEF Unparked, Statuses
  <1>7. Promoted(r) \in Directive
    BY DEF Promoted, Statuses
  <1> QED BY <1>1, <1>2, <1>3, <1>4, <1>5, <1>6, <1>7

-----------------------------------------------------------------------------
(***************************************************************************)
(* The sweeps keep the table a table.                                      *)
(***************************************************************************)
Table == [Ids -> Directive]

LEMMA ReclaimExpiredType ==
    ASSUME NEW d \in Table, NEW t \in Nat
    PROVE  ReclaimExpired(d, t) \in Table
  BY ReleaseOrHoldType DEF ReclaimExpired, Table

LEMMA ReapStaleType ==
    ASSUME NEW d \in Table, NEW t \in Nat
    PROVE  ReapStale(d, t) \in Table
  BY ReleaseOrHoldType DEF ReapStale, Table

LEMMA ReclaimDeferredType ==
    ASSUME NEW d \in Table, NEW t \in Nat
    PROVE  ReclaimDeferred(d, t) \in Table
  <1>1. ASSUME NEW i \in Ids
        PROVE  Promoted(d[i]) \in Directive
    <2>1. "done" \in Statuses /\ {} \in SUBSET Ids /\ d[i] \in Directive
      BY DEF Statuses, Terminal, Table
    <2> QED BY <2>1, RowTypes, t \in Nat
  <1> QED BY <1>1 DEF ReclaimDeferred, Table

LEMMA SweepType ==
    ASSUME NEW d \in Table, NEW t \in Nat, NEW v \in Nat
    PROVE  Sweep(d, t, v) \in Table
  BY ReclaimExpiredType, ReclaimDeferredType DEF Sweep

LEMMA WriteType ==
    ASSUME NEW d \in Table, NEW i \in Ids, NEW r \in Directive
    PROVE  [d EXCEPT ![i] = r] \in Table
  BY DEF Table

LEMMA CommitType ==
    ASSUME TypeOK, NEW d \in Table, Commit(d)
    PROVE  /\ directives' \in [Ids -> Directive]
           /\ now' \in 1..MaxTime
           /\ committed' \in 1..now'
  BY DEF TypeOK, Commit, Table

LEMMA ReadingType ==
    ASSUME TypeOK
    PROVE  /\ EarlyReading \subseteq Nat
           /\ LockedReading \subseteq Nat
           /\ now \in Nat /\ committed \in Nat /\ issued \in Nat
           /\ directives \in Table
  BY QueueAssumption DEF TypeOK, EarlyReading, LockedReading, Table

LEMMA RowCallType ==
    ASSUME TypeOK, NEW p \in Procs, NEW op, AtUpdate(p, op),
           op \in {"touch", "set_status", "defer", "unpark"}
    PROVE  call[p].id \in Ids /\ directives[call[p].id] \in Directive
  BY DEF TypeOK, AtUpdate, Calls, TableCalls, RowCalls, Idle

LEMMA ContinueType ==
    ASSUME TypeOK, NEW p \in Procs, NEW c \in Calls, Continue(p, c)
    PROVE  call' \in [Procs -> Calls]
  BY DEF TypeOK, Continue

LEMMA ReturnType ==
    ASSUME TypeOK, NEW p \in Procs, Return(p)
    PROVE  call' \in [Procs -> Calls]
  BY ContinueType DEF Return, Calls

LEMMA OverrideType ==
    ASSUME TypeOK, NEW i, Override(i)
    PROVE  granted' \in [Tokens -> Nat]
  BY DEF TypeOK, Override, Null

(***************************************************************************)
(* Type correctness: every reachable table is a table of well-formed rows, *)
(* whatever the constants.                                                 *)
(***************************************************************************)
LEMMA FencedWriteType ==
    ASSUME TypeOK, NEW d \in Table, NEW i \in Ids, NEW k \in Tokens, NEW u,
           NEW r \in Directive, NEW g \in Nat, FencedWrite(d, i, k, u, r, g)
    PROVE  TypeOK'
  <1>1. CASE HoldsClaim(d[i], k, u)
    <2>1. Commit([d EXCEPT ![i] = r])
      BY <1>1 DEF FencedWrite
    <2>2. [d EXCEPT ![i] = r] \in Table
      BY WriteType
    <2> QED BY <1>1, <2>1, <2>2, CommitType DEF FencedWrite, TypeOK
  <1>2. CASE ~HoldsClaim(d[i], k, u)
    BY <1>2, CommitType DEF FencedWrite, TypeOK
  <1> QED BY <1>1, <1>2

LEMMA ForcedWriteType ==
    ASSUME TypeOK, NEW p \in Procs, NEW matches \in BOOLEAN, NEW r \in Directive,
           call[p].id \in Ids, ForcedWrite(p, matches, r)
    PROVE  TypeOK'
  <1> DEFINE i == call[p].id
  <1>1. CASE matches
    <2>1. Commit([directives EXCEPT ![i] = r]) /\ Override(i)
      BY <1>1 DEF ForcedWrite
    <2>2. [directives EXCEPT ![i] = r] \in Table
      BY WriteType, ReadingType
    <2> QED BY <2>1, <2>2, CommitType, OverrideType, ReturnType DEF ForcedWrite, TypeOK
  <1>2. CASE ~matches
    BY <1>2, CommitType, ReturnType, ReadingType DEF ForcedWrite, TypeOK
  <1> QED BY <1>1, <1>2

LEMMA InitType == Init => TypeOK
  <1> SUFFICES ASSUME Init PROVE TypeOK
    OBVIOUS
  <1>1. directives \in [Ids -> Directive]
    BY AbsentType DEF Init
  <1> QED BY <1>1, QueueAssumption DEF Init, TypeOK, Calls, Null

LEMMA TakeType ==
    ASSUME TypeOK, NEW lane \in Lanes, NEW policy \in Policies,
           NEW duration \in Leases, Take(lane, policy, duration)
    PROVE  TypeOK'
  <1> DEFINE k == issued + 1
  <1>1. PICK t \in LockedReading, v \in LockedReading, u \in LockedReading, i \in Ids :
            /\ Commit([Sweep(directives, t, v) EXCEPT ![i] = Taken(@, k, u + duration, u)])
            /\ granted' = [granted EXCEPT ![k] = u + duration]
    BY DEF Take
  <1>2. k \in Tokens /\ issued' = k /\ call' = call
    BY DEF Take
  <1> DEFINE d == Sweep(directives, t, v)
  <1>3. d \in Table /\ k \in Nat /\ u \in Nat /\ u + duration \in Nat
    <2>1. d \in Table
      BY ReadingType, SweepType
    <2>2. duration \in Nat
      BY QueueAssumption
    <2> QED BY <2>1, <2>2, ReadingType
  <1>4. [d EXCEPT ![i] = Taken(@, k, u + duration, u)] \in Table
    <2> HIDE DEF d
    <2>1. d[i] \in Directive /\ "done" \in Statuses /\ {} \in SUBSET Ids
      BY <1>3 DEF Table, Statuses, Terminal
    <2>2. Taken(d[i], k, u + duration, u) \in Directive
      BY <1>3, <2>1, RowTypes
    <2> QED BY <1>3, <2>2, WriteType
  <1> HIDE DEF d
  <1>5. issued' \in 0..MaxTokens
    BY <1>2, QueueAssumption DEF Tokens
  <1> QED BY <1>1, <1>2, <1>3, <1>4, <1>5, CommitType DEF TypeOK, d

LEMMA TakeNothingType ==
    ASSUME TypeOK, NEW lane, NEW policy, TakeNothing(lane, policy)
    PROVE  TypeOK'
  <1>1. PICK t \in LockedReading, v \in LockedReading : Commit(Sweep(directives, t, v))
    BY DEF TakeNothing
  <1>2. Sweep(directives, t, v) \in Table
    BY ReadingType, SweepType
  <1> QED BY <1>1, <1>2, CommitType DEF TakeNothing, TypeOK

LEMMA FencedStepType ==
    ASSUME TypeOK, NEW i \in Ids, NEW k \in 1..issued,
           \/ \E s \in SetStatuses : SetStatusFenced(i, k, s)
           \/ \E not_before \in DeferTimes, deps \in SUBSET Ids :
                    DeferFenced(i, k, not_before, deps)
           \/ \E duration \in Leases : TouchFenced(i, k, duration)
           \/ ParkFenced(i, k)
    PROVE  TypeOK'
  <1> USE ReadingType
  <1>0. k \in Tokens /\ Null \in Nat /\ {} \in SUBSET Ids
    BY QueueAssumption DEF TypeOK, Tokens, Null
  <1>1. ASSUME NEW s \in SetStatuses, SetStatusFenced(i, k, s)
        PROVE  TypeOK'
    <2>1. PICK t \in LockedReading, v \in LockedReading, u \in LockedReading :
            LET d == Sweep(directives, t, v)
            IN  FencedWrite(d, i, k, u, WithStatus(d[i], s, u), Null)
      BY <1>1 DEF SetStatusFenced
    <2> DEFINE d == Sweep(directives, t, v)
    <2>2. d \in Table /\ u \in Nat /\ s \in Statuses
      BY SweepType, QueueAssumption
    <2> HIDE DEF d
    <2>3. WithStatus(d[i], s, u) \in Directive
      BY <1>0, <2>2, RowTypes DEF Table
    <2> QED BY <1>0, <2>1, <2>2, <2>3, FencedWriteType DEF d
  <1>2. ASSUME NEW not_before \in DeferTimes, NEW deps \in SUBSET Ids,
               DeferFenced(i, k, not_before, deps)
        PROVE  TypeOK'
    <2>1. PICK t \in LockedReading, u \in LockedReading :
            LET d == ReclaimExpired(directives, t)
            IN  FencedWrite(d, i, k, u, Deferred(d[i], not_before, deps), Null)
      BY <1>2 DEF DeferFenced
    <2> DEFINE d == ReclaimExpired(directives, t)
    <2>2. d \in Table /\ not_before \in Nat /\ "done" \in Statuses
      BY ReclaimExpiredType, QueueAssumption DEF Statuses, Terminal
    <2> HIDE DEF d
    <2>3. Deferred(d[i], not_before, deps) \in Directive
      BY <1>0, <2>2, RowTypes DEF Table
    <2> QED BY <1>0, <2>1, <2>2, <2>3, FencedWriteType DEF d
  <1>3. ASSUME NEW duration \in Leases, TouchFenced(i, k, duration)
        PROVE  TypeOK'
    <2>1. PICK t \in LockedReading, v \in LockedReading, u \in LockedReading :
            LET d == Sweep(directives, t, v)
            IN  FencedWrite(d, i, k, u, Touched(d[i], u + duration), u + duration)
      BY <1>3 DEF TouchFenced
    <2> DEFINE d == Sweep(directives, t, v)
    <2>2. d \in Table /\ u + duration \in Nat /\ "done" \in Statuses
      <3>1. d \in Table
        BY SweepType
      <3>2. duration \in Nat
        BY QueueAssumption
      <3> QED BY <3>1, <3>2 DEF Statuses, Terminal
    <2> HIDE DEF d
    <2>3. Touched(d[i], u + duration) \in Directive
      BY <1>0, <2>2, RowTypes DEF Table
    <2> QED BY <1>0, <2>1, <2>2, <2>3, FencedWriteType DEF d
  <1>4. ASSUME ParkFenced(i, k)
        PROVE  TypeOK'
    <2>1. "done" \in Statuses
      BY DEF Statuses, Terminal
    <2>2. Parked(directives[i]) \in Directive
      BY <1>0, <2>1, RowTypes DEF Table
    <2> QED BY <1>0, <1>4, <2>2, FencedWriteType DEF ParkFenced
  <1> QED BY <1>1, <1>2, <1>3, <1>4

LEMMA OperatorStepType ==
    ASSUME TypeOK, OperatorStep
    PROVE  TypeOK'
  <1> USE ReadingType
  <1>1. ASSUME NEW i \in Ids, ParkForced(i)
        PROVE  TypeOK'
    <2>1. "done" \in Statuses /\ Null \in Nat /\ {} \in SUBSET Ids
          /\ directives[i] \in Directive
      BY DEF Statuses, Terminal, Table, Null
    <2>2. Parked(directives[i]) \in Directive
      BY <2>1, RowTypes
    <2>3. [directives EXCEPT ![i] = Parked(@)] \in Table
      BY <2>2, WriteType
    <2> QED BY <1>1, <2>3, CommitType, OverrideType DEF ParkForced, TypeOK
  <1>2. ASSUME NEW i \in Ids, NEW n \in Priorities, Reprioritize(i, n)
        PROVE  TypeOK'
    <2>1. [directives EXCEPT ![i].priority = n] \in Table
      BY DEF Table, Directive
    <2> QED BY <1>2, <2>1, CommitType DEF Reprioritize, TypeOK
  <1>3. ASSUME Reap
        PROVE  TypeOK'
    <2>1. PICK t \in EarlyReading :
            /\ Commit(ReapStale(directives, t))
            /\ granted' = [k \in Tokens |->
                            IF \E i \in Ids : /\ Stale(directives[i], t)
                                              /\ directives[i].token = k
                            THEN Null ELSE granted[k]]
            /\ UNCHANGED <<issued, call>>
      BY <1>3 DEF Reap
    <2>2. ReapStale(directives, t) \in Table
      BY ReapStaleType
    <2>3. granted' \in [Tokens -> Nat]
      BY <2>1 DEF TypeOK, Null
    <2> QED BY <2>1, <2>2, <2>3, CommitType DEF TypeOK
  <1> QED BY <1>1, <1>2, <1>3 DEF OperatorStep

LEMMA StartedType ==
    ASSUME TypeOK, NEW p \in Procs
    PROVE  Started(p) \subseteq Calls
  BY DEF Started, TypeOK, Calls, TableCalls, RowCalls, Steps

LEMMA NextStepType ==
    ASSUME NEW c \in Calls, c.step \in Steps, NEW step \in Steps
    PROVE  [c EXCEPT !.step = step] \in Calls
  BY DEF Calls, TableCalls, RowCalls, Steps, Idle

LEMMA CallStepType ==
    ASSUME TypeOK, NEW p \in Procs, CallStep(p)
    PROVE  TypeOK'
  <1> USE ReadingType
  <1>0. /\ "done" \in Statuses /\ Null \in Nat /\ {} \in SUBSET Ids
        /\ EarlyReading \subseteq Nat
    BY DEF Statuses, Terminal, Null
  <1>1. ASSUME NEW op \in {"set_status", "defer", "unpark"}, NEW i \in Ids,
               Check(p, op, i)
        PROVE  TypeOK'
    <2>1. [op |-> op, id |-> i,
           step |-> IF op = "unpark" THEN "update" ELSE "reclaim"] \in Calls
      BY DEF Calls, RowCalls, Steps
    <2> QED BY <1>1, <2>1, ContinueType DEF Check, TypeOK
  <1>2. ASSUME NEW t \in EarlyReading, Reclaim(p, t)
        PROVE  TypeOK'
    <2>1. PICK c \in Started(p) :
            /\ c.step = "reclaim"
            /\ CASE c.op = "reap"              -> Return(p)
                 [] c.op \in {"push", "defer"} -> Continue(p, [c EXCEPT !.step = "update"])
                 [] OTHER                      -> Continue(p, [c EXCEPT !.step = "promote"])
      BY <1>2 DEF Reclaim
    <2>2. /\ [c EXCEPT !.step = "update"] \in Calls
          /\ [c EXCEPT !.step = "promote"] \in Calls
      BY <2>1, StartedType, NextStepType DEF Steps
    <2>3. call' \in [Procs -> Calls]
      BY <2>1, <2>2, ContinueType, ReturnType
    <2>4. ReclaimExpired(directives, t) \in Table
      BY ReclaimExpiredType
    <2> QED BY <1>2, <2>3, <2>4, CommitType DEF Reclaim, TypeOK
  <1>3. ASSUME NEW t \in EarlyReading, Promote(p, t)
        PROVE  TypeOK'
    <2>1. call[p] \in Calls /\ call[p].step \in Steps /\ "update" \in Steps
      BY <1>3 DEF Promote, TypeOK, Steps
    <2>2. [call[p] EXCEPT !.step = "update"] \in Calls
      BY <2>1, NextStepType
    <2>3. call' \in [Procs -> Calls]
      BY <1>3, <2>2, ContinueType, ReturnType DEF Promote
    <2>4. ReclaimDeferred(directives, t) \in Table
      BY ReclaimDeferredType
    <2> QED BY <1>3, <2>3, <2>4, CommitType DEF Promote, TypeOK
  <1>4. ASSUME NEW s \in SetStatuses, SetStatusForced(p, s)
        PROVE  TypeOK'
    <2> DEFINE r == directives[call[p].id]
    <2>1. call[p].id \in Ids /\ r \in Directive
      BY <1>4, RowCallType DEF SetStatusForced
    <2>2. PICK u \in EarlyReading : ForcedWrite(p, Exists(r), WithStatus(r, s, u))
      BY <1>4 DEF SetStatusForced
    <2>3. s \in Statuses /\ u \in Nat /\ Exists(r) \in BOOLEAN
      BY QueueAssumption DEF Exists
    <2> HIDE DEF r
    <2>4. WithStatus(r, s, u) \in Directive
      BY <1>0, <2>1, <2>3, RowTypes
    <2> QED BY <2>1, <2>2, <2>3, <2>4, ForcedWriteType
  <1>5. ASSUME NEW not_before \in DeferTimes, NEW deps \in SUBSET Ids,
               DeferForced(p, not_before, deps)
        PROVE  TypeOK'
    <2> DEFINE r == directives[call[p].id]
    <2>1. call[p].id \in Ids /\ r \in Directive
      BY <1>5, RowCallType DEF DeferForced
    <2>2. ForcedWrite(p, Exists(r), Deferred(r, not_before, deps))
      BY <1>5 DEF DeferForced
    <2>3. not_before \in Nat /\ Exists(r) \in BOOLEAN
      BY QueueAssumption DEF Exists
    <2> HIDE DEF r
    <2>4. Deferred(r, not_before, deps) \in Directive
      BY <1>0, <2>1, <2>3, RowTypes
    <2> QED BY <2>1, <2>2, <2>3, <2>4, ForcedWriteType
  <1>6. ASSUME Unpark(p)
        PROVE  TypeOK'
    <2> DEFINE r == directives[call[p].id]
    <2>1. call[p].id \in Ids /\ r \in Directive
      BY <1>6, RowCallType DEF Unpark
    <2>2. ForcedWrite(p, r.status = "parked", Unparked(r))
      BY <1>6 DEF Unpark
    <2>3. Unparked(r) \in Directive
      <3> HIDE DEF r
      <3> QED BY <1>0, <2>1, RowTypes
    <2> QED BY <2>1, <2>2, <2>3, ForcedWriteType
  <1>7. ASSUME NEW duration \in Leases, TouchForced(p, duration)
        PROVE  TypeOK'
    <2> DEFINE i == call[p].id
               r == directives[i]
    <2>1. i \in Ids /\ r \in Directive
      BY <1>7, RowCallType DEF TouchForced
    <2>2. PICK u \in EarlyReading :
            IF r.status = "taken"
            THEN /\ Commit([directives EXCEPT ![i] = Touched(r, u + duration)])
                 /\ granted' = [k \in Tokens |->
                                 IF k = r.token THEN u + duration ELSE granted[k]]
            ELSE Commit(directives) /\ granted' = granted
      BY <1>7 DEF TouchForced
    <2>3. u + duration \in Nat
      BY QueueAssumption
    <2> HIDE DEF r
    <2>4. Touched(r, u + duration) \in Directive
      BY <1>0, <2>1, <2>3, RowTypes
    <2>5. [directives EXCEPT ![i] = Touched(r, u + duration)] \in Table
      BY <2>1, <2>4, WriteType
    <2>6. granted' \in [Tokens -> Nat]
      BY <2>2, <2>3 DEF TypeOK
    <2> QED BY <1>7, <2>2, <2>5, <2>6, CommitType, ReturnType DEF TouchForced, TypeOK
  <1>8. ASSUME NEW policy \in Policies, NEW lane \in Lanes, NEW n \in Priorities,
               NEW parent \in Ids \cup {Null}, Push(p, policy, lane, n, parent)
        PROVE  TypeOK'
    <2>1. PICK i \in Ids :
            Commit([directives EXCEPT ![i] = Pending(policy, lane, n, parent)])
      BY <1>8 DEF Push
    <2>2. [directives EXCEPT ![i] = Pending(policy, lane, n, parent)] \in Table
      BY PendingType, WriteType
    <2> QED BY <1>8, <2>1, <2>2, CommitType, ReturnType DEF Push, TypeOK
  <1>9. ASSUME Abandon(p)
        PROVE  TypeOK'
    BY <1>9, ReturnType DEF Abandon, TypeOK
  <1> QED BY <1>1, <1>2, <1>3, <1>4, <1>5, <1>6, <1>7, <1>8, <1>9 DEF CallStep

LEMMA NextType == TypeOK /\ [Next]_vars => TypeOK'
  <1> SUFFICES ASSUME TypeOK, [Next]_vars PROVE TypeOK'
    OBVIOUS
  <1>1. CASE WorkerStep
    BY <1>1, TakeType, TakeNothingType, FencedStepType DEF WorkerStep
  <1>2. CASE OperatorStep
    BY <1>2, OperatorStepType
  <1>3. ASSUME NEW p \in Procs, CallStep(p) PROVE TypeOK'
    BY <1>3, CallStepType
  <1>4. CASE Tick
    BY <1>4, QueueAssumption DEF Tick, TypeOK
  <1>5. CASE UNCHANGED vars
    BY <1>5 DEF vars, TypeOK
  <1> QED BY <1>1, <1>2, <1>3, <1>4, <1>5 DEF Next

\* Type correctness: the table stays a table of well-formed rows under every
\* interleaving of calls, for every number of directives, tokens and
\* processes; next and the calls' bookkeeping rely on it.
THEOREM TypeCorrect == Spec => []TypeOK
  BY InitType, NextType, PTL DEF Spec

-----------------------------------------------------------------------------
(***************************************************************************)
(* The queue honours the leases it promised.  LeaseHonoured is inductive   *)
(* relative to TypeOK: no step needs to know how the claim came about.     *)
(***************************************************************************)
\* Row i is held by token k under a lease that has not run out.
LiveUnder(i, k) ==
    /\ directives[i].status = "taken"
    /\ directives[i].token = k
    /\ directives[i].lease > now

LEMMA SweepsKeepLive ==
    ASSUME NEW d \in Table, NEW i \in Ids, NEW t \in Nat, NEW v \in Nat,
           d[i].status = "taken", d[i].lease > t
    PROVE  /\ ReclaimExpired(d, t)[i] = d[i]
           /\ Sweep(d, t, v)[i] = d[i]
           /\ ReclaimDeferred(d, t)[i] = d[i]
  <1>1. d[i].lease \in Nat
    BY DEF Table, Directive
  <1>2. ReclaimExpired(d, t)[i] = d[i]
    BY <1>1 DEF ReclaimExpired, Expired
  <1>3. ASSUME NEW e, NEW w, e[i].status = "taken"
        PROVE  ReclaimDeferred(e, w)[i] = e[i]
    BY <1>3 DEF ReclaimDeferred, Ready
  <1> QED BY <1>2, <1>3 DEF Sweep

\* What a step must do to keep every promise: leave the rows of the tokens
\* whose promise stands alone, or write a row that backs the new promise.
LEMMA PromisesKept ==
    ASSUME TypeOK, LeaseHonoured, now' \in Nat, now' >= now,
           \A k \in Tokens : granted'[k] > now' =>
                \/ /\ granted'[k] = granted[k]
                   /\ \A i \in Ids : LiveUnder(i, k) => directives'[i] = directives[i]
                \/ \E i \in Ids : /\ directives'[i].status = "taken"
                                  /\ directives'[i].token = k
                                  /\ directives'[i].lease = granted'[k]
    PROVE  LeaseHonoured'
  <1> SUFFICES ASSUME NEW k \in Tokens, granted'[k] > now',
                      granted'[k] = granted[k],
                      \A i \in Ids : LiveUnder(i, k) => directives'[i] = directives[i]
               PROVE  \E i \in Ids : /\ directives'[i].status = "taken"
                                     /\ directives'[i].token = k
                                     /\ directives'[i].lease = granted'[k]
    BY DEF LeaseHonoured
  <1>1. granted[k] > now
    BY DEF TypeOK
  <1>2. PICK i \in Ids : /\ directives[i].status = "taken"
                         /\ directives[i].token = k
                         /\ directives[i].lease = granted[k]
    BY <1>1 DEF LeaseHonoured
  <1>3. directives'[i] = directives[i]
    BY <1>1, <1>2 DEF LiveUnder
  <1> QED BY <1>2, <1>3

\* The token guard is what protects the other holders: the row a fenced call
\* rewrites is the caller's own.
LEMMA FencedWriteHonours ==
    ASSUME TypeOK, LeaseHonoured, NEW d \in Table, NEW i \in Ids,
           NEW k \in Tokens, NEW u, NEW r, NEW g, FencedWrite(d, i, k, u, r, g),
           \A j \in Ids, n \in Tokens : LiveUnder(j, n) => d[j] = directives[j],
           g # Null => r.status = "taken" /\ r.token = k /\ r.lease = g
    PROVE  LeaseHonoured'
  <1>0. now' = now /\ now \in Nat /\ granted \in [Tokens -> Nat]
    BY DEF TypeOK, FencedWrite, Commit
  <1>1. CASE HoldsClaim(d[i], k, u)
    <2>1. directives' = [d EXCEPT ![i] = r] /\ granted' = [granted EXCEPT ![k] = g]
      BY <1>1 DEF FencedWrite, Commit
    <2>2. ASSUME NEW n \in Tokens \ {k}, NEW j \in Ids, LiveUnder(j, n)
          PROVE  directives'[j] = directives[j]
      <3>1. d[j] = directives[j] /\ d[j].token = n
        BY <2>2 DEF LiveUnder
      <3>2. j # i
        BY <1>1, <3>1 DEF HoldsClaim
      <3> QED BY <2>1, <3>1, <3>2 DEF Table
    <2>3. \A n \in Tokens \ {k} : granted'[n] = granted[n]
      BY <1>0, <2>1
    <2>4. granted'[k] = g /\ directives'[i] = r
      BY <1>0, <2>1 DEF Table
    <2>5. granted'[k] > now' =>
            /\ directives'[i].status = "taken"
            /\ directives'[i].token = k
            /\ directives'[i].lease = granted'[k]
      BY <1>0, <2>4 DEF Null
    <2> QED BY <1>0, <2>2, <2>3, <2>5, PromisesKept
  <1>2. CASE ~HoldsClaim(d[i], k, u)
    <2>1. directives' = d /\ granted' = granted
      BY <1>2 DEF FencedWrite, Commit
    <2> QED BY <1>0, <2>1, PromisesKept
  <1> QED BY <1>1, <1>2

LEMMA ReadingBound ==
    ASSUME TypeOK
    PROVE  /\ \A t \in EarlyReading \cup LockedReading : t \in Nat /\ t <= now
           /\ now \in Nat
           /\ \A i \in Ids : directives[i].lease \in Nat
  BY DEF TypeOK, EarlyReading, LockedReading, Directive

LEMMA SweptRowsLive ==
    ASSUME TypeOK, NEW t \in EarlyReading \cup LockedReading,
           NEW v \in EarlyReading \cup LockedReading, NEW j \in Ids, NEW n,
           LiveUnder(j, n)
    PROVE  /\ Sweep(directives, t, v)[j] = directives[j]
           /\ ReclaimExpired(directives, t)[j] = directives[j]
           /\ ReclaimDeferred(directives, t)[j] = directives[j]
  <1>1. directives[j].status = "taken" /\ directives[j].lease > t
    BY ReadingBound DEF LiveUnder
  <1> QED BY <1>1, ReadingType, ReadingBound, SweepsKeepLive

LEMMA TakeHonours ==
    ASSUME TypeOK, LeaseHonoured, NEW lane \in Lanes, NEW policy \in Policies,
           NEW duration \in Leases, Take(lane, policy, duration)
    PROVE  LeaseHonoured'
  <1> DEFINE k == issued + 1
  <1>1. PICK t \in LockedReading, v \in LockedReading, u \in LockedReading, i \in Ids :
            /\ IsHead(Sweep(directives, t, v), i, lane, policy)
            /\ Commit([Sweep(directives, t, v) EXCEPT ![i] = Taken(@, k, u + duration, u)])
            /\ granted' = [granted EXCEPT ![k] = u + duration]
    BY DEF Take
  <1> DEFINE d == Sweep(directives, t, v)
  <1>2. d \in Table
    BY ReadingType, SweepType
  <1>3. now' = now /\ now \in Nat /\ k \in Tokens /\ granted \in [Tokens -> Nat]
    BY <1>1 DEF Take, TypeOK, Commit
  <1>4. directives' = [d EXCEPT ![i] = Taken(d[i], k, u + duration, u)]
    BY <1>1 DEF Commit
  <1>5. d[i].status = "pending" /\ d[i] \in Directive
    BY <1>1, <1>2 DEF IsHead, Candidate, Table
  <1>6. ASSUME NEW n \in Tokens, NEW j \in Ids, LiveUnder(j, n)
        PROVE  directives'[j] = directives[j]
    <2>1. d[j] = directives[j]
      BY <1>6, SweptRowsLive
    <2> HIDE DEF d
    <2>2. j # i
      BY <1>5, <1>6, <2>1 DEF LiveUnder
    <2> QED BY <1>2, <1>4, <2>1, <2>2 DEF Table
  <1>7. /\ directives'[i].status = "taken"
        /\ directives'[i].token = k
        /\ directives'[i].lease = granted'[k]
    <2> HIDE DEF d
    <2>1. directives'[i] = Taken(d[i], k, u + duration, u)
      BY <1>2, <1>4 DEF Table
    <2>2. granted'[k] = u + duration
      BY <1>1, <1>3
    <2> QED BY <1>5, <2>1, <2>2 DEF Taken, Directive
  <1>8. \A n \in Tokens \ {k} : granted'[n] = granted[n]
    BY <1>1, <1>3
  <1> HIDE DEF d
  <1> QED BY <1>3, <1>6, <1>7, <1>8, PromisesKept

\* Steps that only sweep the table, and promise nothing new.
LEMMA SweepHonours ==
    ASSUME TypeOK, LeaseHonoured, NEW t \in EarlyReading \cup LockedReading,
           NEW v \in EarlyReading \cup LockedReading,
           granted' = granted,
           \/ Commit(Sweep(directives, t, v))
           \/ Commit(ReclaimExpired(directives, t))
           \/ Commit(ReclaimDeferred(directives, t))
    PROVE  LeaseHonoured'
  <1>1. now' = now /\ now \in Nat
    BY ReadingBound DEF Commit
  <1>2. ASSUME NEW n \in Tokens, NEW j \in Ids, LiveUnder(j, n)
        PROVE  directives'[j] = directives[j]
    BY <1>2, SweptRowsLive DEF Commit
  <1> QED BY <1>1, <1>2, PromisesKept

LEMMA FencedStepHonours ==
    ASSUME TypeOK, LeaseHonoured, NEW i \in Ids, NEW k \in 1..issued,
           \/ \E s \in SetStatuses : SetStatusFenced(i, k, s)
           \/ \E not_before \in DeferTimes, deps \in SUBSET Ids :
                    DeferFenced(i, k, not_before, deps)
           \/ \E duration \in Leases : TouchFenced(i, k, duration)
           \/ ParkFenced(i, k)
    PROVE  LeaseHonoured'
  <1> USE ReadingType
  <1>0. k \in Tokens
    BY QueueAssumption DEF TypeOK, Tokens
  <1>1. ASSUME NEW s \in SetStatuses, SetStatusFenced(i, k, s)
        PROVE  LeaseHonoured'
    <2>1. PICK t \in LockedReading, v \in LockedReading, u \in LockedReading :
            LET d == Sweep(directives, t, v)
            IN  FencedWrite(d, i, k, u, WithStatus(d[i], s, u), Null)
      BY <1>1 DEF SetStatusFenced
    <2>2. \A j \in Ids, n \in Tokens :
            LiveUnder(j, n) => Sweep(directives, t, v)[j] = directives[j]
      BY SweptRowsLive
    <2> QED BY <1>0, <2>1, <2>2, SweepType, FencedWriteHonours
  <1>2. ASSUME NEW not_before \in DeferTimes, NEW deps \in SUBSET Ids,
               DeferFenced(i, k, not_before, deps)
        PROVE  LeaseHonoured'
    <2>1. PICK t \in LockedReading, u \in LockedReading :
            LET d == ReclaimExpired(directives, t)
            IN  FencedWrite(d, i, k, u, Deferred(d[i], not_before, deps), Null)
      BY <1>2 DEF DeferFenced
    <2>2. \A j \in Ids, n \in Tokens :
            LiveUnder(j, n) => ReclaimExpired(directives, t)[j] = directives[j]
      BY SweptRowsLive
    <2> QED BY <1>0, <2>1, <2>2, ReclaimExpiredType, FencedWriteHonours
  <1>3. ASSUME NEW duration \in Leases, TouchFenced(i, k, duration)
        PROVE  LeaseHonoured'
    <2>1. PICK t \in LockedReading, v \in LockedReading, u \in LockedReading :
            LET d == Sweep(directives, t, v)
            IN  FencedWrite(d, i, k, u, Touched(d[i], u + duration), u + duration)
      BY <1>3 DEF TouchFenced
    <2> DEFINE d == Sweep(directives, t, v)
               g == u + duration
    <2>2. d \in Table /\ d[i] \in Directive
      BY SweepType DEF Table
    <2>3. CASE HoldsClaim(d[i], k, u)
      <3>1. /\ Touched(d[i], g).status = "taken"
            /\ Touched(d[i], g).token = k
            /\ Touched(d[i], g).lease = g
        <4> HIDE DEF d, g
        <4> QED BY <2>2, <2>3 DEF Touched, HoldsClaim, Directive
      <3>2. \A j \in Ids, n \in Tokens : LiveUnder(j, n) => d[j] = directives[j]
        BY SweptRowsLive
      <3>3. FencedWrite(d, i, k, u, Touched(d[i], g), g)
        BY <2>1
      <3> HIDE DEF d, g
      <3> QED BY <1>0, <2>2, <3>1, <3>2, <3>3, FencedWriteHonours
    <2>4. CASE ~HoldsClaim(d[i], k, u)
      BY <2>1, <2>4, SweepHonours DEF FencedWrite
    <2> QED BY <2>3, <2>4
  <1>4. ASSUME ParkFenced(i, k)
        PROVE  LeaseHonoured'
    BY <1>0, <1>4, FencedWriteHonours DEF ParkFenced
  <1> QED BY <1>1, <1>2, <1>3, <1>4

\* A forced write releases the only holder it can disturb.
LEMMA OverrideHonours ==
    ASSUME TypeOK, LeaseHonoured, NEW i \in Ids, NEW r, Override(i),
           Commit([directives EXCEPT ![i] = r])
    PROVE  LeaseHonoured'
  <1>1. now' = now /\ now \in Nat /\ directives \in Table
    BY ReadingBound, ReadingType DEF Commit
  <1>2. ASSUME NEW n \in Tokens, granted'[n] > now', NEW j \in Ids, LiveUnder(j, n)
        PROVE  directives'[j] = directives[j] /\ granted'[n] = granted[n]
    <2>1. directives[i].token # n
      BY <1>1, <1>2 DEF Override, Null
    <2>2. j # i
      BY <1>2, <2>1 DEF LiveUnder
    <2> QED BY <1>1, <2>1, <2>2 DEF Override, Commit, Table
  <1>3. ASSUME NEW n \in Tokens, granted'[n] > now'
        PROVE  granted'[n] = granted[n]
    BY <1>1, <1>3 DEF Override, Null
  <1> QED BY <1>1, <1>2, <1>3, PromisesKept

LEMMA ForcedWriteHonours ==
    ASSUME TypeOK, LeaseHonoured, NEW p \in Procs, NEW matches \in BOOLEAN, NEW r,
           call[p].id \in Ids, ForcedWrite(p, matches, r)
    PROVE  LeaseHonoured'
  <1>1. CASE matches
    BY <1>1, OverrideHonours DEF ForcedWrite
  <1>2. CASE ~matches
    <2>1. directives' = directives /\ granted' = granted /\ now' = now
      BY <1>2 DEF ForcedWrite, Commit
    <2> QED BY <2>1 DEF LeaseHonoured
  <1> QED BY <1>1, <1>2

LEMMA OperatorStepHonours ==
    ASSUME TypeOK, LeaseHonoured, OperatorStep
    PROVE  LeaseHonoured'
  <1> USE ReadingType, ReadingBound
  <1>1. ASSUME NEW i \in Ids, ParkForced(i)
        PROVE  LeaseHonoured'
    BY <1>1, OverrideHonours DEF ParkForced
  <1>2. ASSUME NEW i \in Ids, NEW n \in Priorities, Reprioritize(i, n)
        PROVE  LeaseHonoured'
    <2>1. directives' = [directives EXCEPT ![i].priority = n]
          /\ granted' = granted /\ now' = now
      BY <1>2 DEF Reprioritize, Commit
    <2>2. ASSUME NEW j \in Ids
          PROVE  /\ directives'[j].status = directives[j].status
                 /\ directives'[j].token = directives[j].token
                 /\ directives'[j].lease = directives[j].lease
      BY <2>1 DEF Table, Directive
    <2> QED BY <2>1, <2>2 DEF LeaseHonoured
  <1>3. ASSUME Reap
        PROVE  LeaseHonoured'
    <2>1. PICK t \in EarlyReading :
            /\ Commit(ReapStale(directives, t))
            /\ granted' = [k \in Tokens |->
                            IF \E i \in Ids : /\ Stale(directives[i], t)
                                              /\ directives[i].token = k
                            THEN Null ELSE granted[k]]
      BY <1>3 DEF Reap
    <2>2. ASSUME NEW n \in Tokens, granted'[n] > now'
          PROVE  /\ granted'[n] = granted[n]
                 /\ \A j \in Ids : LiveUnder(j, n) => directives'[j] = directives[j]
      <3>1. ~\E i \in Ids : Stale(directives[i], t) /\ directives[i].token = n
        BY <2>1, <2>2 DEF Null, Commit
      <3> QED BY <2>1, <3>1 DEF LiveUnder, ReapStale, Commit
    <2> QED BY <2>1, <2>2, PromisesKept DEF Commit
  <1> QED BY <1>1, <1>2, <1>3 DEF OperatorStep

LEMMA CallStepHonours ==
    ASSUME TypeOK, LeaseHonoured, NEW p \in Procs, CallStep(p)
    PROVE  LeaseHonoured'
  <1> USE ReadingType, ReadingBound
  <1>1. CASE \/ \E op \in {"set_status", "defer", "unpark"}, i \in Ids : Check(p, op, i)
             \/ Abandon(p)
    <2>1. directives' = directives /\ granted' = granted /\ now' = now
      BY <1>1 DEF Check, Abandon
    <2> QED BY <2>1 DEF LeaseHonoured
  <1>2. ASSUME NEW t \in EarlyReading, Reclaim(p, t) \/ Promote(p, t)
        PROVE  LeaseHonoured'
    BY <1>2, SweepHonours DEF Reclaim, Promote
  <1>3. ASSUME NEW s \in SetStatuses, SetStatusForced(p, s)
        PROVE  LeaseHonoured'
    <2>1. call[p].id \in Ids
      BY <1>3, RowCallType DEF SetStatusForced
    <2> QED BY <1>3, <2>1, ForcedWriteHonours DEF SetStatusForced, Exists
  <1>4. ASSUME NEW not_before \in DeferTimes, NEW deps \in SUBSET Ids,
               DeferForced(p, not_before, deps)
        PROVE  LeaseHonoured'
    <2>1. call[p].id \in Ids
      BY <1>4, RowCallType DEF DeferForced
    <2> QED BY <1>4, <2>1, ForcedWriteHonours DEF DeferForced, Exists
  <1>5. ASSUME Unpark(p)
        PROVE  LeaseHonoured'
    <2>1. call[p].id \in Ids
      BY <1>5, RowCallType DEF Unpark
    <2> QED BY <1>5, <2>1, ForcedWriteHonours DEF Unpark
  <1>6. ASSUME NEW duration \in Leases, TouchForced(p, duration)
        PROVE  LeaseHonoured'
    <2> DEFINE i == call[p].id
               r == directives[i]
    <2>1. i \in Ids /\ r \in Directive
      BY <1>6, RowCallType DEF TouchForced
    <2>2. PICK u \in EarlyReading :
            IF r.status = "taken"
            THEN /\ Commit([directives EXCEPT ![i] = Touched(r, u + duration)])
                 /\ granted' = [k \in Tokens |->
                                 IF k = r.token THEN u + duration ELSE granted[k]]
            ELSE Commit(directives) /\ granted' = granted
      BY <1>6 DEF TouchForced
    <2>3. CASE r.status = "taken"
      <3>1. directives' = [directives EXCEPT ![i] = Touched(r, u + duration)]
            /\ now' = now
        BY <2>2, <2>3 DEF Commit
      <3>2. ASSUME NEW n \in Tokens \ {r.token}
            PROVE  /\ granted'[n] = granted[n]
                   /\ \A j \in Ids : LiveUnder(j, n) => directives'[j] = directives[j]
        BY <2>1, <2>2, <2>3, <3>1 DEF LiveUnder, Table
      <3>3. ASSUME NEW n \in Tokens, n = r.token
            PROVE  /\ directives'[i].status = "taken"
                   /\ directives'[i].token = n
                   /\ directives'[i].lease = granted'[n]
        <4>1. directives'[i] = Touched(r, u + duration) /\ granted'[n] = u + duration
          BY <2>1, <2>2, <2>3, <3>1, <3>3 DEF Table
        <4> HIDE DEF r
        <4> QED BY <2>1, <2>3, <3>3, <4>1 DEF Touched, Directive
      <3> QED BY <2>1, <3>1, <3>2, <3>3, PromisesKept
    <2>4. CASE r.status # "taken"
      BY <2>2, <2>4 DEF Commit, LeaseHonoured
    <2> QED BY <2>3, <2>4
  <1>7. ASSUME NEW policy \in Policies, NEW lane \in Lanes, NEW n \in Priorities,
               NEW parent \in Ids \cup {Null}, Push(p, policy, lane, n, parent)
        PROVE  LeaseHonoured'
    <2>1. PICK i \in Ids :
            /\ IsNextId(directives, i)
            /\ Commit([directives EXCEPT ![i] = Pending(policy, lane, n, parent)])
      BY <1>7 DEF Push
    <2>2. granted' = granted /\ now' = now
      BY <1>7, <2>1 DEF Push, Commit
    <2>3. ASSUME NEW j \in Ids, NEW k \in Tokens, LiveUnder(j, k)
          PROVE  directives'[j] = directives[j]
      BY <2>1, <2>3 DEF LiveUnder, IsNextId, Exists, Commit, Table
    <2> QED BY <2>2, <2>3, PromisesKept
  <1> QED BY <1>1, <1>2, <1>3, <1>4, <1>5, <1>6, <1>7 DEF CallStep

LEMMA NextHonours == TypeOK /\ LeaseHonoured /\ [Next]_vars => LeaseHonoured'
  <1> SUFFICES ASSUME TypeOK, LeaseHonoured, [Next]_vars PROVE LeaseHonoured'
    OBVIOUS
  <1>1. ASSUME NEW lane \in Lanes, NEW policy \in Policies, TakeNothing(lane, policy)
        PROVE  LeaseHonoured'
    BY <1>1, SweepHonours DEF TakeNothing
  <1>2. CASE WorkerStep
    BY <1>1, <1>2, TakeHonours, FencedStepHonours DEF WorkerStep
  <1>3. CASE OperatorStep
    BY <1>3, OperatorStepHonours
  <1>4. ASSUME NEW p \in Procs, CallStep(p) PROVE LeaseHonoured'
    BY <1>4, CallStepHonours
  <1>5. CASE Tick
    <2>1. ASSUME NEW k \in Tokens, granted[k] > now + 1
          PROVE  granted[k] > now
      BY <2>1, ReadingBound DEF TypeOK
    <2> QED BY <1>5, <2>1 DEF Tick, LeaseHonoured
  <1>6. CASE UNCHANGED vars
    BY <1>6 DEF vars, LeaseHonoured
  <1> QED BY <1>2, <1>3, <1>4, <1>5, <1>6 DEF Next

\* Until the lease the service last wrote for a token runs out, the directive
\* stays taken under that token: whoever else calls, in whatever order their
\* transactions interleave and however old their clock readings are.
THEOREM LeasesAreHonoured == Spec => []LeaseHonoured
  <1>1. Init => LeaseHonoured
    BY QueueAssumption DEF Init, LeaseHonoured, Null
  <1> QED BY <1>1, NextHonours, TypeCorrect, PTL DEF Spec
=============================================================================
