----------------------------- MODULE RowProofs ------------------------------
(***************************************************************************)
(* What the rows of the queue keep: a protected row its claim; every row   *)
(* its policy, lane and parent; whose claim a row carries and in which     *)
(* columns; that what is over stays over; that lost claims are counted.    *)
(* Each part has a relation between a row before and after, one lemma per  *)
(* kind of write, and the steps of workers, operators and calls in flight. *)
(***************************************************************************)
EXTENDS QueueProofs

(***************************************************************************)
(* Protected directives are held, and finished ones stay finished.         *)
(* RowMoves says what a protected row may become, and every action is      *)
(* shown to respect it.                                                    *)
(***************************************************************************)
HeldRow(r) ==
    Protected(r) =>
        /\ r.status \in {"pending", "taken", "parked"}
        /\ r.status = "pending" <=> r.token = Null

\* A protected row that is held, or that a handoff has settled.
SoundRow(r) == HeldRow(r) \/ r.status = "done"

\* What may become of a protected row r that is sound.
RowMoves(r, s) ==
    /\ s.policy = "hold"
    /\ \/ s.status = r.status /\ s.token = r.token
       \/ r.status = "pending" /\ s.status \in {"taken", "parked"} /\ s.token # Null
       \/ r.status = "taken" /\ s.status = "parked" /\ s.token = r.token

\* What a step may do to the whole table as far as protection goes.
TableMoves(d, e) ==
    \A i \in Ids :
        /\ Protected(d[i]) /\ SoundRow(d[i]) => RowMoves(d[i], e[i])
        /\ ~Protected(d[i]) /\ Protected(e[i]) => ~Exists(d[i]) /\ HeldRow(e[i])
        /\ Exists(d[i]) => Exists(e[i])

LEMMA UnclaimedFields ==
    ASSUME NEW r \in Directive
    PROVE  /\ Unclaimed(r).policy = r.policy
           /\ Unclaimed(r).status = r.status
  BY DEF Unclaimed, Directive

\* The row operators never touch the policy, and only these keep the token.
LEMMA RowFields ==
    ASSUME NEW r \in Directive, NEW s \in Statuses, NEW k, NEW until, NEW t, NEW deps
    PROVE  /\ Taken(r, k, until, t).policy = r.policy
           /\ Taken(r, k, until, t).status = "taken"
           /\ Taken(r, k, until, t).token = k
           /\ WithStatus(r, s, t).policy = r.policy
           /\ WithStatus(r, s, t).status = s
           /\ Deferred(r, t, deps).policy = r.policy
           /\ Deferred(r, t, deps).status = "deferred"
           /\ Touched(r, until).policy = r.policy
           /\ Touched(r, until).status = r.status
           /\ Touched(r, until).token = r.token
           /\ Parked(r).policy = r.policy
           /\ Parked(r).status = "parked"
           /\ r.policy = "hold" => Parked(r).token = r.token
           /\ Unparked(r).policy = r.policy
           /\ Unparked(r).status = "pending"
           /\ Promoted(r).policy = r.policy
           /\ Promoted(r).status = "pending"
           /\ ReleaseOrHold(r).policy = r.policy
           /\ ReleaseOrHold(r).status \in {"pending", "parked"}
           /\ r.policy = "hold" => /\ ReleaseOrHold(r).status = "parked"
                                   /\ ReleaseOrHold(r).token = r.token
  <1> DEFINE q == Unclaimed(r)
  <1>1. q \in Directive /\ q.policy = r.policy
    BY UnclaimedType, UnclaimedFields
  <1>2. /\ Taken(r, k, until, t).policy = r.policy
        /\ Taken(r, k, until, t).status = "taken"
        /\ Taken(r, k, until, t).token = k
    BY DEF Taken, Directive
  <1>3. /\ Touched(r, until).policy = r.policy
        /\ Touched(r, until).status = r.status
        /\ Touched(r, until).token = r.token
        /\ Parked(r).policy = r.policy
        /\ Parked(r).status = "parked"
        /\ r.policy = "hold" => Parked(r).token = r.token
    BY DEF Touched, Parked, Directive
  <1> HIDE DEF q
  <1>4. /\ Deferred(r, t, deps).policy = r.policy
        /\ Deferred(r, t, deps).status = "deferred"
        /\ Unparked(r).policy = r.policy
        /\ Unparked(r).status = "pending"
        /\ Promoted(r).policy = r.policy
        /\ Promoted(r).status = "pending"
    <2>1. \A nb, bb : /\ [q EXCEPT !.status = "deferred", !.not_before = nb,
                                   !.blocked_by = bb].policy = q.policy
                      /\ [q EXCEPT !.status = "deferred", !.not_before = nb,
                                   !.blocked_by = bb].status = "deferred"
                      /\ [q EXCEPT !.status = "pending", !.not_before = nb,
                                   !.blocked_by = bb].policy = q.policy
                      /\ [q EXCEPT !.status = "pending", !.not_before = nb,
                                   !.blocked_by = bb].status = "pending"
                      /\ [q EXCEPT !.status = "pending"].policy = q.policy
                      /\ [q EXCEPT !.status = "pending"].status = "pending"
      BY <1>1 DEF Directive
    <2> QED BY <1>1, <2>1 DEF Deferred, Unparked, Promoted, q
  <1>5. /\ ReleaseOrHold(r).policy = r.policy
        /\ ReleaseOrHold(r).status \in {"pending", "parked"}
        /\ r.policy = "hold" => /\ ReleaseOrHold(r).status = "parked"
                                /\ ReleaseOrHold(r).token = r.token
    <2>1. CASE r.policy = "hold"
      BY <2>1 DEF ReleaseOrHold, Directive
    <2>2. CASE r.policy # "hold"
      <3>1. \A n : /\ [q EXCEPT !.status = "pending", !.requeue_count = n].policy = q.policy
                   /\ [q EXCEPT !.status = "pending", !.requeue_count = n].status = "pending"
        BY <1>1 DEF Directive
      <3>2. ReleaseOrHold(r) =
              [q EXCEPT !.status = "pending", !.requeue_count = q.requeue_count + 1]
        BY <2>2 DEF ReleaseOrHold, q
      <3> QED BY <1>1, <2>2, <3>1, <3>2
    <2> QED BY <2>1, <2>2
  <1>6. /\ WithStatus(r, s, t).policy = r.policy
        /\ WithStatus(r, s, t).status = s
    <2>1. CASE s = "pending"
      <3>1. \A n : /\ [q EXCEPT !.status = "pending", !.not_before = Null,
                                !.blocked_by = {}, !.requeue_count = n].policy = q.policy
                   /\ [q EXCEPT !.status = "pending", !.not_before = Null,
                                !.blocked_by = {}, !.requeue_count = n].status = "pending"
        BY <1>1 DEF Directive
      <3>2. WithStatus(r, s, t) =
              [q EXCEPT !.status = "pending", !.not_before = Null, !.blocked_by = {},
                        !.requeue_count = q.requeue_count + 1]
        BY <2>1, Zenon DEF WithStatus, Requeued, q
      <3> QED BY <1>1, <2>1, <3>1, <3>2
    <2>2. CASE s = "done"
      BY <2>2 DEF WithStatus, Completed, Directive
    <2>3. CASE s \notin {"pending", "done"}
      BY <2>3 DEF WithStatus, Directive
    <2> QED BY <2>1, <2>2, <2>3
  <1> QED BY <1>2, <1>3, <1>4, <1>5, <1>6

LEMMA DeferredFields ==
    ASSUME NEW r \in Directive, NEW t, NEW deps
    PROVE  Deferred(r, t, deps).policy = r.policy /\ Deferred(r, t, deps).status = "deferred"
  <1>1. "done" \in Statuses
    BY DEF Statuses, Terminal
  <1> QED BY <1>1, RowFields

LEMMA TouchedFields ==
    ASSUME NEW r \in Directive, NEW until
    PROVE  /\ Touched(r, until).policy = r.policy
           /\ Touched(r, until).status = r.status
           /\ Touched(r, until).token = r.token
  <1>1. "done" \in Statuses
    BY DEF Statuses, Terminal
  <1> QED BY <1>1, RowFields

\* Sweeping respects protection.
LEMMA SweepMoves ==
    ASSUME NEW d \in Table, NEW t \in Nat
    PROVE  /\ TableMoves(d, ReclaimExpired(d, t))
           /\ TableMoves(d, ReapStale(d, t))
           /\ TableMoves(d, ReclaimDeferred(d, t))
  <1>1. \A i \in Ids :
          /\ d[i] \in Directive
          /\ ReleaseOrHold(d[i]).policy = d[i].policy
          /\ ReleaseOrHold(d[i]).status \in {"pending", "parked"}
          /\ d[i].policy = "hold" => /\ ReleaseOrHold(d[i]).status = "parked"
                                     /\ ReleaseOrHold(d[i]).token = d[i].token
          /\ Promoted(d[i]).policy = d[i].policy
          /\ Promoted(d[i]).status = "pending"
    <2>1. "done" \in Statuses
      BY DEF Statuses, Terminal
    <2> QED BY <2>1, RowFields DEF Table
  <1>2. TableMoves(d, ReclaimExpired(d, t))
    BY <1>1 DEF TableMoves, RowMoves, Protected, Exists, ReclaimExpired, Expired
  <1>3. TableMoves(d, ReapStale(d, t))
    BY <1>1 DEF TableMoves, RowMoves, Protected, Exists, ReapStale, Stale
  <1>4. TableMoves(d, ReclaimDeferred(d, t))
    BY <1>1 DEF TableMoves, RowMoves, SoundRow, HeldRow, Protected, Exists, ReclaimDeferred, Ready
  <1> QED BY <1>2, <1>3, <1>4

LEMMA MovesCompose ==
    ASSUME NEW d, NEW e, NEW f, TableMoves(d, e), TableMoves(e, f)
    PROVE  TableMoves(d, f)
  <1> SUFFICES ASSUME NEW i \in Ids
               PROVE  /\ Protected(d[i]) /\ SoundRow(d[i]) => RowMoves(d[i], f[i])
                      /\ ~Protected(d[i]) /\ Protected(f[i]) =>
                            ~Exists(d[i]) /\ HeldRow(f[i])
                      /\ Exists(d[i]) => Exists(f[i])
    BY DEF TableMoves
  <1>1. ASSUME NEW r, NEW s, Protected(r), RowMoves(r, s)
        PROVE  /\ HeldRow(r) => Protected(s) /\ HeldRow(s)
               /\ SoundRow(r) => Protected(s) /\ SoundRow(s)
    BY <1>1 DEF Protected, SoundRow, HeldRow, RowMoves, Exists
  <1>2. ASSUME NEW r, NEW s, NEW q, SoundRow(r), Protected(r), RowMoves(r, s), RowMoves(s, q)
        PROVE  RowMoves(r, q)
    BY <1>2 DEF RowMoves, SoundRow, HeldRow, Protected
  <1>3. Exists(d[i]) => Exists(f[i])
    BY DEF TableMoves
  <1>4. Protected(d[i]) /\ SoundRow(d[i]) => RowMoves(d[i], f[i])
    BY <1>1, <1>2 DEF TableMoves
  <1>5. ~Protected(d[i]) /\ Protected(f[i]) => ~Exists(d[i]) /\ HeldRow(f[i])
    BY <1>1 DEF TableMoves, SoundRow
  <1> QED BY <1>3, <1>4, <1>5

LEMMA WriteMoves ==
    ASSUME NEW d \in Table, NEW i \in Ids, NEW r,
           Protected(d[i]) /\ SoundRow(d[i]) => RowMoves(d[i], r),
           ~Protected(d[i]) /\ Protected(r) => ~Exists(d[i]) /\ HeldRow(r),
           Exists(d[i]) => Exists(r)
    PROVE  TableMoves(d, [d EXCEPT ![i] = r])
  BY DEF TableMoves, Table, RowMoves, Protected

LEMMA NoMove ==
    ASSUME NEW d
    PROVE  TableMoves(d, d)
  BY DEF TableMoves, RowMoves, Protected

LEMMA SweptMoves ==
    ASSUME NEW d \in Table, NEW t \in Nat, NEW v \in Nat
    PROVE  TableMoves(d, Sweep(d, t, v))
  BY SweepMoves, ReclaimExpiredType, MovesCompose DEF Sweep

\* An operation that is refused on protected rows: it may write any row that
\* exists and is not protected, as long as it leaves the policy alone.
LEMMA OrdinaryWriteMoves ==
    ASSUME NEW d \in Table, NEW i \in Ids, NEW r,
           ~Protected(d[i]), Exists(d[i]), r.policy = d[i].policy, Exists(r)
    PROVE  TableMoves(d, [d EXCEPT ![i] = r])
  BY WriteMoves DEF Protected

LEMMA FencedWriteMoves ==
    ASSUME NEW d \in Table, NEW i \in Ids, NEW k, NEW u, NEW r, NEW g,
           FencedWrite(d, i, k, u, r, g), TableMoves(directives, d),
           HoldsClaim(d[i], k, u) => TableMoves(d, [d EXCEPT ![i] = r])
    PROVE  TableMoves(directives, directives')
  BY MovesCompose DEF FencedWrite, Commit

LEMMA TakeMoves ==
    ASSUME TypeOK, NEW lane \in Lanes, NEW policy \in Policies,
           NEW duration \in Leases, Take(lane, policy, duration)
    PROVE  TableMoves(directives, directives')
  <1> DEFINE k == issued + 1
  <1>1. PICK t \in LockedReading, v \in LockedReading, u \in LockedReading, i \in Ids :
            /\ IsHead(Sweep(directives, t, v), i, lane, policy)
            /\ Commit([Sweep(directives, t, v) EXCEPT ![i] = Taken(@, k, u + duration, u)])
    BY DEF Take
  <1> DEFINE d == Sweep(directives, t, v)
             r == Taken(d[i], k, u + duration, u)
  <1>2. d \in Table /\ TableMoves(directives, d)
    BY ReadingType, SweepType, SweptMoves
  <1>3. d[i].status = "pending" /\ directives' = [d EXCEPT ![i] = r]
    BY <1>1 DEF IsHead, Candidate, Commit
  <1> HIDE DEF d
  <1>4. /\ r.policy = d[i].policy /\ r.status = "taken" /\ r.token = k
        /\ k # Null
    <2>1. "done" \in Statuses /\ d[i] \in Directive
      BY <1>2 DEF Table, Statuses, Terminal
    <2> QED BY <2>1, RowFields, ReadingType DEF Null
  <1> HIDE DEF r, k
  <1>5. TableMoves(d, [d EXCEPT ![i] = r])
    BY <1>2, <1>3, <1>4, WriteMoves DEF Protected, SoundRow, HeldRow, RowMoves, Exists
  <1> QED BY <1>2, <1>3, <1>5, MovesCompose

LEMMA FencedStepMoves ==
    ASSUME TypeOK, NEW i \in Ids, NEW k \in 1..issued,
           \/ \E s \in SetStatuses : SetStatusFenced(i, k, s)
           \/ \E not_before \in DeferTimes, deps \in SUBSET Ids :
                    DeferFenced(i, k, not_before, deps)
           \/ \E duration \in Leases : TouchFenced(i, k, duration)
           \/ ParkFenced(i, k)
    PROVE  TableMoves(directives, directives')
  <1> USE ReadingType
  <1>0. /\ "done" \in Statuses
        /\ \A d \in Table : d[i] \in Directive
    BY DEF Statuses, Terminal, Table
  <1>1. ASSUME NEW s \in SetStatuses, SetStatusFenced(i, k, s)
        PROVE  TableMoves(directives, directives')
    <2>1. PICK t \in LockedReading, v \in LockedReading, u \in LockedReading :
            LET d == Sweep(directives, t, v)
            IN  FencedWrite(d, i, k, u, WithStatus(d[i], s, u), Null)
      BY <1>1 DEF SetStatusFenced
    <2> DEFINE d == Sweep(directives, t, v)
               r == WithStatus(d[i], s, u)
    <2>2. d \in Table /\ TableMoves(directives, d) /\ s \in Statuses
      BY SweepType, SweptMoves, QueueAssumption
    <2>3. ~Exists(directives[i]) => ~Exists(d[i])
      BY DEF Sweep, ReclaimDeferred, ReclaimExpired, Ready, Expired, Exists
    <2>4. ~Protected(d[i])
      BY <1>1, <2>2, <2>3 DEF TableMoves, SetStatusFenced, Ordinary, Protected
    <2> HIDE DEF d
    <2>5. r.policy = d[i].policy /\ r.status = s
      <3>1. d[i] \in Directive /\ s \in Statuses
        BY <1>0, <2>2
      <3> QED BY <3>1, RowFields
    <2> HIDE DEF r
    <2>6. HoldsClaim(d[i], k, u) => TableMoves(d, [d EXCEPT ![i] = r])
      BY <2>2, <2>4, <2>5, OrdinaryWriteMoves DEF HoldsClaim, Exists, Statuses, Terminal
    <2>7. FencedWrite(d, i, k, u, r, Null)
      BY <2>1 DEF d, r
    <2> QED BY <2>2, <2>6, <2>7, FencedWriteMoves
  <1>2. ASSUME NEW not_before \in DeferTimes, NEW deps \in SUBSET Ids,
               DeferFenced(i, k, not_before, deps)
        PROVE  TableMoves(directives, directives')
    <2>1. PICK t \in LockedReading, u \in LockedReading :
            LET d == ReclaimExpired(directives, t)
            IN  FencedWrite(d, i, k, u, Deferred(d[i], not_before, deps), Null)
      BY <1>2 DEF DeferFenced
    <2> DEFINE d == ReclaimExpired(directives, t)
               r == Deferred(d[i], not_before, deps)
    <2>2. d \in Table /\ TableMoves(directives, d)
      BY ReclaimExpiredType, SweepMoves
    <2>3. ~Exists(directives[i]) => ~Exists(d[i])
      BY DEF ReclaimExpired, Expired, Exists
    <2>4. ~Protected(d[i])
      BY <1>2, <2>2, <2>3 DEF TableMoves, DeferFenced, Ordinary, Protected
    <2> HIDE DEF d
    <2>5. r.policy = d[i].policy /\ r.status = "deferred"
      <3>1. d[i] \in Directive
        BY <1>0, <2>2
      <3> QED BY <3>1, DeferredFields
    <2> HIDE DEF r
    <2>6. HoldsClaim(d[i], k, u) => TableMoves(d, [d EXCEPT ![i] = r])
      BY <2>2, <2>4, <2>5, OrdinaryWriteMoves DEF HoldsClaim, Exists
    <2>7. FencedWrite(d, i, k, u, r, Null)
      BY <2>1 DEF d, r
    <2> QED BY <2>2, <2>6, <2>7, FencedWriteMoves
  <1>3. ASSUME NEW duration \in Leases, TouchFenced(i, k, duration)
        PROVE  TableMoves(directives, directives')
    <2>1. PICK t \in LockedReading, v \in LockedReading, u \in LockedReading :
            LET d == Sweep(directives, t, v)
            IN  FencedWrite(d, i, k, u, Touched(d[i], u + duration), u + duration)
      BY <1>3 DEF TouchFenced
    <2> DEFINE d == Sweep(directives, t, v)
               r == Touched(d[i], u + duration)
    <2>2. d \in Table /\ TableMoves(directives, d)
      BY SweepType, SweptMoves
    <2> HIDE DEF d
    <2>3. r.policy = d[i].policy /\ r.status = d[i].status /\ r.token = d[i].token
      <3>1. d[i] \in Directive
        BY <1>0, <2>2
      <3> QED BY <3>1, TouchedFields
    <2> HIDE DEF r
    <2>4. TableMoves(d, [d EXCEPT ![i] = r])
      BY <2>2, <2>3, WriteMoves DEF Protected, RowMoves, Exists
    <2>5. FencedWrite(d, i, k, u, r, u + duration)
      BY <2>1 DEF d, r
    <2> QED BY <2>2, <2>4, <2>5, FencedWriteMoves
  <1>4. ASSUME ParkFenced(i, k)
        PROVE  TableMoves(directives, directives')
    <2> DEFINE r == Parked(directives[i])
    <2>1. PICK u \in LockedReading : FencedWrite(directives, i, k, u, r, Null)
      BY <1>4 DEF ParkFenced
    <2>2. /\ r.policy = directives[i].policy /\ r.status = "parked"
          /\ directives[i].policy = "hold" => r.token = directives[i].token
      BY <1>0, RowFields
    <2> HIDE DEF r
    <2>3. HoldsClaim(directives[i], k, u) =>
            TableMoves(directives, [directives EXCEPT ![i] = r])
      BY <2>2, WriteMoves DEF HoldsClaim, Protected, RowMoves, Exists
    <2> QED BY <2>1, <2>3, NoMove, FencedWriteMoves
  <1> QED BY <1>1, <1>2, <1>3, <1>4

LEMMA OperatorStepMoves ==
    ASSUME TypeOK, OperatorStep
    PROVE  TableMoves(directives, directives')
  <1> USE ReadingType
  <1>1. ASSUME NEW i \in Ids, ParkForced(i)
        PROVE  TableMoves(directives, directives')
    <2> DEFINE r == Parked(directives[i])
    <2>1. "done" \in Statuses /\ directives[i] \in Directive
      BY DEF Statuses, Terminal, Table
    <2>2. /\ r.policy = directives[i].policy /\ r.status = "parked"
          /\ directives[i].policy = "hold" => r.token = directives[i].token
      BY <2>1, RowFields
    <2>3. directives' = [directives EXCEPT ![i] = r] /\ directives[i].status = "taken"
      BY <1>1 DEF ParkForced, Commit
    <2> HIDE DEF r
    <2>4. TableMoves(directives, [directives EXCEPT ![i] = r])
      BY <2>2, <2>3, WriteMoves DEF Protected, RowMoves, Exists
    <2> QED BY <2>3, <2>4
  <1>2. ASSUME NEW i \in Ids, NEW n \in Priorities, Reprioritize(i, n)
        PROVE  TableMoves(directives, directives')
    <2>1. directives' = [directives EXCEPT ![i].priority = n]
      BY <1>2 DEF Reprioritize, Commit
    <2>2. ASSUME NEW j \in Ids
          PROVE  /\ directives'[j].status = directives[j].status
                 /\ directives'[j].token = directives[j].token
                 /\ directives'[j].policy = directives[j].policy
      BY <2>1 DEF Table, Directive
    <2> QED BY <2>2 DEF TableMoves, Protected, RowMoves, Exists
  <1>3. ASSUME Reap
        PROVE  TableMoves(directives, directives')
    BY <1>3, SweepMoves DEF Reap, Commit
  <1> QED BY <1>1, <1>2, <1>3 DEF OperatorStep

(***************************************************************************)
(* The calls without a token.  They only know what they read before their  *)
(* last transaction: that is sound as long as the row existed then.        *)
(***************************************************************************)
Targets ==
    \A p \in Procs :
        call[p].op \in {"set_status", "defer", "unpark"} =>
            Exists(directives[call[p].id]) /\ ~Protected(directives[call[p].id])

LEMMA ForcedWriteMoves ==
    ASSUME TypeOK, Targets, NEW p \in Procs, NEW matches \in BOOLEAN, NEW r,
           call[p].op \in {"set_status", "defer", "unpark"}, call[p].id \in Ids,
           ForcedWrite(p, matches, r), Exists(r),
           r.policy = directives[call[p].id].policy
    PROVE  TableMoves(directives, directives')
  <1>1. CASE matches
    <2>1. directives' = [directives EXCEPT ![call[p].id] = r]
      BY <1>1 DEF ForcedWrite, Commit
    <2> QED BY <2>1, ReadingType, OrdinaryWriteMoves DEF Targets
  <1>2. CASE ~matches
    BY <1>2, NoMove DEF ForcedWrite, Commit
  <1> QED BY <1>1, <1>2

LEMMA CallStepMoves ==
    ASSUME TypeOK, Targets, NEW p \in Procs, CallStep(p)
    PROVE  TableMoves(directives, directives')
  <1> USE ReadingType
  <1> DEFINE i == call[p].id
             r == directives[i]
  <1>0. /\ "done" \in Statuses
        /\ \A op \in {"set_status", "defer", "unpark", "touch"} :
              AtUpdate(p, op) => call[p].op = op /\ i \in Ids /\ r \in Directive
    BY RowCallType DEF Statuses, Terminal, AtUpdate
  <1>1. CASE \/ \E op \in {"set_status", "defer", "unpark"}, j \in Ids : Check(p, op, j)
             \/ Abandon(p)
    <2>1. directives' = directives
      BY <1>1 DEF Check, Abandon
    <2> QED BY <2>1, NoMove
  <1>2. ASSUME NEW t \in EarlyReading, Reclaim(p, t) \/ Promote(p, t)
        PROVE  TableMoves(directives, directives')
    BY <1>2, SweepMoves DEF Reclaim, Promote, Commit
  <1>3. ASSUME NEW s \in SetStatuses, SetStatusForced(p, s)
        PROVE  TableMoves(directives, directives')
    <2>1. PICK u \in EarlyReading : ForcedWrite(p, Exists(r), WithStatus(r, s, u))
      BY <1>3 DEF SetStatusForced
    <2>2. i \in Ids /\ r \in Directive /\ s \in Statuses /\ call[p].op = "set_status"
      BY <1>0, <1>3, QueueAssumption DEF SetStatusForced
    <2> HIDE DEF r
    <2>3. WithStatus(r, s, u).policy = r.policy /\ WithStatus(r, s, u).status = s
      BY <2>2, RowFields
    <2>4. Exists(WithStatus(r, s, u)) /\ Exists(r) \in BOOLEAN
      BY <2>2, <2>3 DEF Exists, Statuses, Terminal
    <2> QED BY <2>1, <2>2, <2>3, <2>4, ForcedWriteMoves DEF r
  <1>4. ASSUME NEW not_before \in DeferTimes, NEW deps \in SUBSET Ids,
               DeferForced(p, not_before, deps)
        PROVE  TableMoves(directives, directives')
    <2>1. ForcedWrite(p, Exists(r), Deferred(r, not_before, deps))
      BY <1>4 DEF DeferForced
    <2>2. i \in Ids /\ r \in Directive /\ call[p].op = "defer"
      BY <1>0, <1>4 DEF DeferForced
    <2> HIDE DEF r
    <2>3. /\ Deferred(r, not_before, deps).policy = r.policy
          /\ Deferred(r, not_before, deps).status = "deferred"
      BY <1>0, <2>2, RowFields
    <2>4. Exists(Deferred(r, not_before, deps)) /\ Exists(r) \in BOOLEAN
      BY <2>3 DEF Exists
    <2> QED BY <2>1, <2>2, <2>3, <2>4, ForcedWriteMoves DEF r
  <1>5. ASSUME Unpark(p)
        PROVE  TableMoves(directives, directives')
    <2>1. ForcedWrite(p, r.status = "parked", Unparked(r))
      BY <1>5 DEF Unpark
    <2>2. i \in Ids /\ r \in Directive /\ call[p].op = "unpark"
      BY <1>0, <1>5 DEF Unpark
    <2> HIDE DEF r
    <2>3. Unparked(r).policy = r.policy /\ Unparked(r).status = "pending"
      BY <1>0, <2>2, RowFields
    <2> DEFINE matches == r.status = "parked"
               q == Unparked(r)
    <2>4. Exists(q) /\ matches \in BOOLEAN /\ q.policy = r.policy
      BY <2>3 DEF Exists
    <2>5. ForcedWrite(p, matches, q)
      BY <2>1
    <2> HIDE DEF matches, q
    <2> QED BY <2>2, <2>4, <2>5, ForcedWriteMoves DEF r
  <1>6. ASSUME NEW duration \in Leases, TouchForced(p, duration)
        PROVE  TableMoves(directives, directives')
    <2>1. PICK u \in EarlyReading :
            \/ directives' = [directives EXCEPT ![i] = Touched(r, u + duration)]
            \/ directives' = directives
      BY <1>6 DEF TouchForced, Commit
    <2>2. i \in Ids /\ r \in Directive
      BY <1>0, <1>6 DEF TouchForced
    <2>3. LET q == Touched(r, u + duration)
          IN  q.policy = r.policy /\ q.status = r.status /\ q.token = r.token
      <3> HIDE DEF r
      <3> QED BY <1>0, <2>2, RowFields
    <2>4. TableMoves(directives, [directives EXCEPT ![i] = Touched(r, u + duration)])
      BY <2>2, <2>3, WriteMoves DEF Protected, RowMoves, Exists
    <2> QED BY <2>1, <2>4, NoMove
  <1>7. ASSUME NEW policy \in Policies, NEW lane \in Lanes, NEW n \in Priorities,
               NEW parent \in Ids \cup {Null}, Push(p, policy, lane, n, parent)
        PROVE  TableMoves(directives, directives')
    <2>1. PICK j \in Ids :
            /\ ~Exists(directives[j])
            /\ directives' = [directives EXCEPT ![j] = Pending(policy, lane, n, parent)]
      BY <1>7 DEF Push, IsNextId, Commit
    <2> DEFINE q == Pending(policy, lane, n, parent)
    <2>2. HeldRow(q) /\ Exists(q)
      BY DEF HeldRow, Pending, Exists
    <2> HIDE DEF q
    <2>3. TableMoves(directives, [directives EXCEPT ![j] = q])
      BY <2>1, <2>2, WriteMoves DEF Protected
    <2> QED BY <2>1, <2>3 DEF q
  <1> QED BY <1>1, <1>2, <1>3, <1>4, <1>5, <1>6, <1>7 DEF CallStep

(***************************************************************************)
(* The induction.                                                          *)
(***************************************************************************)
LEMMA NextMoves ==
    ASSUME TypeOK, Targets, [Next]_vars
    PROVE  TableMoves(directives, directives')
  <1>1. ASSUME NEW lane \in Lanes, NEW policy \in Policies, TakeNothing(lane, policy)
        PROVE  TableMoves(directives, directives')
    BY <1>1, SweptMoves, ReadingType DEF TakeNothing, Commit
  <1>2. CASE WorkerStep
    BY <1>1, <1>2, TakeMoves, FencedStepMoves DEF WorkerStep
  <1>3. CASE OperatorStep
    BY <1>3, OperatorStepMoves
  <1>4. ASSUME NEW p \in Procs, CallStep(p)
        PROVE  TableMoves(directives, directives')
    BY <1>4, CallStepMoves
  <1>5. CASE Tick \/ UNCHANGED vars
    BY <1>5, NoMove DEF Tick, vars
  <1> QED BY <1>2, <1>3, <1>4, <1>5 DEF Next

\* Calls keep their target while they are under way, and a call that starts
\* checks it.
LEMMA CallTargets ==
    ASSUME TypeOK, KnownIds, [Next]_vars, NEW p \in Procs,
           call'[p].op \in {"set_status", "defer", "unpark"}
    PROVE  \/ call'[p].id = call[p].id /\ call'[p].op = call[p].op
           \/ /\ call'[p].id \in Ids /\ directives' = directives
              /\ Exists(directives[call'[p].id])
              /\ ~Protected(directives[call'[p].id])
  <1>1. CASE call' = call
    BY <1>1
  <1>2. ASSUME NEW q \in Procs, CallStep(q)
        PROVE  \/ call'[p].id = call[p].id /\ call'[p].op = call[p].op
               \/ /\ call'[p].id \in Ids /\ directives' = directives
                  /\ Exists(directives[call'[p].id])
                  /\ ~Protected(directives[call'[p].id])
    <2>0. call \in [Procs -> Calls]
      BY DEF TypeOK
    <2>1. CASE p # q
      <3>1. \A c : Continue(q, c) => call'[p] = call[p]
        BY <2>0, <2>1 DEF Continue
      <3>2. call'[p] = call[p]
        BY <1>2, <3>1 DEF CallStep, Check, Reclaim, Promote, SetStatusForced,
            DeferForced, Unpark, TouchForced, Push, Abandon, ForcedWrite, Return
      <3> QED BY <3>2
    <2>2. CASE p = q
      <3>1. \A c : Continue(p, c) => call'[p] = c
        BY <2>0 DEF Continue
      <3>2. ~Return(p)
        BY <3>1 DEF Return, Idle
      <3>3. ASSUME NEW op \in {"set_status", "defer", "unpark"}, NEW i \in Ids,
                   Check(p, op, i)
            PROVE  /\ call'[p].id \in Ids /\ directives' = directives
                   /\ Exists(directives[call'[p].id])
                   /\ ~Protected(directives[call'[p].id])
        BY <3>1, <3>3 DEF Check, Ordinary
      <3>4. ASSUME NEW c \in Started(p), NEW step \in {"update", "promote"},
                   c.step = "reclaim", Continue(p, [c EXCEPT !.step = step])
            PROVE  call'[p].id = call[p].id /\ call'[p].op = call[p].op
        <4>1. c \in Calls /\ call'[p] = [c EXCEPT !.step = step]
          BY <3>1, <3>4, StartedType
        <4>2. call'[p].id = c.id /\ call'[p].op = c.op
          BY <4>1 DEF Calls, TableCalls, RowCalls, Idle
        <4>3. c = call[p]
          BY <4>2 DEF Started
        <4> QED BY <4>2, <4>3
      <3>5. ASSUME NEW t \in EarlyReading, Reclaim(p, t)
            PROVE  call'[p].id = call[p].id /\ call'[p].op = call[p].op
        BY <3>2, <3>4, <3>5 DEF Reclaim
      <3>6. ASSUME NEW t \in EarlyReading, Promote(p, t)
            PROVE  call'[p].id = call[p].id /\ call'[p].op = call[p].op
        <4>1. call'[p] = [call[p] EXCEPT !.step = "update"]
          BY <3>1, <3>2, <3>6 DEF Promote
        <4> QED BY <2>0, <4>1 DEF Calls, TableCalls, RowCalls, Idle
      <3> QED BY <1>2, <2>2, <3>2, <3>3, <3>5, <3>6 DEF CallStep, SetStatusForced,
            DeferForced, Unpark, TouchForced, Push, Abandon, ForcedWrite
    <2> QED BY <2>1, <2>2
  <1>3. CASE WorkerStep \/ OperatorStep \/ Tick \/ UNCHANGED vars
    <2>1. WorkerStep => call' = call
      <3>1. \A d, i, k, u, r, g : FencedWrite(d, i, k, u, r, g) => call' = call
        BY DEF FencedWrite
      <3>2. \A lane, policy, duration : Take(lane, policy, duration) => call' = call
        BY DEF Take
      <3>3. \A lane, policy : TakeNothing(lane, policy) => call' = call
        BY DEF TakeNothing
      <3>4. \A i, k, s : SetStatusFenced(i, k, s) => call' = call
        BY <3>1 DEF SetStatusFenced
      <3>5. \A i, k, t, deps : DeferFenced(i, k, t, deps) => call' = call
        BY <3>1 DEF DeferFenced
      <3>6. \A i, k, duration : TouchFenced(i, k, duration) => call' = call
        BY <3>1 DEF TouchFenced
      <3>7. \A i, k : ParkFenced(i, k) => call' = call
        BY <3>1 DEF ParkFenced
      <3> QED BY <3>2, <3>3, <3>4, <3>5, <3>6, <3>7, Zenon DEF WorkerStep
    <2>2. OperatorStep => call' = call
      BY Zenon DEF OperatorStep, ParkForced, Reprioritize, Reap
    <2>3. Tick \/ UNCHANGED vars => call' = call
      BY DEF Tick, vars
    <2> QED BY <1>3, <2>1, <2>2, <2>3
  <1> QED BY <1>2, <1>3 DEF Next

ProtectionInv == TypeOK /\ Targets /\ ProtectedIsHeld

\* What the same relation says of the claim of a protected row.
OneClaim ==
    \A i \in Ids :
        Protected(directives[i]) /\ directives[i].token # Null =>
            /\ directives'[i].token = directives[i].token
            /\ directives[i].status = "parked" => directives'[i].status = "parked"

LEMMA MovesKeepTheClaim ==
    ASSUME ProtectionInv, TableMoves(directives, directives')
    PROVE  ProtectedIsHeld' /\ OneClaim
  <1>1. ASSUME NEW i \in Ids, HeldRow(directives[i])
        PROVE  HeldRow(directives'[i])
    BY <1>1 DEF TableMoves, RowMoves, SoundRow, HeldRow, Protected, Exists
  <1>2. ProtectedIsHeld'
    BY <1>1 DEF ProtectedIsHeld, HeldRow, ProtectionInv
  <1>3. OneClaim
    BY DEF OneClaim, ProtectionInv, ProtectedIsHeld, TableMoves, RowMoves, SoundRow,
           HeldRow, Protected
  <1> QED BY <1>2, <1>3

LEMMA ProtectionInductive ==
    ASSUME KnownIds, ProtectionInv, [Next]_vars
    PROVE  ProtectionInv'
  <1>1. TypeOK'
    BY NextType DEF ProtectionInv
  <1>2. TableMoves(directives, directives')
    BY NextMoves DEF ProtectionInv
  <1>4. ProtectedIsHeld'
    BY <1>2, MovesKeepTheClaim
  <1>5. ASSUME NEW p \in Procs, call'[p].op \in {"set_status", "defer", "unpark"}
        PROVE  Exists(directives'[call'[p].id]) /\ ~Protected(directives'[call'[p].id])
    <2>1. CASE call'[p].id = call[p].id /\ call'[p].op = call[p].op
      <3>1. call[p].id \in Ids
        BY <1>5, <2>1 DEF ProtectionInv, TypeOK, Calls, TableCalls, RowCalls, Idle
      <3> QED BY <1>2, <1>5, <2>1, <3>1 DEF ProtectionInv, Targets, TableMoves
    <2>2. CASE /\ call'[p].id \in Ids /\ directives' = directives
               /\ Exists(directives[call'[p].id])
               /\ ~Protected(directives[call'[p].id])
      BY <2>2
    <2> QED BY <1>5, <2>1, <2>2, CallTargets DEF ProtectionInv
  <1>6. Targets'
    BY <1>5 DEF Targets
  <1> QED BY <1>1, <1>4, <1>6 DEF ProtectionInv

LEMMA ProtectionInit == Init => ProtectionInv
  <1> SUFFICES ASSUME Init PROVE ProtectionInv
    OBVIOUS
  <1>1. Absent.status = "absent"
    BY DEF Absent, Pending
  <1>2. ProtectedIsHeld
    BY <1>1 DEF Init, ProtectedIsHeld, Protected, Exists
  <1>3. Targets
    BY DEF Init, Targets, Idle
  <1> QED BY <1>2, <1>3, InitType DEF ProtectionInv

\* When callers only name directives that exist, a protected directive is
\* never completed, dropped, deferred or requeued by a generic operation, in
\* any interleaving of forced calls with the rest of the queue.
THEOREM ProtectedAreHeld == KnownIds => (Spec => []ProtectedIsHeld)
  <1> SUFFICES ASSUME KnownIds PROVE Spec => []ProtectedIsHeld
    OBVIOUS
  <1>1. ProtectionInv /\ [Next]_vars => ProtectionInv'
    BY ProtectionInductive
  <1>2. ProtectionInv => ProtectedIsHeld
    BY DEF ProtectionInv
  <1> QED BY <1>1, <1>2, ProtectionInit, PTL DEF Spec

\* ... and the claim it was given is the only one it is ever given.
THEOREM ProtectedAreClaimedOnce == KnownIds => (Spec => ProtectedClaimedOnce)
  <1> SUFFICES ASSUME KnownIds PROVE Spec => ProtectedClaimedOnce
    OBVIOUS
  <1>1. ProtectionInv /\ [Next]_vars => ProtectionInv'
    BY ProtectionInductive
  <1>2. ProtectionInv /\ [Next]_vars => [OneClaim]_vars
    <2> SUFFICES ASSUME ProtectionInv, [Next]_vars PROVE OneClaim
      OBVIOUS
    <2>1. TableMoves(directives, directives')
      BY NextMoves DEF ProtectionInv
    <2> QED BY <2>1, MovesKeepTheClaim
  <1>3. [][OneClaim]_vars => ProtectedClaimedOnce
    BY PTL DEF ProtectedClaimedOnce, OneClaim
  <1> QED BY <1>1, <1>2, <1>3, ProtectionInit, PTL DEF Spec

-----------------------------------------------------------------------------
(***************************************************************************)
(* Rows stay, with their policy, lane and parent.                          *)
(***************************************************************************)
Fixed(r, s) ==
    /\ Exists(s) <=> Exists(r)
    /\ s.policy = r.policy /\ s.lane = r.lane /\ s.parent = r.parent

KeepsRows(d, e) == \A i \in Ids : Fixed(d[i], e[i])

\* One row is inserted, the next one, and the others keep what they are.
AddsRow(d, e) ==
    \E i \in Ids :
        /\ IsNextId(d, i) /\ Exists(e[i]) /\ e[i].parent # i
        /\ e[i].parent # Null => Exists(d[e[i].parent])
        /\ \A j \in Ids \ {i} : e[j] = d[j]

LEMMA UnclaimedFixed ==
    ASSUME NEW r \in Directive
    PROVE  Fixed(r, Unclaimed(r))
  BY DEF Fixed, Unclaimed, Directive, Exists

LEMMA RowFixed ==
    ASSUME NEW r \in Directive, Exists(r),
           NEW s \in Statuses, NEW k, NEW until, NEW t, NEW deps
    PROVE  /\ Fixed(r, Taken(r, k, until, t))
           /\ Fixed(r, WithStatus(r, s, t))
           /\ Fixed(r, Deferred(r, t, deps))
           /\ Fixed(r, Touched(r, until))
           /\ Fixed(r, Parked(r))
           /\ Fixed(r, Unparked(r))
           /\ Fixed(r, Promoted(r))
           /\ Fixed(r, ReleaseOrHold(r))
  <1> DEFINE q == Unclaimed(r)
  <1>1. q \in Directive /\ Fixed(r, q)
    BY UnclaimedType, UnclaimedFixed
  <1>2. Fixed(r, Taken(r, k, until, t)) /\ Fixed(r, Touched(r, until)) /\ Fixed(r, Parked(r))
    BY DEF Fixed, Taken, Touched, Parked, Directive, Exists
  <1> HIDE DEF q
  <1>3. Fixed(r, Deferred(r, t, deps)) /\ Fixed(r, Unparked(r)) /\ Fixed(r, Promoted(r))
    <2>1. \A nb, bb :
            /\ Fixed(r, [q EXCEPT !.status = "deferred", !.not_before = nb, !.blocked_by = bb])
            /\ Fixed(r, [q EXCEPT !.status = "pending", !.not_before = nb, !.blocked_by = bb])
            /\ Fixed(r, [q EXCEPT !.status = "pending"])
      BY <1>1 DEF Fixed, Directive, Exists
    <2> QED BY <2>1 DEF Deferred, Unparked, Promoted, q
  <1>4. \A n : Fixed(r, [q EXCEPT !.status = "pending", !.requeue_count = n])
    BY <1>1 DEF Fixed, Directive, Exists
  <1>5. Fixed(r, ReleaseOrHold(r))
    <2>1. CASE r.policy = "hold"
      BY <2>1 DEF ReleaseOrHold, Fixed, Directive, Exists
    <2>2. CASE r.policy # "hold"
      <3>1. ReleaseOrHold(r) =
              [q EXCEPT !.status = "pending", !.requeue_count = q.requeue_count + 1]
        BY <2>2 DEF ReleaseOrHold, q
      <3> QED BY <1>4, <3>1
    <2> QED BY <2>1, <2>2
  <1>6. Fixed(r, WithStatus(r, s, t))
    <2>1. CASE s = "pending"
      <3>1. \A n : Fixed(r, [q EXCEPT !.status = "pending", !.not_before = Null,
                                      !.blocked_by = {}, !.requeue_count = n])
        BY <1>1 DEF Fixed, Directive, Exists
      <3>2. WithStatus(r, s, t) =
              [q EXCEPT !.status = "pending", !.not_before = Null, !.blocked_by = {},
                        !.requeue_count = q.requeue_count + 1]
        BY <2>1, Zenon DEF WithStatus, Requeued, q
      <3> QED BY <3>1, <3>2
    <2>2. CASE s = "done"
      BY <2>2 DEF WithStatus, Completed, Fixed, Directive, Exists
    <2>3. CASE s \notin {"pending", "done"}
      BY <2>3 DEF WithStatus, Fixed, Directive, Exists, Statuses, Terminal
    <2> QED BY <2>1, <2>2, <2>3
  <1> QED BY <1>2, <1>3, <1>5, <1>6

LEMMA KeepsNothing ==
    ASSUME NEW d
    PROVE  KeepsRows(d, d)
  BY DEF KeepsRows, Fixed

LEMMA KeepsCompose ==
    ASSUME NEW d, NEW e, NEW f, KeepsRows(d, e), KeepsRows(e, f)
    PROVE  KeepsRows(d, f)
  BY DEF KeepsRows, Fixed

LEMMA WriteKeeps ==
    ASSUME NEW d \in Table, NEW i \in Ids, NEW r, Fixed(d[i], r)
    PROVE  KeepsRows(d, [d EXCEPT ![i] = r])
  BY DEF KeepsRows, Fixed, Table

LEMMA SweepsKeep ==
    ASSUME NEW d \in Table, NEW t \in Nat, NEW v \in Nat
    PROVE  /\ KeepsRows(d, ReclaimExpired(d, t))
           /\ KeepsRows(d, ReapStale(d, t))
           /\ KeepsRows(d, ReclaimDeferred(d, t))
           /\ KeepsRows(d, Sweep(d, t, v))
  <1>1. ASSUME NEW e \in Table, NEW i \in Ids, Exists(e[i])
        PROVE  Fixed(e[i], ReleaseOrHold(e[i])) /\ Fixed(e[i], Promoted(e[i]))
    <2>1. "done" \in Statuses /\ e[i] \in Directive
      BY DEF Statuses, Terminal, Table
    <2> QED BY <1>1, <2>1, RowFixed
  <1>2. ASSUME NEW e \in Table, NEW w \in Nat
        PROVE  /\ KeepsRows(e, ReclaimExpired(e, w))
               /\ KeepsRows(e, ReapStale(e, w))
               /\ KeepsRows(e, ReclaimDeferred(e, w))
    <2>1. \A i \in Ids : Fixed(e[i], e[i])
      BY DEF Fixed
    <2>2. \A i \in Ids :
            /\ Expired(e[i], w) => Exists(e[i])
            /\ Stale(e[i], w) => Exists(e[i])
            /\ Ready(e, e[i], w) => Exists(e[i])
      BY DEF Expired, Stale, Ready, Exists
    <2> QED BY <1>1, <2>1, <2>2 DEF KeepsRows, ReclaimExpired, ReapStale, ReclaimDeferred
  <1>3. ReclaimExpired(d, t) \in Table
    BY ReclaimExpiredType
  <1> QED BY <1>2, <1>3, KeepsCompose DEF Sweep

LEMMA FencedWriteKeeps ==
    ASSUME NEW d \in Table, NEW i \in Ids, NEW k, NEW u, NEW r, NEW g,
           FencedWrite(d, i, k, u, r, g), KeepsRows(directives, d),
           Exists(d[i]) => Fixed(d[i], r)
    PROVE  KeepsRows(directives, directives')
  <1>1. HoldsClaim(d[i], k, u) => KeepsRows(d, [d EXCEPT ![i] = r])
    BY WriteKeeps DEF HoldsClaim, Exists
  <1> QED BY <1>1, KeepsCompose DEF FencedWrite, Commit

LEMMA WorkerStepKeeps ==
    ASSUME TypeOK, WorkerStep
    PROVE  KeepsRows(directives, directives')
  <1> USE ReadingType
  <1>0. "done" \in Statuses /\ {} \in SUBSET Ids
    BY DEF Statuses, Terminal
  <1>1. ASSUME NEW lane \in Lanes, NEW policy \in Policies, NEW duration \in Leases,
               Take(lane, policy, duration)
        PROVE  KeepsRows(directives, directives')
    <2>1. PICK t \in LockedReading, v \in LockedReading, u \in LockedReading, i \in Ids :
            /\ IsHead(Sweep(directives, t, v), i, lane, policy)
            /\ Commit([Sweep(directives, t, v) EXCEPT
                        ![i] = Taken(@, issued + 1, u + duration, u)])
      BY <1>1 DEF Take
    <2> DEFINE d == Sweep(directives, t, v)
               r == Taken(d[i], issued + 1, u + duration, u)
    <2>2. d \in Table /\ KeepsRows(directives, d)
      BY SweepType, SweepsKeep
    <2>3. d[i].status = "pending" /\ directives' = [d EXCEPT ![i] = r]
      BY <2>1 DEF IsHead, Candidate, Commit
    <2> HIDE DEF d
    <2>4. Fixed(d[i], r)
      <3>1. d[i] \in Directive /\ Exists(d[i])
        BY <2>2, <2>3 DEF Table, Exists
      <3> QED BY <1>0, <3>1, RowFixed
    <2> HIDE DEF r
    <2> QED BY <2>2, <2>3, <2>4, WriteKeeps, KeepsCompose
  <1>2. ASSUME NEW lane \in Lanes, NEW policy \in Policies, TakeNothing(lane, policy)
        PROVE  KeepsRows(directives, directives')
    BY <1>2, SweepsKeep DEF TakeNothing, Commit
  <1>3. ASSUME NEW i \in Ids, NEW k \in 1..issued, NEW s \in SetStatuses,
               SetStatusFenced(i, k, s)
        PROVE  KeepsRows(directives, directives')
    <2>1. PICK t \in LockedReading, v \in LockedReading, u \in LockedReading :
            LET d == Sweep(directives, t, v)
            IN  FencedWrite(d, i, k, u, WithStatus(d[i], s, u), Null)
      BY <1>3 DEF SetStatusFenced
    <2> DEFINE d == Sweep(directives, t, v)
    <2>2. d \in Table /\ KeepsRows(directives, d) /\ s \in Statuses
      BY SweepType, SweepsKeep, QueueAssumption
    <2> HIDE DEF d
    <2>3. Exists(d[i]) => Fixed(d[i], WithStatus(d[i], s, u))
      BY <2>2, RowFixed DEF Table
    <2> QED BY <2>1, <2>2, <2>3, FencedWriteKeeps DEF d
  <1>4. ASSUME NEW i \in Ids, NEW k \in 1..issued, NEW not_before \in DeferTimes,
               NEW deps \in SUBSET Ids, DeferFenced(i, k, not_before, deps)
        PROVE  KeepsRows(directives, directives')
    <2>1. PICK t \in LockedReading, u \in LockedReading :
            LET d == ReclaimExpired(directives, t)
            IN  FencedWrite(d, i, k, u, Deferred(d[i], not_before, deps), Null)
      BY <1>4 DEF DeferFenced
    <2> DEFINE d == ReclaimExpired(directives, t)
    <2>2. d \in Table /\ KeepsRows(directives, d)
      BY ReclaimExpiredType, SweepsKeep
    <2> HIDE DEF d
    <2>3. Exists(d[i]) => Fixed(d[i], Deferred(d[i], not_before, deps))
      BY <1>0, <2>2, RowFixed DEF Table
    <2> QED BY <2>1, <2>2, <2>3, FencedWriteKeeps DEF d
  <1>5. ASSUME NEW i \in Ids, NEW k \in 1..issued, NEW duration \in Leases,
               TouchFenced(i, k, duration)
        PROVE  KeepsRows(directives, directives')
    <2>1. PICK t \in LockedReading, v \in LockedReading, u \in LockedReading :
            LET d == Sweep(directives, t, v)
            IN  FencedWrite(d, i, k, u, Touched(d[i], u + duration), u + duration)
      BY <1>5 DEF TouchFenced
    <2> DEFINE d == Sweep(directives, t, v)
    <2>2. d \in Table /\ KeepsRows(directives, d)
      BY SweepType, SweepsKeep
    <2> HIDE DEF d
    <2>3. Exists(d[i]) => Fixed(d[i], Touched(d[i], u + duration))
      BY <1>0, <2>2, RowFixed DEF Table
    <2> QED BY <2>1, <2>2, <2>3, FencedWriteKeeps DEF d
  <1>6. ASSUME NEW i \in Ids, NEW k \in 1..issued, ParkFenced(i, k)
        PROVE  KeepsRows(directives, directives')
    <2>1. Exists(directives[i]) => Fixed(directives[i], Parked(directives[i]))
      BY <1>0, RowFixed DEF Table
    <2> QED BY <1>6, <2>1, KeepsNothing, FencedWriteKeeps DEF ParkFenced
  <1> QED BY <1>1, <1>2, <1>3, <1>4, <1>5, <1>6 DEF WorkerStep

LEMMA OperatorStepKeeps ==
    ASSUME TypeOK, OperatorStep
    PROVE  KeepsRows(directives, directives')
  <1> USE ReadingType
  <1>1. ASSUME NEW i \in Ids, ParkForced(i)
        PROVE  KeepsRows(directives, directives')
    <2>1. "done" \in Statuses /\ directives[i] \in Directive /\ Exists(directives[i])
      BY <1>1 DEF Statuses, Terminal, Table, ParkForced, Exists
    <2>2. Fixed(directives[i], Parked(directives[i]))
      BY <2>1, RowFixed
    <2> QED BY <1>1, <2>2, WriteKeeps DEF ParkForced, Commit
  <1>2. ASSUME NEW i \in Ids, NEW n \in Priorities, Reprioritize(i, n)
        PROVE  KeepsRows(directives, directives')
    <2>1. directives' = [directives EXCEPT ![i].priority = n]
      BY <1>2 DEF Reprioritize, Commit
    <2> QED BY <2>1 DEF KeepsRows, Fixed, Table, Directive, Exists
  <1>3. ASSUME Reap
        PROVE  KeepsRows(directives, directives')
    BY <1>3, SweepsKeep DEF Reap, Commit
  <1> QED BY <1>1, <1>2, <1>3 DEF OperatorStep

LEMMA ForcedWriteKeeps ==
    ASSUME TypeOK, NEW p \in Procs, NEW matches \in BOOLEAN, NEW r,
           call[p].id \in Ids, ForcedWrite(p, matches, r),
           matches => Fixed(directives[call[p].id], r)
    PROVE  KeepsRows(directives, directives')
  <1>1. CASE matches
    <2>1. directives' = [directives EXCEPT ![call[p].id] = r]
      BY <1>1 DEF ForcedWrite, Commit
    <2> QED BY <1>1, <2>1, ReadingType, WriteKeeps
  <1>2. CASE ~matches
    BY <1>2, KeepsNothing DEF ForcedWrite, Commit
  <1> QED BY <1>1, <1>2

LEMMA CallStepKeeps ==
    ASSUME TypeOK, NEW p \in Procs, CallStep(p)
    PROVE  KeepsRows(directives, directives') \/ AddsRow(directives, directives')
  <1> USE ReadingType
  <1> DEFINE i == call[p].id
             r == directives[i]
  <1>0. /\ "done" \in Statuses /\ {} \in SUBSET Ids
        /\ \A op \in {"set_status", "defer", "unpark", "touch"} :
              AtUpdate(p, op) => i \in Ids /\ r \in Directive
        /\ Exists(r) \in BOOLEAN
    BY RowCallType DEF Statuses, Terminal, Exists
  <1>1. CASE \/ \E op \in {"set_status", "defer", "unpark"}, j \in Ids : Check(p, op, j)
             \/ Abandon(p)
    BY <1>1, KeepsNothing DEF Check, Abandon
  <1>2. ASSUME NEW t \in EarlyReading, Reclaim(p, t) \/ Promote(p, t)
        PROVE  KeepsRows(directives, directives')
    BY <1>2, SweepsKeep DEF Reclaim, Promote, Commit
  <1>3. ASSUME NEW s \in SetStatuses, SetStatusForced(p, s)
        PROVE  KeepsRows(directives, directives')
    <2>1. PICK u \in EarlyReading : ForcedWrite(p, Exists(r), WithStatus(r, s, u))
      BY <1>3 DEF SetStatusForced
    <2>2. i \in Ids /\ r \in Directive /\ s \in Statuses
      BY <1>0, <1>3, QueueAssumption DEF SetStatusForced
    <2> HIDE DEF r
    <2>3. Exists(r) => Fixed(r, WithStatus(r, s, u))
      BY <2>2, RowFixed
    <2> QED BY <1>0, <2>1, <2>2, <2>3, ForcedWriteKeeps DEF r
  <1>4. ASSUME NEW not_before \in DeferTimes, NEW deps \in SUBSET Ids,
               DeferForced(p, not_before, deps)
        PROVE  KeepsRows(directives, directives')
    <2>1. ForcedWrite(p, Exists(r), Deferred(r, not_before, deps))
      BY <1>4 DEF DeferForced
    <2>2. i \in Ids /\ r \in Directive
      BY <1>0, <1>4 DEF DeferForced
    <2> HIDE DEF r
    <2>3. Exists(r) => Fixed(r, Deferred(r, not_before, deps))
      BY <1>0, <2>2, RowFixed
    <2> QED BY <1>0, <2>1, <2>2, <2>3, ForcedWriteKeeps DEF r
  <1>5. ASSUME Unpark(p)
        PROVE  KeepsRows(directives, directives')
    <2> DEFINE matches == r.status = "parked"
               q == Unparked(r)
    <2>1. ForcedWrite(p, matches, q) /\ matches \in BOOLEAN
      BY <1>5 DEF Unpark
    <2>2. i \in Ids /\ r \in Directive /\ (matches => Exists(r))
      BY <1>0, <1>5 DEF Unpark, Exists
    <2> HIDE DEF r, matches
    <2>3. matches => Fixed(r, q)
      BY <1>0, <2>2, RowFixed
    <2> HIDE DEF q
    <2> QED BY <2>1, <2>2, <2>3, ForcedWriteKeeps DEF r
  <1>6. ASSUME NEW duration \in Leases, TouchForced(p, duration)
        PROVE  KeepsRows(directives, directives')
    <2>1. PICK u \in EarlyReading :
            \/ /\ r.status = "taken"
               /\ directives' = [directives EXCEPT ![i] = Touched(r, u + duration)]
            \/ directives' = directives
      BY <1>6 DEF TouchForced, Commit
    <2>2. i \in Ids /\ r \in Directive /\ (r.status = "taken" => Exists(r))
      BY <1>0, <1>6 DEF TouchForced, Exists
    <2> HIDE DEF r
    <2>3. r.status = "taken" => Fixed(r, Touched(r, u + duration))
      BY <1>0, <2>2, RowFixed
    <2> QED BY <2>1, <2>2, <2>3, WriteKeeps, KeepsNothing DEF r
  <1>7. ASSUME NEW policy \in Policies, NEW lane \in Lanes, NEW n \in Priorities,
               NEW parent \in Ids \cup {Null}, Push(p, policy, lane, n, parent)
        PROVE  AddsRow(directives, directives')
    <2>1. PICK j \in Ids :
            /\ IsNextId(directives, j)
            /\ directives' = [directives EXCEPT ![j] = Pending(policy, lane, n, parent)]
      BY <1>7 DEF Push, Commit
    <2>2. parent # Null => Exists(directives[parent])
      BY <1>7 DEF Push, ParentExists
    <2>3. /\ directives'[j] = Pending(policy, lane, n, parent)
          /\ \A m \in Ids \ {j} : directives'[m] = directives[m]
      BY <2>1 DEF Table
    <2>4. Exists(directives'[j]) /\ directives'[j].parent = parent
      BY <2>3 DEF Pending, Exists
    <2>5. parent # j
      BY <2>1, <2>2 DEF IsNextId, Ids, Null
    <2> QED BY <2>1, <2>2, <2>3, <2>4, <2>5 DEF AddsRow
  <1> QED BY <1>1, <1>2, <1>3, <1>4, <1>5, <1>6, <1>7 DEF CallStep

LEMMA NextKeeps ==
    ASSUME TypeOK, [Next]_vars
    PROVE  KeepsRows(directives, directives') \/ AddsRow(directives, directives')
  <1>1. CASE Tick \/ UNCHANGED vars
    BY <1>1, KeepsNothing DEF Tick, vars
  <1> QED BY <1>1, WorkerStepKeeps, OperatorStepKeeps, CallStepKeeps DEF Next

-----------------------------------------------------------------------------
(***************************************************************************)
(* The rows that are there are the first ones, whatever the number of ids. *)
(***************************************************************************)
FirstRows(d, n) == \A i \in Ids : Exists(d[i]) <=> i <= n

RowsInv == /\ TypeOK
           /\ \E n \in 0..MaxId : FirstRows(directives, n)
           /\ ParentsPrecede

LEMMA FirstRowsNext ==
    ASSUME NEW d, NEW e, NEW n \in 0..MaxId, FirstRows(d, n),
           KeepsRows(d, e) \/ AddsRow(d, e)
    PROVE  \E m \in 0..MaxId : FirstRows(e, m)
  <1>1. CASE KeepsRows(d, e)
    BY <1>1 DEF KeepsRows, Fixed, FirstRows
  <1>2. CASE AddsRow(d, e)
    <2>1. PICK i \in Ids : /\ IsNextId(d, i) /\ Exists(e[i])
                           /\ \A j \in Ids \ {i} : e[j] = d[j]
      BY <1>2 DEF AddsRow
    <2>2. i = n + 1 /\ n + 1 \in 0..MaxId
      <3>1. i > n
        BY <2>1 DEF FirstRows, IsNextId, Ids
      <3>2. i - 1 \in Ids => i - 1 <= n
        BY <2>1 DEF FirstRows, IsNextId, Ids
      <3> QED BY <3>1, <3>2, DirectivesAssumption DEF Ids
    <2>3. FirstRows(e, n + 1)
      BY <2>1, <2>2 DEF FirstRows, Ids
    <2> QED BY <2>2, <2>3
  <1> QED BY <1>1, <1>2

LEMMA RowsInductive ==
    ASSUME RowsInv, [Next]_vars
    PROVE  RowsInv'
  <1>1. TypeOK'
    BY NextType DEF RowsInv
  <1>2. KeepsRows(directives, directives') \/ AddsRow(directives, directives')
    BY NextKeeps DEF RowsInv
  <1>3. (\E n \in 0..MaxId : FirstRows(directives, n))'
    BY <1>2, FirstRowsNext DEF RowsInv
  <1>4. ASSUME NEW i \in Ids, directives'[i].parent # Null
        PROVE  directives'[i].parent < i /\ Exists(directives'[directives'[i].parent])
    <2> DEFINE parent == directives'[i].parent
    <2>1. \A j \in Ids : directives[j].parent \in Ids \cup {Null}
                         /\ directives'[j].parent \in Ids \cup {Null}
      BY <1>1 DEF RowsInv, TypeOK, Directive
    <2>2. parent \in Ids
      BY <1>4, <2>1
    <2>3. CASE KeepsRows(directives, directives')
      BY <1>4, <2>2, <2>3 DEF KeepsRows, Fixed, RowsInv, ParentsPrecede
    <2>4. CASE AddsRow(directives, directives')
      <3>1. PICK k \in Ids :
              /\ IsNextId(directives, k) /\ directives'[k].parent # k
              /\ directives'[k].parent # Null => Exists(directives[directives'[k].parent])
              /\ Exists(directives'[k])
              /\ \A j \in Ids \ {k} : directives'[j] = directives[j]
        BY <2>4 DEF AddsRow
      <3>2. \A j \in Ids : Exists(directives[j]) => Exists(directives'[j])
        BY <3>1
      <3>3. CASE i = k
        <4>1. PICK n \in 0..MaxId : FirstRows(directives, n)
          BY DEF RowsInv
        <4>2. Exists(directives[parent])
          BY <1>4, <3>1, <3>3
        <4>3. parent < k
          BY <2>2, <3>1, <4>1, <4>2 DEF FirstRows, IsNextId, Ids
        <4> QED BY <2>2, <3>2, <3>3, <4>2, <4>3
      <3>4. CASE i # k
        <4>1. parent = directives[i].parent
          BY <3>1, <3>4
        <4> QED BY <1>4, <2>2, <3>2, <4>1 DEF RowsInv, ParentsPrecede
      <3> QED BY <3>3, <3>4
    <2> QED BY <1>2, <2>3, <2>4
  <1>5. ParentsPrecede'
    BY <1>4 DEF ParentsPrecede
  <1> QED BY <1>1, <1>3, <1>5 DEF RowsInv

LEMMA RowsInit == Init => RowsInv
  <1> SUFFICES ASSUME Init PROVE RowsInv
    OBVIOUS
  <1>1. Absent.status = "absent" /\ Absent.parent = Null
    BY DEF Absent, Pending
  <1>2. \A i \in Ids : ~Exists(directives[i]) /\ directives[i].parent = Null
    BY <1>1 DEF Init, Exists
  <1>3. 0 \in 0..MaxId /\ FirstRows(directives, 0)
    BY <1>2, DirectivesAssumption DEF FirstRows, Ids
  <1>4. ParentsPrecede
    BY <1>2 DEF ParentsPrecede
  <1> QED BY <1>3, <1>4, InitType DEF RowsInv

\* The parent of every directive is an earlier directive that is there, under
\* every interleaving: the chain that ancestors and thread_rows climb ends.
THEOREM ParentsAlwaysPrecede == Spec => []ParentsPrecede
  <1>1. RowsInv /\ [Next]_vars => RowsInv'
    BY RowsInductive
  <1>2. RowsInv => ParentsPrecede
    BY DEF RowsInv
  <1> QED BY <1>1, <1>2, RowsInit, PTL DEF Spec

-----------------------------------------------------------------------------
(***************************************************************************)
(* Claims in the columns.  Every operation but take leaves the token of a  *)
(* row or clears it, makes no taken row of one that keeps its token, and   *)
(* agreeing columns of agreeing ones.                                      *)
(***************************************************************************)
\* set_status is asked for the statuses of the command line.
PlainStatuses == SetStatuses \subseteq {"pending", "done", "dropped"}

\* ClaimColumnsAgree for one row.  A row that is parked must have lost its
\* deferral already: unpark does not look for one.
Columns(r) ==
    /\ r.status = "taken" =>
        r.token # Null /\ r.lease # Null /\ r.taken_at # Null
    /\ r.token # Null =>
        r.status = "taken" \/ (r.policy = "hold" /\ r.status = "parked")
    /\ r.status = "pending" => r.lease = Null /\ r.taken_at = Null
    /\ r.status \in {"pending", "taken", "parked"} =>
        r.not_before = Null /\ r.blocked_by = {}

Falls(r, s) ==
    /\ s.token \in {r.token, Null}
    /\ s.token # Null /\ s.status = "taken" => r.status = "taken"
    /\ PlainStatuses /\ Columns(r) => Columns(s)

TableFalls(d, e) == \A i \in Ids : Falls(d[i], e[i])

LEMMA FallsFacts ==
    ASSUME NEW r \in Directive, NEW s \in {"pending", "done", "dropped"},
           NEW until \in Nat \ {0}, NEW t \in Nat, NEW deps
    PROVE  /\ Falls(r, WithStatus(r, s, t))
           /\ Falls(r, Deferred(r, t, deps))
           /\ r.status = "taken" => Falls(r, Touched(r, until))
           /\ r.status = "taken" => Falls(r, Parked(r))
           /\ r.status = "parked" => Falls(r, Unparked(r))
           /\ Falls(r, Promoted(r))
           /\ r.status = "taken" => Falls(r, ReleaseOrHold(r))
  <1> DEFINE q == Unclaimed(r)
  <1>1. /\ q \in Directive /\ q.token = Null /\ q.lease = Null /\ q.taken_at = Null
        /\ q.not_before = r.not_before /\ q.blocked_by = r.blocked_by
    <2>1. q \in Directive
      BY UnclaimedType
    <2> QED BY <2>1 DEF Unclaimed, Directive
  <1>2. (r.status = "taken" => Falls(r, Touched(r, until)))
        /\ (r.status = "taken" => Falls(r, Parked(r)))
    BY DEF Falls, Columns, Touched, Parked, Directive, Null
  <1> HIDE DEF q
  <1>3. \A nb, bb, n :
          /\ Falls(r, [q EXCEPT !.status = "deferred", !.not_before = nb, !.blocked_by = bb])
          /\ Falls(r, [q EXCEPT !.status = "pending", !.not_before = Null, !.blocked_by = {}])
          /\ Falls(r, [q EXCEPT !.status = "pending", !.not_before = Null, !.blocked_by = {},
                                !.requeue_count = n])
          /\ r.status \in {"taken", "parked"} => Falls(r, [q EXCEPT !.status = "pending"])
          /\ r.status = "taken" =>
                Falls(r, [q EXCEPT !.status = "pending", !.requeue_count = n])
    BY <1>1 DEF Falls, Columns, Directive
  <1>4. Falls(r, Deferred(r, t, deps)) /\ Falls(r, Promoted(r))
        /\ (r.status = "parked" => Falls(r, Unparked(r)))
    BY <1>3 DEF Deferred, Unparked, Promoted, q
  <1>5. r.status = "taken" => Falls(r, ReleaseOrHold(r))
    <2>1. CASE r.policy = "hold"
      BY <2>1 DEF ReleaseOrHold, Falls, Columns, Directive
    <2>2. CASE r.policy # "hold"
      <3>1. ReleaseOrHold(r) =
              [q EXCEPT !.status = "pending", !.requeue_count = q.requeue_count + 1]
        BY <2>2 DEF ReleaseOrHold, q
      <3> QED BY <1>3, <3>1
    <2> QED BY <2>1, <2>2
  <1>6. Falls(r, WithStatus(r, s, t))
    <2>1. CASE s = "pending"
      <3>1. WithStatus(r, s, t) =
              [q EXCEPT !.status = "pending", !.not_before = Null, !.blocked_by = {},
                        !.requeue_count = q.requeue_count + 1]
        BY <2>1, Zenon DEF WithStatus, Requeued, q
      <3> QED BY <1>3, <3>1
    <2>2. CASE s = "done"
      BY <2>2 DEF WithStatus, Completed, Falls, Columns, Directive
    <2>3. CASE s = "dropped"
      BY <2>3 DEF WithStatus, Falls, Columns, Directive
    <2> QED BY <2>1, <2>2, <2>3
  <1> QED BY <1>2, <1>4, <1>5, <1>6

\* set_status leaves no token, and only a claim makes a row taken.
LEMMA StatusUnclaims ==
    ASSUME NEW r \in Directive, NEW s \in Statuses, NEW t, NEW deps
    PROVE  /\ WithStatus(r, s, t).token = Null
           /\ Deferred(r, t, deps).status # "taken"
           /\ Parked(r).status # "taken"
           /\ Unparked(r).status # "taken"
  <1> DEFINE q == Unclaimed(r)
  <1>1. q \in Directive /\ q.token = Null
    <2>1. q \in Directive
      BY UnclaimedType
    <2> QED BY <2>1 DEF Unclaimed, Directive
  <1> HIDE DEF q
  <1>2. WithStatus(r, s, t).token = Null
    <2>1. CASE s = "pending"
      <3>1. WithStatus(r, s, t) =
              [q EXCEPT !.status = "pending", !.not_before = Null, !.blocked_by = {},
                        !.requeue_count = q.requeue_count + 1]
        BY <2>1, Zenon DEF WithStatus, Requeued, q
      <3> QED BY <1>1, <3>1 DEF Directive
    <2>2. CASE s = "done"
      BY <2>2 DEF WithStatus, Completed, Directive
    <2>3. CASE s \notin {"pending", "done"}
      BY <2>3 DEF WithStatus, Directive
    <2> QED BY <2>1, <2>2, <2>3
  <1>3. Deferred(r, t, deps).status # "taken" /\ Unparked(r).status # "taken"
    <2>1. /\ Deferred(r, t, deps) =
                [q EXCEPT !.status = "deferred", !.not_before = t, !.blocked_by = deps]
          /\ Unparked(r) = [q EXCEPT !.status = "pending"]
      BY DEF Deferred, Unparked, q
    <2> QED BY <1>1, <2>1 DEF Directive
  <1>4. Parked(r).status # "taken"
    BY DEF Parked, Directive
  <1> QED BY <1>2, <1>3, <1>4

\* Whatever set_status writes, no token comes back.
LEMMA StatusFalls ==
    ASSUME NEW r \in Directive, NEW s \in SetStatuses, NEW t \in Nat
    PROVE  Falls(r, WithStatus(r, s, t))
  <1>1. WithStatus(r, s, t).token = Null
    BY QueueAssumption, StatusUnclaims
  <1>2. PlainStatuses /\ Columns(r) => Columns(WithStatus(r, s, t))
    <2>1. PlainStatuses => s \in {"pending", "done", "dropped"} /\ 1 \in Nat \ {0}
      BY DEF PlainStatuses
    <2> QED BY <2>1, FallsFacts DEF Falls
  <1> QED BY <1>1, <1>2 DEF Falls

LEMMA FallsNothing ==
    ASSUME NEW d
    PROVE  TableFalls(d, d)
  BY DEF TableFalls, Falls

LEMMA FallsCompose ==
    ASSUME NEW d, NEW e, NEW f, TableFalls(d, e), TableFalls(e, f)
    PROVE  TableFalls(d, f)
  BY DEF TableFalls, Falls

LEMMA WriteFalls ==
    ASSUME NEW d \in Table, NEW i \in Ids, NEW r, Falls(d[i], r)
    PROVE  TableFalls(d, [d EXCEPT ![i] = r])
  BY DEF TableFalls, Falls, Table

LEMMA SweepsFall ==
    ASSUME NEW d \in Table, NEW t \in Nat, NEW v \in Nat
    PROVE  /\ TableFalls(d, ReclaimExpired(d, t))
           /\ TableFalls(d, ReapStale(d, t))
           /\ TableFalls(d, ReclaimDeferred(d, t))
           /\ TableFalls(d, Sweep(d, t, v))
  <1>1. ASSUME NEW e \in Table, NEW w \in Nat
        PROVE  /\ TableFalls(e, ReclaimExpired(e, w))
               /\ TableFalls(e, ReapStale(e, w))
               /\ TableFalls(e, ReclaimDeferred(e, w))
    <2>1. \A i \in Ids : e[i] \in Directive /\ Falls(e[i], e[i])
      BY DEF Falls, Table
    <2>2. \A i \in Ids : /\ Expired(e[i], w) => e[i].status = "taken"
                         /\ Stale(e[i], w) => e[i].status = "taken"
      BY DEF Expired, Stale
    <2>3. 1 \in Nat \ {0}
      OBVIOUS
    <2>4. \A i \in Ids : /\ e[i].status = "taken" => Falls(e[i], ReleaseOrHold(e[i]))
                         /\ Falls(e[i], Promoted(e[i]))
      BY <2>1, <2>3, FallsFacts
    <2> QED BY <2>1, <2>2, <2>4 DEF TableFalls, ReclaimExpired, ReapStale, ReclaimDeferred
  <1>2. ReclaimExpired(d, t) \in Table
    BY ReclaimExpiredType
  <1> QED BY <1>1, <1>2, FallsCompose DEF Sweep

LEMMA FencedWriteFalls ==
    ASSUME NEW d \in Table, NEW i \in Ids, NEW k, NEW u, NEW r, NEW g,
           FencedWrite(d, i, k, u, r, g), TableFalls(directives, d),
           d[i].status = "taken" => Falls(d[i], r)
    PROVE  TableFalls(directives, directives')
  <1>1. HoldsClaim(d[i], k, u) => TableFalls(d, [d EXCEPT ![i] = r])
    BY WriteFalls DEF HoldsClaim
  <1> QED BY <1>1, FallsCompose DEF FencedWrite, Commit

\* Take is the exception: its row gets a new token and all columns of a claim.
GivesToken(d, e) ==
    \E i \in Ids :
        /\ d[i].status = "pending" /\ e[i].token = issued + 1 /\ issued' = issued + 1
        /\ Columns(d[i]) => Columns(e[i])
        /\ \A j \in Ids \ {i} : e[j] = d[j]

LEMMA TakeGives ==
    ASSUME TypeOK, NEW lane \in Lanes, NEW policy \in Policies, NEW duration \in Leases,
           Take(lane, policy, duration)
    PROVE  \E d : TableFalls(directives, d) /\ GivesToken(d, directives')
  <1> USE ReadingType
  <1>1. PICK t \in LockedReading, v \in LockedReading, u \in LockedReading, i \in Ids :
          /\ IsHead(Sweep(directives, t, v), i, lane, policy)
          /\ Commit([Sweep(directives, t, v) EXCEPT
                      ![i] = Taken(@, issued + 1, u + duration, u)])
    BY DEF Take
  <1> DEFINE d == Sweep(directives, t, v)
             r == Taken(d[i], issued + 1, u + duration, u)
  <1>2. d \in Table /\ TableFalls(directives, d)
    BY SweepType, SweepsFall
  <1>3. d[i].status = "pending" /\ directives' = [d EXCEPT ![i] = r] /\ issued' = issued + 1
    BY <1>1 DEF IsHead, Candidate, Commit, Take
  <1> HIDE DEF d
  <1>4. d[i] \in Directive
    BY <1>2 DEF Table
  <1>5. u \in Nat \ {0} /\ duration \in Nat \ {0} /\ issued \in Nat
    BY QueueAssumption DEF TypeOK, LockedReading
  <1>6. u + duration # Null /\ u # Null /\ issued + 1 # Null
    BY <1>5 DEF Null
  <1>7. r.token = issued + 1 /\ (Columns(d[i]) => Columns(r))
    BY <1>3, <1>4, <1>6 DEF Taken, Columns, Directive
  <1> HIDE DEF r
  <1>8. directives'[i] = r /\ \A j \in Ids \ {i} : directives'[j] = d[j]
    BY <1>2, <1>3 DEF Table
  <1> QED BY <1>2, <1>3, <1>7, <1>8 DEF GivesToken

LEMMA WorkerFallsOrTakes ==
    ASSUME TypeOK, WorkerStep
    PROVE  \/ TableFalls(directives, directives')
           \/ \E lane \in Lanes, policy \in Policies, duration \in Leases :
                    Take(lane, policy, duration)
  <1> USE ReadingType
  <1>0. \A r \in Directive, t \in Nat : \A deps :
          /\ Falls(r, Deferred(r, t, deps))
          /\ r.status = "taken" => Falls(r, Parked(r))
    <2>1. 1 \in Nat \ {0}
      OBVIOUS
    <2> QED BY <2>1, FallsFacts
  <1>2. ASSUME NEW lane \in Lanes, NEW policy \in Policies, TakeNothing(lane, policy)
        PROVE  TableFalls(directives, directives')
    BY <1>2, SweepsFall DEF TakeNothing, Commit
  <1>3. ASSUME NEW i \in Ids, NEW k \in 1..issued, NEW s \in SetStatuses,
               SetStatusFenced(i, k, s)
        PROVE  TableFalls(directives, directives')
    <2>1. PICK t \in LockedReading, v \in LockedReading, u \in LockedReading :
            LET d == Sweep(directives, t, v)
            IN  FencedWrite(d, i, k, u, WithStatus(d[i], s, u), Null)
      BY <1>3 DEF SetStatusFenced
    <2> DEFINE d == Sweep(directives, t, v)
    <2>2. d \in Table /\ TableFalls(directives, d)
      BY SweepType, SweepsFall
    <2> HIDE DEF d
    <2>3. Falls(d[i], WithStatus(d[i], s, u))
      BY <2>2, StatusFalls DEF Table
    <2> QED BY <2>1, <2>2, <2>3, FencedWriteFalls DEF d
  <1>4. ASSUME NEW i \in Ids, NEW k \in 1..issued, NEW not_before \in DeferTimes,
               NEW deps \in SUBSET Ids, DeferFenced(i, k, not_before, deps)
        PROVE  TableFalls(directives, directives')
    <2>1. PICK t \in LockedReading, u \in LockedReading :
            LET d == ReclaimExpired(directives, t)
            IN  FencedWrite(d, i, k, u, Deferred(d[i], not_before, deps), Null)
      BY <1>4 DEF DeferFenced
    <2> DEFINE d == ReclaimExpired(directives, t)
    <2>2. d \in Table /\ TableFalls(directives, d) /\ not_before \in Nat
      BY ReclaimExpiredType, SweepsFall, QueueAssumption
    <2> HIDE DEF d
    <2>3. Falls(d[i], Deferred(d[i], not_before, deps))
      BY <1>0, <2>2 DEF Table
    <2> QED BY <2>1, <2>2, <2>3, FencedWriteFalls DEF d
  <1>5. ASSUME NEW i \in Ids, NEW k \in 1..issued, NEW duration \in Leases,
               TouchFenced(i, k, duration)
        PROVE  TableFalls(directives, directives')
    <2>1. PICK t \in LockedReading, v \in LockedReading, u \in LockedReading :
            LET d == Sweep(directives, t, v)
            IN  FencedWrite(d, i, k, u, Touched(d[i], u + duration), u + duration)
      BY <1>5 DEF TouchFenced
    <2> DEFINE d == Sweep(directives, t, v)
    <2>2. d \in Table /\ TableFalls(directives, d)
      BY SweepType, SweepsFall
    <2>3. u + duration \in Nat \ {0}
      BY QueueAssumption
    <2> HIDE DEF d
    <2>4. d[i].status = "taken" => Falls(d[i], Touched(d[i], u + duration))
      <3>1. d[i] \in Directive /\ "done" \in {"pending", "done", "dropped"} /\ 1 \in Nat
        BY <2>2 DEF Table
      <3> QED BY <2>3, <3>1, FallsFacts
    <2> QED BY <2>1, <2>2, <2>4, FencedWriteFalls DEF d
  <1>6. ASSUME NEW i \in Ids, NEW k \in 1..issued, ParkFenced(i, k)
        PROVE  TableFalls(directives, directives')
    <2>1. directives[i].status = "taken" => Falls(directives[i], Parked(directives[i]))
      BY <1>0 DEF Table
    <2> QED BY <1>6, <2>1, FallsNothing, FencedWriteFalls DEF ParkFenced
  <1> QED BY <1>2, <1>3, <1>4, <1>5, <1>6 DEF WorkerStep

LEMMA WorkerStepFalls ==
    ASSUME TypeOK, WorkerStep
    PROVE  \/ TableFalls(directives, directives')
           \/ \E d : TableFalls(directives, d) /\ GivesToken(d, directives')
  BY WorkerFallsOrTakes, TakeGives

LEMMA OperatorStepFalls ==
    ASSUME TypeOK, OperatorStep
    PROVE  TableFalls(directives, directives')
  <1> USE ReadingType
  <1>1. ASSUME NEW i \in Ids, ParkForced(i)
        PROVE  TableFalls(directives, directives')
    <2>1. directives[i] \in Directive /\ directives[i].status = "taken" /\ 1 \in Nat \ {0}
      BY <1>1 DEF Table, ParkForced
    <2>2. Falls(directives[i], Parked(directives[i]))
      BY <2>1, FallsFacts
    <2> QED BY <1>1, <2>2, WriteFalls DEF ParkForced, Commit
  <1>2. ASSUME NEW i \in Ids, NEW n \in Priorities, Reprioritize(i, n)
        PROVE  TableFalls(directives, directives')
    <2>1. directives' = [directives EXCEPT ![i].priority = n]
      BY <1>2 DEF Reprioritize, Commit
    <2> QED BY <2>1 DEF TableFalls, Falls, Columns, Table, Directive
  <1>3. ASSUME Reap
        PROVE  TableFalls(directives, directives')
    BY <1>3, SweepsFall DEF Reap, Commit
  <1> QED BY <1>1, <1>2, <1>3 DEF OperatorStep

LEMMA ForcedWriteFalls ==
    ASSUME TypeOK, NEW p \in Procs, NEW matches \in BOOLEAN, NEW r,
           call[p].id \in Ids, ForcedWrite(p, matches, r),
           matches => Falls(directives[call[p].id], r)
    PROVE  TableFalls(directives, directives')
  <1>1. CASE matches
    <2>1. directives' = [directives EXCEPT ![call[p].id] = r]
      BY <1>1 DEF ForcedWrite, Commit
    <2> QED BY <1>1, <2>1, ReadingType, WriteFalls
  <1>2. CASE ~matches
    BY <1>2, FallsNothing DEF ForcedWrite, Commit
  <1> QED BY <1>1, <1>2

LEMMA CallStepFalls ==
    ASSUME TypeOK, NEW p \in Procs, CallStep(p)
    PROVE  TableFalls(directives, directives')
  <1> USE ReadingType
  <1> DEFINE i == call[p].id
             r == directives[i]
  <1>0. /\ \A op \in {"set_status", "defer", "unpark", "touch"} :
              AtUpdate(p, op) => i \in Ids /\ r \in Directive
        /\ Exists(r) \in BOOLEAN
        /\ 1 \in Nat \ {0} /\ 1 \in Nat /\ "done" \in {"pending", "done", "dropped"}
    BY RowCallType DEF Exists
  <1>1. CASE \/ \E op \in {"set_status", "defer", "unpark"}, j \in Ids : Check(p, op, j)
             \/ Abandon(p)
    BY <1>1, FallsNothing DEF Check, Abandon
  <1>2. ASSUME NEW t \in EarlyReading, Reclaim(p, t) \/ Promote(p, t)
        PROVE  TableFalls(directives, directives')
    BY <1>2, SweepsFall DEF Reclaim, Promote, Commit
  <1>3. ASSUME NEW s \in SetStatuses, SetStatusForced(p, s)
        PROVE  TableFalls(directives, directives')
    <2>1. PICK u \in EarlyReading : ForcedWrite(p, Exists(r), WithStatus(r, s, u))
      BY <1>3 DEF SetStatusForced
    <2>2. i \in Ids /\ r \in Directive
      BY <1>0, <1>3 DEF SetStatusForced
    <2> HIDE DEF r
    <2>3. Falls(r, WithStatus(r, s, u))
      BY <2>2, StatusFalls
    <2> QED BY <1>0, <2>1, <2>2, <2>3, ForcedWriteFalls DEF r
  <1>4. ASSUME NEW not_before \in DeferTimes, NEW deps \in SUBSET Ids,
               DeferForced(p, not_before, deps)
        PROVE  TableFalls(directives, directives')
    <2>1. ForcedWrite(p, Exists(r), Deferred(r, not_before, deps))
      BY <1>4 DEF DeferForced
    <2>2. i \in Ids /\ r \in Directive /\ not_before \in Nat
      BY <1>0, <1>4, QueueAssumption DEF DeferForced
    <2> HIDE DEF r
    <2>3. Falls(r, Deferred(r, not_before, deps))
      BY <1>0, <2>2, FallsFacts
    <2> QED BY <1>0, <2>1, <2>2, <2>3, ForcedWriteFalls DEF r
  <1>5. ASSUME Unpark(p)
        PROVE  TableFalls(directives, directives')
    <2> DEFINE matches == r.status = "parked"
               q == Unparked(r)
    <2>1. ForcedWrite(p, matches, q) /\ matches \in BOOLEAN
      BY <1>5 DEF Unpark
    <2>2. i \in Ids /\ r \in Directive
      BY <1>0, <1>5 DEF Unpark
    <2> HIDE DEF r
    <2>3. matches => Falls(r, q)
      BY <1>0, <2>2, FallsFacts
    <2> HIDE DEF q, matches
    <2> QED BY <2>1, <2>2, <2>3, ForcedWriteFalls DEF r
  <1>6. ASSUME NEW duration \in Leases, TouchForced(p, duration)
        PROVE  TableFalls(directives, directives')
    <2>1. PICK u \in EarlyReading :
            \/ /\ r.status = "taken"
               /\ directives' = [directives EXCEPT ![i] = Touched(r, u + duration)]
            \/ directives' = directives
      BY <1>6 DEF TouchForced, Commit
    <2>2. i \in Ids /\ r \in Directive /\ u + duration \in Nat \ {0}
      BY <1>0, <1>6, QueueAssumption DEF TouchForced
    <2> HIDE DEF r
    <2>3. r.status = "taken" => Falls(r, Touched(r, u + duration))
      BY <1>0, <2>2, FallsFacts
    <2> QED BY <2>1, <2>2, <2>3, WriteFalls, FallsNothing DEF r
  <1>7. ASSUME NEW policy \in Policies, NEW lane \in Lanes, NEW n \in Priorities,
               NEW parent \in Ids \cup {Null}, Push(p, policy, lane, n, parent)
        PROVE  TableFalls(directives, directives')
    <2>1. PICK j \in Ids :
            directives' = [directives EXCEPT ![j] = Pending(policy, lane, n, parent)]
      BY <1>7 DEF Push, Commit
    <2>2. Falls(directives[j], Pending(policy, lane, n, parent))
      BY DEF Falls, Columns, Pending
    <2> QED BY <2>1, <2>2, WriteFalls
  <1> QED BY <1>1, <1>2, <1>3, <1>4, <1>5, <1>6, <1>7 DEF CallStep

(***************************************************************************)
(* The two invariants.                                                     *)
(***************************************************************************)
ClaimsInv ==
    /\ TypeOK
    /\ TokensNameOneDirective
    /\ PlainStatuses => \A i \in Ids : Columns(directives[i])

OneEach(d, n) ==
    \A i \in Ids :
        /\ d[i].token \in Nat /\ d[i].token <= n
        /\ \A j \in Ids \ {i} : d[i].token = d[j].token => d[i].token = Null

LEMMA TokensFall ==
    ASSUME NEW d, NEW e, NEW n \in Nat, OneEach(d, n), TableFalls(d, e)
    PROVE  OneEach(e, n)
  <1> SUFFICES ASSUME NEW i \in Ids
               PROVE  /\ e[i].token \in Nat /\ e[i].token <= n
                      /\ \A j \in Ids \ {i} : e[i].token = e[j].token => e[i].token = Null
    BY DEF OneEach
  <1>1. \A j \in Ids : e[j].token \in {d[j].token, Null}
    BY DEF TableFalls, Falls
  <1>2. e[i].token \in Nat /\ e[i].token <= n
    BY <1>1 DEF OneEach, Null
  <1>3. \A j \in Ids \ {i} : e[i].token = e[j].token => e[i].token = Null
    BY <1>1 DEF OneEach, Null
  <1> QED BY <1>2, <1>3

LEMMA TokenGiven ==
    ASSUME NEW d, NEW e, issued \in Nat, OneEach(d, issued), GivesToken(d, e)
    PROVE  OneEach(e, issued')
  <1>1. PICK k \in Ids :
          /\ e[k].token = issued + 1 /\ issued' = issued + 1
          /\ \A j \in Ids \ {k} : e[j] = d[j]
    BY DEF GivesToken
  <1>2. \A j \in Ids \ {k} : e[j].token \in Nat /\ e[j].token <= issued
    BY <1>1 DEF OneEach
  <1> SUFFICES ASSUME NEW i \in Ids
               PROVE  /\ e[i].token \in Nat /\ e[i].token <= issued'
                      /\ \A j \in Ids \ {i} : e[i].token = e[j].token => e[i].token = Null
    BY DEF OneEach
  <1>3. CASE i = k
    BY <1>1, <1>2, <1>3
  <1>4. CASE i # k
    <2>1. e[i].token \in Nat /\ e[i].token <= issued /\ e[i].token # e[k].token
      BY <1>1, <1>2, <1>4
    <2>2. \A j \in Ids \ {i, k} : e[i].token = e[j].token => e[i].token = Null
      BY <1>1, <1>4 DEF OneEach
    <2> QED BY <1>1, <2>1, <2>2
  <1> QED BY <1>3, <1>4

LEMMA IssuedGrows ==
    ASSUME TypeOK, [Next]_vars
    PROVE  issued <= issued'
  <1>1. issued \in Nat
    BY ReadingType
  <1>2. issued' \in {issued, issued + 1}
    <2>1. CASE WorkerStep
      <3>1. ASSUME NEW lane, NEW policy, NEW duration, Take(lane, policy, duration)
            PROVE  issued' = issued + 1
        BY <3>1, Zenon DEF Take
      <3>2. ASSUME NEW lane, NEW policy, TakeNothing(lane, policy)
            PROVE  issued' = issued
        BY <3>2, Zenon DEF TakeNothing
      <3>3. \A d, i, k, u, r, g : FencedWrite(d, i, k, u, r, g) => issued' = issued
        BY Zenon DEF FencedWrite
      <3>4. ASSUME NEW i, NEW k, \/ \E s : SetStatusFenced(i, k, s)
                                \/ \E t, deps : DeferFenced(i, k, t, deps)
                                \/ \E duration : TouchFenced(i, k, duration)
                                \/ ParkFenced(i, k)
            PROVE  issued' = issued
        BY <3>3, <3>4, Zenon DEF SetStatusFenced, DeferFenced, TouchFenced, ParkFenced
      <3> QED BY <2>1, <3>1, <3>2, <3>4, Zenon DEF WorkerStep
    <2>2. CASE OperatorStep
      BY <2>2 DEF OperatorStep, ParkForced, Reprioritize, Reap
    <2>3. ASSUME NEW p \in Procs, CallStep(p)
          PROVE  issued' = issued
      BY <2>3, Zenon DEF CallStep, Check, Reclaim, Promote, SetStatusForced, DeferForced, Unpark,
                  ForcedWrite, TouchForced, Push, Abandon
    <2>4. CASE Tick \/ UNCHANGED vars
      BY <2>4 DEF Tick, vars
    <2> QED BY <2>1, <2>2, <2>3, <2>4 DEF Next
  <1> QED BY <1>1, <1>2

LEMMA TokensInductive ==
    ASSUME TypeOK, TokensNameOneDirective, [Next]_vars
    PROVE  TokensNameOneDirective'
  <1>0. issued \in Nat /\ issued' \in Nat /\ issued <= issued'
    <2>1. TypeOK'
      BY NextType
    <2> QED BY <2>1, IssuedGrows, ReadingType DEF TypeOK
  <1>1. OneEach(directives, issued)
    BY DEF TokensNameOneDirective, OneEach, TypeOK, Directive
  <1>2. CASE TableFalls(directives, directives')
    <2>1. OneEach(directives', issued)
      BY <1>0, <1>1, <1>2, TokensFall
    <2> QED BY <1>0, <2>1 DEF TokensNameOneDirective, OneEach
  <1>3. ASSUME NEW d, TableFalls(directives, d), GivesToken(d, directives')
        PROVE  TokensNameOneDirective'
    <2>1. OneEach(directives', issued')
      BY <1>0, <1>1, <1>3, TokensFall, TokenGiven
    <2> QED BY <2>1 DEF TokensNameOneDirective, OneEach
  <1>4. CASE Tick \/ UNCHANGED vars
    BY <1>2, <1>4, FallsNothing DEF Tick, vars
  <1> QED BY <1>2, <1>3, <1>4, WorkerStepFalls, OperatorStepFalls, CallStepFalls DEF Next

LEMMA ClaimsInductive == ClaimsInv /\ [Next]_vars => ClaimsInv'
  <1> SUFFICES ASSUME ClaimsInv, [Next]_vars PROVE ClaimsInv'
    OBVIOUS
  <1>0. TypeOK /\ TypeOK' /\ TokensNameOneDirective'
    BY NextType, TokensInductive DEF ClaimsInv
  <1>1. ASSUME NEW d, TableFalls(directives, d)
        PROVE  PlainStatuses => \A i \in Ids : Columns(d[i])
    BY <1>1 DEF ClaimsInv, TableFalls, Falls
  <1>2. CASE TableFalls(directives, directives')
    BY <1>0, <1>1, <1>2 DEF ClaimsInv
  <1>3. ASSUME NEW d, TableFalls(directives, d), GivesToken(d, directives')
        PROVE  ClaimsInv'
    <2>1. PlainStatuses => \A i \in Ids : Columns(directives'[i])
      BY <1>1, <1>3 DEF GivesToken
    <2> QED BY <1>0, <2>1 DEF ClaimsInv
  <1>4. CASE Tick \/ UNCHANGED vars
    BY <1>2, <1>4, FallsNothing DEF Tick, vars
  <1> QED BY <1>0, <1>2, <1>3, <1>4, WorkerStepFalls, OperatorStepFalls, CallStepFalls DEF Next

LEMMA ClaimsInit == Init => ClaimsInv
  <1> SUFFICES ASSUME Init PROVE ClaimsInv
    OBVIOUS
  <1>1. Absent.status = "absent" /\ Absent.token = Null
    BY DEF Absent, Pending
  <1>2. \A i \in Ids : directives[i] = Absent
    BY DEF Init
  <1>3. \A i \in Ids : Columns(directives[i])
    BY <1>1, <1>2 DEF Columns
  <1>4. TokensNameOneDirective
    BY <1>1, <1>2 DEF TokensNameOneDirective, Init, Null
  <1> QED BY <1>3, <1>4, InitType DEF ClaimsInv

\* A claim token names one directive, however long ago it was handed out, so
\* no stale worker and no parked protected row is taken for another (take).
THEOREM TokensAlwaysNameOne == Spec => []TokensNameOneDirective
  <1>1. ClaimsInv /\ [Next]_vars => ClaimsInv'
    BY ClaimsInductive
  <1>2. ClaimsInv => TokensNameOneDirective
    BY DEF ClaimsInv
  <1> QED BY <1>1, <1>2, ClaimsInit, PTL DEF Spec

\* Where set_status is asked for no other status than the command line knows,
\* the columns of every claim agree: a taken row has all of them, and nothing
\* is left in a row that waits (take, release_or_hold, defer, unpark).
THEOREM ClaimColumnsAlwaysAgree == PlainStatuses => (Spec => []ClaimColumnsAgree)
  <1> SUFFICES ASSUME PlainStatuses PROVE Spec => []ClaimColumnsAgree
    OBVIOUS
  <1>1. ClaimsInv /\ [Next]_vars => ClaimsInv'
    BY ClaimsInductive
  <1>2. ClaimsInv => ClaimColumnsAgree
    BY DEF ClaimsInv, ClaimColumnsAgree, Columns
  <1> QED BY <1>1, <1>2, ClaimsInit, PTL DEF Spec

-----------------------------------------------------------------------------
(***************************************************************************)
(* Order.  A sweep under the lock sees at least what the last commit left, *)
(* so whatever could be claimed then is a candidate.                       *)
(***************************************************************************)
LEMMA ReleaseIsPending ==
    ASSUME NEW r \in Directive, r.policy = "requeue"
    PROVE  ReleaseOrHold(r).status = "pending"
  <1> DEFINE q == Unclaimed(r)
  <1>1. q \in Directive
    BY UnclaimedType
  <1> HIDE DEF q
  <1>2. \A n : [q EXCEPT !.status = "pending", !.requeue_count = n].status = "pending"
    BY <1>1 DEF Directive
  <1>3. ReleaseOrHold(r) = [q EXCEPT !.status = "pending", !.requeue_count = q.requeue_count + 1]
    BY DEF ReleaseOrHold, q
  <1> QED BY <1>2, <1>3

LEMMA PromotedIsPending ==
    ASSUME NEW r \in Directive
    PROVE  Promoted(r).status = "pending" /\ Promoted(r).priority = r.priority
  <1> DEFINE q == Unclaimed(r)
  <1>1. q \in Directive /\ q.priority = r.priority
    <2>1. q \in Directive
      BY UnclaimedType
    <2> QED BY <2>1 DEF Unclaimed, Directive
  <1> HIDE DEF q
  <1>2. Promoted(r) = [q EXCEPT !.status = "pending", !.not_before = Null, !.blocked_by = {}]
    BY DEF Promoted, q
  <1> QED BY <1>1, <1>2 DEF Directive

LEMMA ReleaseKeepsPriority ==
    ASSUME NEW r \in Directive
    PROVE  ReleaseOrHold(r).priority = r.priority
  <1> DEFINE q == Unclaimed(r)
  <1>1. q \in Directive /\ q.priority = r.priority
    <2>1. q \in Directive
      BY UnclaimedType
    <2> QED BY <2>1 DEF Unclaimed, Directive
  <1> HIDE DEF q
  <1>2. \A n : [q EXCEPT !.status = "pending", !.requeue_count = n].priority = r.priority
    BY <1>1 DEF Directive
  <1>3. CASE r.policy = "hold"
    BY <1>3 DEF ReleaseOrHold, Directive
  <1>4. CASE r.policy # "hold"
    <2>1. ReleaseOrHold(r) = [q EXCEPT !.status = "pending", !.requeue_count = q.requeue_count + 1]
      BY <1>4 DEF ReleaseOrHold, q
    <2> QED BY <1>2, <2>1
  <1> QED BY <1>3, <1>4

\* After the sweeps at t and v every row that was claimable at an earlier
\* instant is pending, and none has another priority.
LEMMA SweepOffers ==
    ASSUME NEW d \in Table, NEW t \in Nat, NEW v \in Nat,
           NEW t0 \in Nat, t0 <= t, t0 <= v, NEW j \in Ids
    PROVE  /\ Sweep(d, t, v)[j].priority = d[j].priority
           /\ \/ d[j].status = "pending"
              \/ Expired(d[j], t0) /\ d[j].policy = "requeue"
              \/ Ready(d, d[j], t0)
              => Sweep(d, t, v)[j].status = "pending"
  <1> DEFINE e == ReclaimExpired(d, t)
  <1>1. e \in Table /\ \A i \in Ids : d[i] \in Directive /\ e[i] \in Directive
    BY ReclaimExpiredType DEF Table
  <1>2. \A i \in Ids : e[i] = IF Expired(d[i], t) THEN ReleaseOrHold(d[i]) ELSE d[i]
    BY DEF ReclaimExpired
  <1>3. Sweep(d, t, v)[j] = IF Ready(e, e[j], v) THEN Promoted(e[j]) ELSE e[j]
    BY DEF Sweep, ReclaimDeferred
  <1> HIDE DEF e
  <1>4. Sweep(d, t, v)[j].priority = d[j].priority
    BY <1>1, <1>2, <1>3, ReleaseKeepsPriority, PromotedIsPending
  <1>5. d[j].status = "pending" => e[j].status = "pending"
    BY <1>2 DEF Expired
  <1>6. Expired(d[j], t0) /\ d[j].policy = "requeue" => e[j].status = "pending"
    <2>1. Expired(d[j], t0) => Expired(d[j], t)
      BY <1>1 DEF Expired, Directive
    <2> QED BY <1>1, <1>2, <2>1, ReleaseIsPending
  <1>7. e[j].status = "pending" => Sweep(d, t, v)[j].status = "pending"
    BY <1>1, <1>3, PromotedIsPending
  <1>8. Ready(d, d[j], t0) => Ready(e, e[j], v)
    <2> SUFFICES ASSUME Ready(d, d[j], t0) PROVE Ready(e, e[j], v)
      OBVIOUS
    <2>1. e[j] = d[j] /\ d[j].status = "deferred" /\ d[j].not_before <= t0
          /\ DependenciesSatisfied(d, d[j].blocked_by)
      BY <1>2 DEF Ready, Expired
    <2>2. d[j].not_before <= v
      BY <1>1, <2>1 DEF Directive
    <2>3. \A i \in Ids : d[i].status \in Terminal => e[i] = d[i]
      BY <1>2 DEF Terminal, Expired
    <2>4. DependenciesSatisfied(e, d[j].blocked_by)
      BY <1>1, <2>1, <2>3 DEF DependenciesSatisfied, Directive
    <2> QED BY <2>1, <2>2, <2>4 DEF Ready
  <1>9. Ready(e, e[j], v) => Sweep(d, t, v)[j].status = "pending"
    BY <1>1, <1>3, PromotedIsPending
  <1> QED BY <1>4, <1>5, <1>6, <1>7, <1>8, <1>9

LEMMA TakeTakesHead ==
    ASSUME TypeOK, NEW lane \in Lanes, NEW policy \in Policies, NEW duration \in Leases,
           Take(lane, policy, duration),
           NEW i \in Ids, NEW j \in Ids, i # j,
           directives'[i].token > issued, \A k \in Ids : directives[k].token <= issued,
           Claimable(j, directives[i].lane, directives[i].policy)
    PROVE  Before(directives, i, j)
  <1> USE ReadingType
  <1>1. PICK t \in LockedReading, v \in LockedReading, u \in LockedReading, k \in Ids :
          /\ IsHead(Sweep(directives, t, v), k, lane, policy)
          /\ Commit([Sweep(directives, t, v) EXCEPT
                      ![k] = Taken(@, issued + 1, u + duration, u)])
    BY DEF Take
  <1> DEFINE d == Sweep(directives, t, v)
  <1>2. /\ d \in Table /\ TableFalls(directives, d) /\ KeepsRows(directives, d)
        /\ t \in Nat /\ v \in Nat
    BY SweepType, SweepsFall, SweepsKeep
  <1>3. committed \in Nat /\ committed <= t /\ committed <= v
    BY <1>2 DEF LockedReading, TypeOK
  <1>4. i = k
    <2> SUFFICES ASSUME i # k PROVE FALSE
      OBVIOUS
    <2> HIDE DEF d
    <2>1. directives'[i] = d[i]
      BY <1>1, <1>2 DEF Commit, Table, d
    <2>2. d[i].token \in {directives[i].token, Null} /\ directives[i].token \in Nat
      BY <1>2 DEF TableFalls, Falls, Table, Directive
    <2> QED BY <2>1, <2>2 DEF Null
  <1>5. /\ d[j].priority = directives[j].priority /\ d[i].priority = directives[i].priority
        /\ d[j].status = "pending"
    <2>1. \A m \in Ids : d[m].priority = directives[m].priority
      BY <1>2, <1>3, SweepOffers
    <2>2. d[j].status = "pending"
      BY <1>2, <1>3, SweepOffers DEF Claimable
    <2> QED BY <2>1, <2>2
  <1>6. IsHead(d, i, lane, policy)
    BY <1>1, <1>4
  <1> HIDE DEF d
  <1>7. Candidate(d, j, lane, policy)
    <2>1. d[i].lane = lane /\ d[i].policy = policy
      BY <1>6 DEF IsHead, Candidate
    <2>2. /\ directives[i].lane = lane /\ directives[i].policy = policy
          /\ d[j].lane = lane /\ d[j].policy = policy
      BY <1>2, <2>1 DEF KeepsRows, Fixed, Claimable
    <2> QED BY <1>5, <2>2 DEF Candidate
  <1>8. Before(d, i, j)
    BY <1>6, <1>7 DEF IsHead
  <1> QED BY <1>5, <1>8 DEF Before

HeadTaken ==
    \A i, j \in Ids :
        /\ directives'[i].status = "taken" /\ directives'[i].token > issued
        /\ i # j
        /\ Claimable(j, directives[i].lane, directives[i].policy)
        => Before(directives, i, j)

\* Where no token is given out, nothing is claimed.
LEMMA NothingTaken ==
    ASSUME TypeOK, TokensNameOneDirective, TableFalls(directives, directives')
    PROVE  HeadTaken
  <1> SUFFICES ASSUME NEW i \in Ids, directives'[i].token > issued PROVE FALSE
    BY DEF HeadTaken
  <1>1. /\ issued \in Nat /\ directives[i].token \in Nat
        /\ directives[i].token <= issued
    BY ReadingType DEF TokensNameOneDirective, Table, Directive
  <1>2. directives'[i].token \in {directives[i].token, Null}
    BY DEF TableFalls, Falls
  <1> QED BY <1>1, <1>2 DEF Null

LEMMA NextTakesHead ==
    ASSUME TypeOK, TokensNameOneDirective, [Next]_vars
    PROVE  HeadTaken
  <1> SUFFICES ASSUME ~TableFalls(directives, directives') PROVE HeadTaken
    BY NothingTaken
  <1>1. \A k \in Ids : directives[k].token <= issued
    BY DEF TokensNameOneDirective
  <1>2. \E lane \in Lanes, policy \in Policies, duration \in Leases :
            Take(lane, policy, duration)
    <2>1. ~(Tick \/ UNCHANGED vars)
      BY FallsNothing DEF Tick, vars
    <2>2. WorkerStep
      BY <2>1, OperatorStepFalls, CallStepFalls DEF Next
    <2> QED BY <2>2, WorkerFallsOrTakes
  <1> QED BY <1>1, <1>2, TakeTakesHead DEF HeadTaken

\* Take never lets worse work overtake: a row whose lease lapsed or whose
\* deferral ended by the last commit counts, for it sweeps before it selects.
THEOREM TakesAlwaysTheHead == Spec => TakesTheHead
  <1>1. ClaimsInv /\ [Next]_vars => [HeadTaken]_vars
    BY NextTakesHead DEF ClaimsInv
  <1>2. ClaimsInv /\ [Next]_vars => ClaimsInv'
    BY ClaimsInductive
  <1> QED BY <1>1, <1>2, ClaimsInit, PTL DEF Spec, TakesTheHead, HeadTaken

-----------------------------------------------------------------------------
(***************************************************************************)
(* What is over stays over, and what is deferred waits.  Every row that a  *)
(* transaction writes, and no sweep writes, is claimed, absent, parked or  *)
(* ready by then; the exceptions are the two forced calls that may name    *)
(* any row.                                                                *)
(***************************************************************************)
Steady(e) ==
    \A i \in Ids :
        /\ directives[i].status \in Terminal => e[i].status \in Terminal
        /\ directives[i].status = "deferred" /\ e[i].status \in {"pending", "taken"}
           => Ready(directives, directives[i], now)

Loose(i) ==
    /\ directives[i].status \notin Terminal
    /\ directives[i].status = "deferred" => Ready(directives, directives[i], now)

LEMMA NothingSteady == Steady(directives)
  BY DEF Steady

LEMMA WriteSteady ==
    ASSUME NEW d \in Table, NEW i \in Ids, NEW r, Steady(d), Loose(i)
    PROVE  Steady([d EXCEPT ![i] = r])
  BY DEF Steady, Loose, Table

LEMMA ClaimableIsLoose ==
    ASSUME NEW d, NEW i \in Ids, Steady(d), d[i].status \in {"taken", "pending"}
    PROVE  Loose(i)
  BY DEF Steady, Loose, Terminal

LEMMA ReleaseIsOpen ==
    ASSUME NEW r \in Directive
    PROVE  /\ ReleaseOrHold(r).status \in {"pending", "parked"}
           /\ Promoted(r).status = "pending"
  <1>1. Unclaimed(r) \in Directive
    BY UnclaimedType
  <1> DEFINE q == Unclaimed(r)
  <1> HIDE DEF q
  <1>2. /\ [q EXCEPT !.status = "pending", !.requeue_count = q.requeue_count + 1].status = "pending"
        /\ [q EXCEPT !.status = "pending", !.not_before = Null, !.blocked_by = {}].status = "pending"
    BY <1>1 DEF q, Directive
  <1>3. Promoted(r).status = "pending"
    BY <1>2 DEF Promoted, q
  <1>4. CASE r.policy = "hold"
    BY <1>3, <1>4 DEF ReleaseOrHold, Directive
  <1>5. CASE r.policy # "hold"
    BY <1>2, <1>3, <1>5 DEF ReleaseOrHold, q
  <1> QED BY <1>4, <1>5

\* A clock reading is never later than now, and a sweep of leases finishes
\* nothing that a deferred directive waits for.
LEMMA SweepsSteady ==
    ASSUME TypeOK, NEW t \in Nat, NEW v \in Nat, t <= now, v <= now
    PROVE  /\ Steady(ReclaimExpired(directives, t))
           /\ Steady(ReapStale(directives, t))
           /\ Steady(ReclaimDeferred(directives, t))
           /\ Steady(Sweep(directives, t, v))
  <1> DEFINE d == ReclaimExpired(directives, t)
  <1>0. /\ directives \in Table /\ d \in Table /\ now \in Nat
        /\ \A i \in Ids : directives[i] \in Directive /\ d[i] \in Directive
    BY ReadingType, ReclaimExpiredType DEF Table, TypeOK
  <1>1. \A i \in Ids :
          /\ d[i] = IF Expired(directives[i], t) THEN ReleaseOrHold(directives[i])
                                                 ELSE directives[i]
          /\ Expired(directives[i], t) => directives[i].status = "taken"
          /\ Stale(directives[i], t) => directives[i].status = "taken"
    BY DEF ReclaimExpired, Expired, Stale
  <1> HIDE DEF d
  <1>2. Steady(d) /\ Steady(ReapStale(directives, t))
    <2>1. Steady(d)
      BY <1>0, <1>1, ReleaseIsOpen DEF Steady, Terminal
    <2>2. Steady(ReapStale(directives, t))
      BY <1>0, <1>1, ReleaseIsOpen DEF Steady, Terminal, ReapStale
    <2> QED BY <2>1, <2>2
  <1>3. ASSUME NEW i \in Ids, NEW e \in Table, e \in {directives, d},
               NEW w \in {t, v}, Ready(e, e[i], w)
        PROVE  Loose(i)
    <2>1. e[i] = directives[i] /\ directives[i].status = "deferred"
      BY <1>0, <1>1, <1>3, ReleaseIsOpen DEF Ready
    <2>2. \A j \in directives[i].blocked_by : directives[j].status \in Terminal
      <3>1. directives[i].blocked_by \subseteq Ids
        BY <1>0 DEF Directive
      <3>2. \A j \in directives[i].blocked_by : e[j].status \in Terminal
        BY <1>3, <2>1 DEF Ready, DependenciesSatisfied
      <3> QED BY <1>0, <1>1, <1>3, <3>1, <3>2, ReleaseIsOpen DEF Terminal
    <2>3. directives[i].not_before \in Nat /\ directives[i].not_before <= w
      BY <1>0, <1>3, <2>1 DEF Ready, Directive
    <2> QED BY <1>0, <2>1, <2>2, <2>3 DEF Loose, Ready, DependenciesSatisfied, Terminal
  <1>4. ASSUME NEW e \in Table, e \in {directives, d}, NEW w \in {t, v}
        PROVE  Steady(ReclaimDeferred(e, w))
    <2>1. Steady(e)
      BY <1>2, <1>4, NothingSteady
    <2>2. \A i \in Ids : Ready(e, e[i], w) => Loose(i)
      BY <1>3, <1>4
    <2> QED BY <2>1, <2>2 DEF Steady, Loose, ReclaimDeferred
  <1> QED BY <1>0, <1>2, <1>4 DEF Sweep, d

LEMMA FencedWriteSteady ==
    ASSUME NEW d \in Table, NEW i \in Ids, NEW k, NEW u, NEW r, NEW g,
           FencedWrite(d, i, k, u, r, g), Steady(d)
    PROVE  Steady(directives')
  <1>1. CASE HoldsClaim(d[i], k, u)
    <2>1. Loose(i)
      BY <1>1, ClaimableIsLoose DEF HoldsClaim
    <2> QED BY <1>1, <2>1, WriteSteady DEF FencedWrite, Commit
  <1>2. CASE ~HoldsClaim(d[i], k, u)
    BY <1>2 DEF FencedWrite, Commit
  <1> QED BY <1>1, <1>2

LEMMA WorkerStepSteady ==
    ASSUME TypeOK, WorkerStep
    PROVE  Steady(directives')
  <1> USE ReadingType
  <1>0. /\ directives \in Table
        /\ \A t \in LockedReading : t \in Nat /\ t <= now
    BY DEF TypeOK, LockedReading
  <1>1. \A t, v \in LockedReading :
          /\ ReclaimExpired(directives, t) \in Table /\ Steady(ReclaimExpired(directives, t))
          /\ Sweep(directives, t, v) \in Table /\ Steady(Sweep(directives, t, v))
    BY <1>0, ReclaimExpiredType, SweepType, SweepsSteady
  <1>2. ASSUME NEW lane \in Lanes, NEW policy \in Policies, NEW duration \in Leases,
               Take(lane, policy, duration)
        PROVE  Steady(directives')
    <2>1. PICK t \in LockedReading, v \in LockedReading, u \in LockedReading, i \in Ids :
            /\ IsHead(Sweep(directives, t, v), i, lane, policy)
            /\ directives' = [Sweep(directives, t, v) EXCEPT
                                ![i] = Taken(@, issued + 1, u + duration, u)]
      BY <1>2 DEF Take, Commit
    <2>2. Loose(i)
      BY <1>1, <2>1, ClaimableIsLoose DEF IsHead, Candidate
    <2> QED BY <1>1, <2>1, <2>2, WriteSteady
  <1>3. ASSUME NEW lane \in Lanes, NEW policy \in Policies, TakeNothing(lane, policy)
        PROVE  Steady(directives')
    BY <1>1, <1>3 DEF TakeNothing, Commit
  <1>4. ASSUME NEW i \in Ids, NEW k \in 1..issued, NEW s \in SetStatuses,
               SetStatusFenced(i, k, s)
        PROVE  Steady(directives')
    BY <1>1, <1>4, FencedWriteSteady DEF SetStatusFenced
  <1>5. ASSUME NEW i \in Ids, NEW k \in 1..issued, NEW not_before \in DeferTimes,
               NEW deps \in SUBSET Ids, DeferFenced(i, k, not_before, deps)
        PROVE  Steady(directives')
    BY <1>1, <1>5, FencedWriteSteady DEF DeferFenced
  <1>6. ASSUME NEW i \in Ids, NEW k \in 1..issued, NEW duration \in Leases,
               TouchFenced(i, k, duration)
        PROVE  Steady(directives')
    BY <1>1, <1>6, FencedWriteSteady DEF TouchFenced
  <1>7. ASSUME NEW i \in Ids, NEW k \in 1..issued, ParkFenced(i, k)
        PROVE  Steady(directives')
    BY <1>0, <1>7, NothingSteady, FencedWriteSteady DEF ParkFenced
  <1> QED BY <1>2, <1>3, <1>4, <1>5, <1>6, <1>7 DEF WorkerStep

LEMMA OperatorStepSteady ==
    ASSUME TypeOK, OperatorStep
    PROVE  Steady(directives')
  <1> USE ReadingType
  <1>1. ASSUME NEW i \in Ids, ParkForced(i)
        PROVE  Steady(directives')
    <2>1. Loose(i)
      BY <1>1 DEF ParkForced, Loose, Terminal
    <2> QED BY <1>1, <2>1, NothingSteady, WriteSteady DEF ParkForced, Commit
  <1>2. ASSUME NEW i \in Ids, NEW n \in Priorities, Reprioritize(i, n)
        PROVE  Steady(directives')
    <2>1. directives' = [directives EXCEPT ![i].priority = n]
      BY <1>2 DEF Reprioritize, Commit
    <2>2. \A j \in Ids : directives'[j].status = directives[j].status
      BY <2>1 DEF Table, Directive
    <2> QED BY <2>2 DEF Steady, Terminal
  <1>3. ASSUME Reap
        PROVE  Steady(directives')
    <2>1. \A t \in EarlyReading : t \in Nat /\ t <= now
      BY DEF TypeOK, EarlyReading
    <2> QED BY <1>3, <2>1, SweepsSteady DEF Reap, Commit
  <1> QED BY <1>1, <1>2, <1>3 DEF OperatorStep

\* The forced calls that may reopen row i in this step.
Overrides(p, i, ops) == /\ call[p].id = i
                        /\ call[p].op \in ops
                        /\ call[p].step = "update"

LEMMA CallStepSteady ==
    ASSUME TypeOK, NEW p \in Procs, CallStep(p)
    PROVE  \/ Steady(directives')
           \/ \E i \in Ids :
                /\ \A j \in Ids \ {i} : directives'[j] = directives[j]
                /\ \/ Overrides(p, i, {"set_status"})
                   \/ Overrides(p, i, {"defer"}) /\ directives'[i].status = "deferred"
  <1> USE ReadingType
  <1> DEFINE i == call[p].id
             r == directives[i]
             Goal == \/ Steady(directives')
                     \/ \E n \in Ids :
                          /\ \A j \in Ids \ {n} : directives'[j] = directives[j]
                          /\ \/ Overrides(p, n, {"set_status"})
                             \/ Overrides(p, n, {"defer"}) /\ directives'[n].status = "deferred"
  <1>0. /\ directives \in Table
        /\ \A op \in {"set_status", "defer", "unpark", "touch"} :
              AtUpdate(p, op) => i \in Ids /\ r \in Directive
        /\ \A t \in EarlyReading : t \in Nat /\ t <= now
    BY RowCallType DEF TypeOK, EarlyReading
  <1>1. CASE \/ \E op \in {"set_status", "defer", "unpark"}, j \in Ids : Check(p, op, j)
             \/ Abandon(p)
    BY <1>1, NothingSteady DEF Check, Abandon
  <1>2. ASSUME NEW t \in EarlyReading, Reclaim(p, t) \/ Promote(p, t)
        PROVE  Steady(directives')
    BY <1>0, <1>2, SweepsSteady DEF Reclaim, Promote, Commit
  <1>3. ASSUME NEW s \in SetStatuses, SetStatusForced(p, s)
        PROVE  Goal
    <2>1. i \in Ids /\ Overrides(p, i, {"set_status"})
      BY <1>0, <1>3 DEF SetStatusForced, AtUpdate, Overrides
    <2>2. PICK u \in EarlyReading : ForcedWrite(p, Exists(r), WithStatus(r, s, u))
      BY <1>3 DEF SetStatusForced
    <2>3. \A j \in Ids \ {i} : directives'[j] = directives[j]
      BY <1>0, <2>1, <2>2 DEF ForcedWrite, Commit, Table
    <2> QED BY <2>1, <2>3
  <1>4. ASSUME NEW not_before \in DeferTimes, NEW deps \in SUBSET Ids,
               DeferForced(p, not_before, deps)
        PROVE  Goal
    <2>1. i \in Ids /\ r \in Directive /\ Overrides(p, i, {"defer"})
      BY <1>0, <1>4 DEF DeferForced, AtUpdate, Overrides
    <2>2. ForcedWrite(p, Exists(r), Deferred(r, not_before, deps))
      BY <1>4 DEF DeferForced
    <2>3. Deferred(r, not_before, deps).status = "deferred"
      <3>1. Unclaimed(r) \in Directive
        BY <2>1, UnclaimedType
      <3> QED BY <3>1 DEF Deferred, Directive
    <2>4. \A j \in Ids \ {i} : directives'[j] = directives[j]
      BY <1>0, <2>1, <2>2 DEF ForcedWrite, Commit, Table
    <2>5. CASE Exists(r)
      <3>1. directives' = [directives EXCEPT ![i] = Deferred(r, not_before, deps)]
        BY <2>2, <2>5 DEF ForcedWrite, Commit
      <3>2. directives'[i].status = "deferred"
        BY <1>0, <2>1, <2>3, <3>1 DEF Table
      <3> QED BY <2>1, <2>4, <3>2
    <2>6. CASE ~Exists(r)
      BY <2>2, <2>6, NothingSteady DEF ForcedWrite, Commit
    <2> QED BY <2>5, <2>6
  <1>5. ASSUME Unpark(p)
        PROVE  Steady(directives')
    <2>1. i \in Ids /\ ForcedWrite(p, r.status = "parked", Unparked(r))
      BY <1>0, <1>5 DEF Unpark
    <2>2. r.status = "parked" => Loose(i)
      BY DEF Loose, Terminal
    <2> QED BY <1>0, <2>1, <2>2, NothingSteady, WriteSteady DEF ForcedWrite, Commit
  <1>6. ASSUME NEW duration \in Leases, TouchForced(p, duration)
        PROVE  Steady(directives')
    <2>1. PICK u \in EarlyReading :
            \/ /\ r.status = "taken"
               /\ directives' = [directives EXCEPT ![i] = Touched(r, u + duration)]
            \/ directives' = directives
      BY <1>6 DEF TouchForced, Commit
    <2>2. i \in Ids /\ (r.status = "taken" => Loose(i))
      BY <1>0, <1>6 DEF TouchForced, Loose, Terminal
    <2> QED BY <1>0, <2>1, <2>2, NothingSteady, WriteSteady
  <1>7. ASSUME NEW policy \in Policies, NEW lane \in Lanes, NEW n \in Priorities,
               NEW parent \in Ids \cup {Null}, Push(p, policy, lane, n, parent)
        PROVE  Steady(directives')
    <2>1. PICK j \in Ids :
            /\ IsNextId(directives, j)
            /\ directives' = [directives EXCEPT ![j] = Pending(policy, lane, n, parent)]
      BY <1>7 DEF Push, Commit
    <2>2. Loose(j)
      BY <2>1 DEF IsNextId, Exists, Loose, Terminal
    <2> QED BY <1>0, <2>1, <2>2, NothingSteady, WriteSteady
  <1> QED BY <1>1, <1>2, <1>3, <1>4, <1>5, <1>6, <1>7 DEF CallStep

LEMMA NextSteady ==
    ASSUME TypeOK, [Next]_vars
    PROVE  \/ Steady(directives')
           \/ \E p \in Procs, i \in Ids :
                /\ \A j \in Ids \ {i} : directives'[j] = directives[j]
                /\ \/ Overrides(p, i, {"set_status"})
                   \/ Overrides(p, i, {"defer"}) /\ directives'[i].status = "deferred"
  <1>1. CASE Tick \/ UNCHANGED vars
    BY <1>1, NothingSteady DEF Tick, vars
  <1> QED BY <1>1, WorkerStepSteady, OperatorStepSteady, CallStepSteady DEF Next

StaysFinished ==
    \A i \in Ids :
        /\ directives[i].status \in Terminal
        /\ directives'[i].status \notin Terminal
        => \E p \in Procs : /\ call[p].id = i
                            /\ call[p].op \in {"set_status", "defer"}
                            /\ call[p].step = "update"

PromotedReady ==
    \A i \in Ids :
        /\ directives[i].status = "deferred"
        /\ directives'[i].status \in {"pending", "taken"}
        => \/ Ready(directives, directives[i], now)
           \/ \E p \in Procs : /\ call[p].id = i
                               /\ call[p].op = "set_status"
                               /\ call[p].step = "update"

\* A finished directive is reopened only by a forced set_status or defer that
\* names it, for any number of stale tokens, sweeps and calls in flight.
THEOREM FinishedAlwaysStays == Spec => FinishedStaysFinished
  <1>1. TypeOK /\ [Next]_vars => [StaysFinished]_vars
    BY NextSteady, Zenon DEF Steady, Overrides, StaysFinished
  <1> QED BY <1>1, TypeCorrect, PTL DEF Spec, FinishedStaysFinished, StaysFinished

\* A deferred directive comes back only when its time has come and what it
\* waits for is finished, by the same transaction's own sweeps too; a forced
\* set_status on it is the exception.
THEOREM PromotionsAlwaysReady == Spec => PromotedOnlyWhenReady
  <1>1. TypeOK /\ [Next]_vars => [PromotedReady]_vars
    BY NextSteady DEF Steady, Overrides, PromotedReady
  <1> QED BY <1>1, TypeCorrect, PTL DEF Spec, PromotedOnlyWhenReady, PromotedReady

-----------------------------------------------------------------------------
(***************************************************************************)
(* Lost claims are counted once.  Counts says of one row what the property *)
(* says of it where no forced set_status commits; a row that carries a     *)
(* token outside a claim is a protected one kept for reconciliation, which *)
(* nothing that requeues may touch.                                        *)
(***************************************************************************)
Sits(r) ==
    /\ r.token # Null => r.status = "taken" \/ (r.policy = "hold" /\ r.status = "parked")
    /\ r.status = "absent" => r.requeue_count = 0

\* The claim of row r is over in s.
ClaimEnds(r, s) == r.status = "taken" /\ (s.status # "taken" \/ s.token # r.token)

CountsAtMost(r, s) ==
    /\ Sits(s)
    /\ s.requeue_count \in {r.requeue_count, r.requeue_count + 1}
    /\ r.token # Null /\ (s.status = "pending" \/ s.token \notin {r.token, Null})
       => s.requeue_count = r.requeue_count + 1

Counts(r, s) ==
    /\ CountsAtMost(r, s)
    /\ s.requeue_count # r.requeue_count => ClaimEnds(r, s)

CountsRows(e) == \A i \in Ids : Counts(directives[i], e[i])

\* The step of a forced set_status, which alone may count where no claim ends.
ForcedCounts ==
    \E i \in Ids :
        /\ ForcesStatus(i) /\ CountsAtMost(directives[i], directives'[i])
        /\ \A j \in Ids \ {i} : Counts(directives[j], directives'[j])

RowsSit == \A i \in Ids : Sits(directives[i])

\* The two ways a sweep brings a row back.
LEMMA BackCounts ==
    ASSUME NEW r \in Directive, Sits(r), NEW k, NEW until, NEW t
    PROVE  /\ r.status = "taken" =>
                /\ Counts(r, ReleaseOrHold(r))
                /\ r.policy # "hold" /\ k # r.token =>
                        Counts(r, Taken(ReleaseOrHold(r), k, until, t))
           /\ r.status = "deferred" =>
                /\ Counts(r, Promoted(r))
                /\ Counts(r, Taken(Promoted(r), k, until, t))
  <1> DEFINE q == Unclaimed(r)
  <1>1. q \in Directive /\ q.token = Null /\ q.requeue_count = r.requeue_count
    <2>1. q \in Directive
      BY UnclaimedType
    <2> QED BY <2>1 DEF Unclaimed, Directive
  <1> HIDE DEF q
  <1>2. CASE r.status = "taken" /\ r.policy = "hold"
    BY <1>2 DEF ReleaseOrHold, Counts, CountsAtMost, ClaimEnds, Sits, Directive
  <1>3. CASE r.status = "taken" /\ r.policy # "hold"
    <2> DEFINE b == [q EXCEPT !.status = "pending", !.requeue_count = q.requeue_count + 1]
    <2>1. /\ b.token = Null /\ b.status = "pending" /\ b.requeue_count = r.requeue_count + 1
          /\ Taken(b, k, until, t).requeue_count = r.requeue_count + 1
          /\ Taken(b, k, until, t).status = "taken" /\ Taken(b, k, until, t).token = k
      BY <1>1 DEF Taken, Directive
    <2>2. ReleaseOrHold(r) = b
      BY <1>3 DEF ReleaseOrHold, q
    <2> HIDE DEF b
    <2> QED BY <1>3, <2>1, <2>2 DEF Counts, CountsAtMost, ClaimEnds, Sits, Null
  <1>4. CASE r.status = "deferred"
    <2> DEFINE b == [q EXCEPT !.status = "pending", !.not_before = Null, !.blocked_by = {}]
    <2>1. /\ b.token = Null /\ b.status = "pending" /\ b.requeue_count = r.requeue_count
          /\ Taken(b, k, until, t).requeue_count = r.requeue_count
          /\ Taken(b, k, until, t).status = "taken"
      BY <1>1 DEF Taken, Directive
    <2>2. Promoted(r) = b
      BY DEF Promoted, q
    <2> HIDE DEF b
    <2> QED BY <1>4, <2>1, <2>2 DEF Counts, CountsAtMost, ClaimEnds, Sits, Null
  <1> QED BY <1>2, <1>3, <1>4

\* The statements that rewrite one row.
LEMMA WriteCounts ==
    ASSUME NEW r \in Directive, Sits(r), NEW s \in Statuses, NEW k, NEW until, NEW t, NEW deps
    PROVE  /\ Counts(r, r)
           /\ CountsAtMost(r, WithStatus(r, s, t))
           /\ r.status = "taken" => Counts(r, WithStatus(r, s, t))
           /\ Counts(r, Deferred(r, t, deps))
           /\ r.status = "taken" => Counts(r, Touched(r, until)) /\ Counts(r, Parked(r))
           /\ r.status = "parked" /\ r.policy # "hold" => Counts(r, Unparked(r))
           /\ r.status = "pending" => Counts(r, Taken(r, k, until, t))
  <1> DEFINE q == Unclaimed(r)
  <1>1. q \in Directive /\ q.token = Null /\ q.requeue_count = r.requeue_count
    <2>1. q \in Directive
      BY UnclaimedType
    <2> QED BY <2>1 DEF Unclaimed, Directive
  <1> HIDE DEF q
  <1>2. /\ Counts(r, r)
        /\ r.status = "taken" => Counts(r, Touched(r, until)) /\ Counts(r, Parked(r))
        /\ r.status = "pending" => Counts(r, Taken(r, k, until, t))
    BY DEF Counts, CountsAtMost, ClaimEnds, Sits, Touched, Parked, Taken, Directive, Null
  <1>3. Counts(r, Deferred(r, t, deps))
    <2>1. Deferred(r, t, deps) =
            [q EXCEPT !.status = "deferred", !.not_before = t, !.blocked_by = deps]
      BY DEF Deferred, q
    <2> QED BY <1>1, <2>1 DEF Counts, CountsAtMost, ClaimEnds, Sits, Directive
  <1>4. r.status = "parked" /\ r.policy # "hold" => Counts(r, Unparked(r))
    <2>1. Unparked(r) = [q EXCEPT !.status = "pending"]
      BY DEF Unparked, q
    <2> QED BY <1>1, <2>1 DEF Counts, CountsAtMost, ClaimEnds, Sits, Directive
  <1>5. /\ CountsAtMost(r, WithStatus(r, s, t))
        /\ r.status = "taken" => Counts(r, WithStatus(r, s, t))
    <2>1. CASE s = "pending"
      <3>1. WithStatus(r, s, t) =
              [q EXCEPT !.status = "pending", !.not_before = Null, !.blocked_by = {},
                        !.requeue_count = q.requeue_count + 1]
        BY <2>1, Zenon DEF WithStatus, Requeued, q
      <3> QED BY <1>1, <3>1 DEF Counts, CountsAtMost, ClaimEnds, Sits, Directive
    <2>2. CASE s = "done"
      BY <2>2 DEF WithStatus, Completed, Counts, CountsAtMost, ClaimEnds, Sits, Directive
    <2>3. CASE s \notin {"pending", "done"}
      BY <2>3 DEF WithStatus, Counts, CountsAtMost, ClaimEnds, Sits, Directive, Statuses, Terminal
    <2> QED BY <2>1, <2>2, <2>3
  <1> QED BY <1>2, <1>3, <1>4, <1>5

\* A sweep releases a claim, promotes a deferral or leaves a row alone.
SweptRow(r, s) ==
    \/ s = r
    \/ r.status = "taken" /\ s = ReleaseOrHold(r)
    \/ r.status = "deferred" /\ s = Promoted(r)

SweptRows(e) == \A i \in Ids : SweptRow(directives[i], e[i])

LEMMA SweepsSweep ==
    ASSUME TypeOK, NEW t \in Nat, NEW v \in Nat
    PROVE  /\ SweptRows(ReclaimExpired(directives, t))
           /\ SweptRows(ReapStale(directives, t))
           /\ SweptRows(ReclaimDeferred(directives, t))
           /\ SweptRows(Sweep(directives, t, v))
  <1> DEFINE d == ReclaimExpired(directives, t)
  <1>1. \A i \in Ids :
          /\ directives[i] \in Directive
          /\ d[i] = IF Expired(directives[i], t) THEN ReleaseOrHold(directives[i])
                                                 ELSE directives[i]
          /\ Expired(directives[i], t) => directives[i].status = "taken"
          /\ Stale(directives[i], t) => directives[i].status = "taken"
    BY ReadingType DEF Table, ReclaimExpired, Expired, Stale
  <1> HIDE DEF d
  <1>2. \A i \in Ids : d[i].status = "deferred" => d[i] = directives[i]
    BY <1>1, ReleaseIsOpen
  <1>3. \A i \in Ids : ReclaimDeferred(d, v)[i] = IF d[i].status = "deferred" /\ Ready(d, d[i], v)
                                                 THEN Promoted(d[i]) ELSE d[i]
    BY DEF ReclaimDeferred, Ready
  <1>4. SweptRows(d) /\ SweptRows(ReclaimDeferred(d, v))
    BY <1>1, <1>2, <1>3 DEF SweptRows, SweptRow
  <1>5. SweptRows(ReapStale(directives, t)) /\ SweptRows(ReclaimDeferred(directives, t))
    BY <1>1 DEF SweptRows, SweptRow, ReapStale, ReclaimDeferred, Ready
  <1> QED BY <1>4, <1>5 DEF Sweep, d

LEMMA SweptCount ==
    ASSUME TypeOK, RowsSit, NEW d, SweptRows(d)
    PROVE  CountsRows(d)
  <1>1. \A i \in Ids : directives[i] \in Directive /\ "done" \in Statuses
    BY ReadingType DEF Table, Statuses, Terminal
  <1> QED BY <1>1, BackCounts, WriteCounts DEF RowsSit, SweptRows, SweptRow, CountsRows

LEMMA RowWriteCounts ==
    ASSUME NEW d \in Table, NEW i \in Ids, NEW r, CountsRows(d), Counts(directives[i], r)
    PROVE  CountsRows([d EXCEPT ![i] = r])
  BY DEF CountsRows, Table

\* A claim that is still live after the sweeps was not swept.
LEMMA FencedWriteCounts ==
    ASSUME TypeOK, RowsSit, NEW d \in Table, NEW i \in Ids, NEW k, NEW u, NEW r, NEW g,
           FencedWrite(d, i, k, u, r, g), SweptRows(d),
           d[i] = directives[i] /\ directives[i].status = "taken" => Counts(directives[i], r)
    PROVE  CountsRows(directives')
  <1>1. CountsRows(d)
    BY SweptCount
  <1>2. d[i].status = "taken" => d[i] = directives[i]
    <2>1. directives[i] \in Directive
      BY ReadingType DEF Table
    <2> QED BY <2>1, ReleaseIsOpen DEF SweptRows, SweptRow
  <1>3. CASE HoldsClaim(d[i], k, u)
    BY <1>1, <1>2, <1>3, RowWriteCounts DEF FencedWrite, Commit, HoldsClaim
  <1>4. CASE ~HoldsClaim(d[i], k, u)
    BY <1>1, <1>4 DEF FencedWrite, Commit
  <1> QED BY <1>3, <1>4

LEMMA WorkerStepCounts ==
    ASSUME TypeOK, RowsSit, TokensNameOneDirective, WorkerStep
    PROVE  CountsRows(directives')
  <1> USE ReadingType
  <1>0. \A i \in Ids : directives[i] \in Directive /\ Sits(directives[i])
    BY DEF RowsSit, Table
  <1>1. \A t, v \in LockedReading :
          /\ ReclaimExpired(directives, t) \in Table /\ SweptRows(ReclaimExpired(directives, t))
          /\ Sweep(directives, t, v) \in Table /\ SweptRows(Sweep(directives, t, v))
    BY ReclaimExpiredType, SweepType, SweepsSweep
  <1>2. ASSUME NEW lane \in Lanes, NEW policy \in Policies, NEW duration \in Leases,
               Take(lane, policy, duration)
        PROVE  CountsRows(directives')
    <2>1. PICK t \in LockedReading, v \in LockedReading, u \in LockedReading, i \in Ids :
            /\ IsHead(Sweep(directives, t, v), i, lane, policy)
            /\ directives' = [Sweep(directives, t, v) EXCEPT
                                ![i] = Taken(@, issued + 1, u + duration, u)]
      BY <1>2 DEF Take, Commit
    <2> DEFINE d == Sweep(directives, t, v)
               r == directives[i]
               s == Taken(d[i], issued + 1, u + duration, u)
    <2>2. d \in Table /\ SweptRow(r, d[i]) /\ d[i].status = "pending" /\ CountsRows(d)
      BY <1>1, <2>1, SweptCount DEF SweptRows, IsHead, Candidate
    <2>3. /\ r \in Directive /\ Sits(r) /\ "done" \in Statuses
          /\ r.status = "taken" /\ d[i] = ReleaseOrHold(r) => r.policy # "hold"
          /\ issued + 1 # r.token
      <3>1. r.policy = "hold" => ReleaseOrHold(r).status = "parked"
        BY <1>0 DEF ReleaseOrHold, Directive
      <3>2. issued + 1 # r.token
        BY <1>0 DEF TokensNameOneDirective, Directive
      <3> QED BY <1>0, <2>2, <3>1, <3>2 DEF Statuses, Terminal
    <2> HIDE DEF d, r
    <2>4. Counts(r, s)
      <3>1. CASE d[i] = r
        BY <2>2, <2>3, <3>1, WriteCounts
      <3>2. CASE r.status = "taken" /\ d[i] = ReleaseOrHold(r)
        BY <2>2, <2>3, <3>2, BackCounts
      <3>3. CASE r.status = "deferred" /\ d[i] = Promoted(r)
        BY <2>2, <2>3, <3>3, BackCounts
      <3> QED BY <2>2, <3>1, <3>2, <3>3 DEF SweptRow
    <2>5. directives' = [d EXCEPT ![i] = s]
      BY <2>1 DEF d
    <2> HIDE DEF s
    <2> QED BY <2>2, <2>4, <2>5, RowWriteCounts DEF r
  <1>3. ASSUME NEW lane \in Lanes, NEW policy \in Policies, TakeNothing(lane, policy)
        PROVE  CountsRows(directives')
    BY <1>1, <1>3, SweptCount DEF TakeNothing, Commit
  <1>4. ASSUME NEW i \in Ids, NEW k \in 1..issued, NEW s \in SetStatuses,
               SetStatusFenced(i, k, s)
        PROVE  CountsRows(directives')
    <2>1. PICK t \in LockedReading, v \in LockedReading, u \in LockedReading :
            LET d == Sweep(directives, t, v)
            IN  FencedWrite(d, i, k, u, WithStatus(d[i], s, u), Null)
      BY <1>4 DEF SetStatusFenced
    <2> DEFINE d == Sweep(directives, t, v)
    <2>2. d[i] = directives[i] /\ directives[i].status = "taken"
          => Counts(directives[i], WithStatus(d[i], s, u))
      BY <1>0, QueueAssumption, WriteCounts
    <2> HIDE DEF d
    <2> QED BY <1>1, <2>1, <2>2, FencedWriteCounts DEF d
  <1>5. ASSUME NEW i \in Ids, NEW k \in 1..issued, NEW not_before \in DeferTimes,
               NEW deps \in SUBSET Ids, DeferFenced(i, k, not_before, deps)
        PROVE  CountsRows(directives')
    <2>1. PICK t \in LockedReading, u \in LockedReading :
            LET d == ReclaimExpired(directives, t)
            IN  FencedWrite(d, i, k, u, Deferred(d[i], not_before, deps), Null)
      BY <1>5 DEF DeferFenced
    <2> DEFINE d == ReclaimExpired(directives, t)
    <2>2. d[i] = directives[i] => Counts(directives[i], Deferred(d[i], not_before, deps))
      <3>1. "done" \in Statuses
        BY DEF Statuses, Terminal
      <3> QED BY <1>0, <3>1, WriteCounts
    <2> HIDE DEF d
    <2> QED BY <1>1, <2>1, <2>2, FencedWriteCounts DEF d
  <1>6. ASSUME NEW i \in Ids, NEW k \in 1..issued, NEW duration \in Leases,
               TouchFenced(i, k, duration)
        PROVE  CountsRows(directives')
    <2>1. PICK t \in LockedReading, v \in LockedReading, u \in LockedReading :
            LET d == Sweep(directives, t, v)
            IN  FencedWrite(d, i, k, u, Touched(d[i], u + duration), u + duration)
      BY <1>6 DEF TouchFenced
    <2> DEFINE d == Sweep(directives, t, v)
    <2>2. d[i] = directives[i] /\ directives[i].status = "taken"
          => Counts(directives[i], Touched(d[i], u + duration))
      <3>1. "done" \in Statuses
        BY DEF Statuses, Terminal
      <3> QED BY <1>0, <3>1, WriteCounts
    <2> HIDE DEF d
    <2> QED BY <1>1, <2>1, <2>2, FencedWriteCounts DEF d
  <1>7. ASSUME NEW i \in Ids, NEW k \in 1..issued, ParkFenced(i, k)
        PROVE  CountsRows(directives')
    <2>1. directives[i].status = "taken" => Counts(directives[i], Parked(directives[i]))
      <3>1. "done" \in Statuses
        BY DEF Statuses, Terminal
      <3> QED BY <1>0, <3>1, WriteCounts
    <2>2. directives \in Table /\ SweptRows(directives)
      BY DEF SweptRows, SweptRow
    <2> QED BY <1>7, <2>1, <2>2, FencedWriteCounts DEF ParkFenced
  <1> QED BY <1>2, <1>3, <1>4, <1>5, <1>6, <1>7 DEF WorkerStep

LEMMA OperatorStepCounts ==
    ASSUME TypeOK, RowsSit, OperatorStep
    PROVE  CountsRows(directives')
  <1> USE ReadingType
  <1>0. /\ \A i \in Ids : directives[i] \in Directive /\ Sits(directives[i])
        /\ "done" \in Statuses /\ CountsRows(directives)
    <2>1. SweptRows(directives)
      BY DEF SweptRows, SweptRow
    <2> QED BY <2>1, SweptCount DEF RowsSit, Table, Statuses, Terminal
  <1>1. ASSUME NEW i \in Ids, ParkForced(i)
        PROVE  CountsRows(directives')
    <2>1. Counts(directives[i], Parked(directives[i]))
      BY <1>0, <1>1, WriteCounts DEF ParkForced
    <2> QED BY <1>0, <1>1, <2>1, RowWriteCounts DEF ParkForced, Commit
  <1>2. ASSUME NEW i \in Ids, NEW n \in Priorities, Reprioritize(i, n)
        PROVE  CountsRows(directives')
    <2>1. directives' = [directives EXCEPT ![i].priority = n]
      BY <1>2 DEF Reprioritize, Commit
    <2>2. \A j \in Ids : /\ directives'[j].status = directives[j].status
                         /\ directives'[j].policy = directives[j].policy
                         /\ directives'[j].token = directives[j].token
                         /\ directives'[j].requeue_count = directives[j].requeue_count
      BY <2>1 DEF Table, Directive
    <2> QED BY <1>0, <2>2 DEF CountsRows, Counts, CountsAtMost, ClaimEnds, Sits
  <1>3. ASSUME Reap
        PROVE  CountsRows(directives')
    BY <1>3, SweepsSweep, SweptCount DEF Reap, Commit
  <1> QED BY <1>1, <1>2, <1>3 DEF OperatorStep

LEMMA CallStepCounts ==
    ASSUME TypeOK, RowsSit, Targets, NEW p \in Procs, CallStep(p)
    PROVE  CountsRows(directives') \/ ForcedCounts
  <1> USE ReadingType
  <1> DEFINE i == call[p].id
             r == directives[i]
  <1>0. /\ \A j \in Ids : directives[j] \in Directive /\ Sits(directives[j])
        /\ \A op \in {"set_status", "defer", "unpark", "touch"} :
              AtUpdate(p, op) => i \in Ids /\ r \in Directive /\ Sits(r)
        /\ "done" \in Statuses /\ CountsRows(directives)
    <2>1. SweptRows(directives)
      BY DEF SweptRows, SweptRow
    <2>2. \A j \in Ids : directives[j] \in Directive /\ Sits(directives[j])
      BY DEF RowsSit, Table
    <2> QED BY <2>1, <2>2, RowCallType, SweptCount DEF Statuses, Terminal
  <1>1. CASE \/ \E op \in {"set_status", "defer", "unpark"}, j \in Ids : Check(p, op, j)
             \/ Abandon(p)
    BY <1>0, <1>1 DEF Check, Abandon
  <1>2. ASSUME NEW t \in EarlyReading, Reclaim(p, t) \/ Promote(p, t)
        PROVE  CountsRows(directives')
    BY <1>2, SweepsSweep, SweptCount DEF Reclaim, Promote, Commit
  <1>3. ASSUME NEW matches, NEW s, ForcedWrite(p, matches, s), i \in Ids,
               matches => Counts(r, s)
        PROVE  CountsRows(directives')
    <2>1. CASE matches
      <3>1. directives' = [directives EXCEPT ![i] = s]
        BY <1>3, <2>1 DEF ForcedWrite, Commit
      <3> QED BY <1>0, <1>3, <2>1, <3>1, RowWriteCounts
    <2>2. CASE ~matches
      BY <1>0, <1>3, <2>2 DEF ForcedWrite, Commit
    <2> QED BY <2>1, <2>2
  <1>4. ASSUME NEW s \in SetStatuses, SetStatusForced(p, s)
        PROVE  CountsRows(directives') \/ ForcedCounts
    <2>1. PICK u \in EarlyReading : ForcedWrite(p, Exists(r), WithStatus(r, s, u))
      BY <1>4 DEF SetStatusForced
    <2>2. i \in Ids /\ r \in Directive /\ Sits(r)
      BY <1>0, <1>4 DEF SetStatusForced
    <2>3. ForcesStatus(i)
      BY <1>4 DEF SetStatusForced, AtUpdate, ForcedWrite, Return, Continue, ForcesStatus, TypeOK
    <2> HIDE DEF r
    <2>4. CountsAtMost(r, WithStatus(r, s, u))
      BY <2>2, QueueAssumption, WriteCounts
    <2>5. CASE Exists(r)
      <3>1. directives' = [directives EXCEPT ![i] = WithStatus(r, s, u)]
        BY <2>1, <2>5 DEF ForcedWrite, Commit
      <3>2. /\ directives'[i] = WithStatus(r, s, u)
            /\ \A j \in Ids \ {i} : directives'[j] = directives[j]
        BY <2>2, <3>1 DEF Table
      <3> QED BY <1>0, <2>2, <2>3, <2>4, <3>2 DEF ForcedCounts, CountsRows, r
    <2>6. CASE ~Exists(r)
      BY <1>0, <2>1, <2>6 DEF ForcedWrite, Commit
    <2> QED BY <2>5, <2>6
  <1>5. ASSUME NEW not_before \in DeferTimes, NEW deps \in SUBSET Ids,
               DeferForced(p, not_before, deps)
        PROVE  CountsRows(directives')
    <2>1. ForcedWrite(p, Exists(r), Deferred(r, not_before, deps))
      BY <1>5 DEF DeferForced
    <2>2. i \in Ids /\ r \in Directive /\ Sits(r)
      BY <1>0, <1>5 DEF DeferForced
    <2> HIDE DEF r
    <2>3. Counts(r, Deferred(r, not_before, deps))
      BY <1>0, <2>2, WriteCounts
    <2> QED BY <1>3, <2>1, <2>2, <2>3
  <1>6. ASSUME Unpark(p)
        PROVE  CountsRows(directives')
    <2>1. ForcedWrite(p, r.status = "parked", Unparked(r))
      BY <1>6 DEF Unpark
    <2>2. i \in Ids /\ r \in Directive /\ Sits(r) /\ r.policy # "hold"
      BY <1>0, <1>6 DEF Unpark, AtUpdate, Targets, Protected
    <2> HIDE DEF r
    <2>3. r.status = "parked" => Counts(r, Unparked(r))
      BY <1>0, <2>2, WriteCounts
    <2> QED BY <1>3, <2>1, <2>2, <2>3
  <1>7. ASSUME NEW duration \in Leases, TouchForced(p, duration)
        PROVE  CountsRows(directives')
    <2>1. PICK u \in EarlyReading :
            \/ /\ r.status = "taken"
               /\ directives' = [directives EXCEPT ![i] = Touched(r, u + duration)]
            \/ directives' = directives
      BY <1>7 DEF TouchForced, Commit
    <2>2. i \in Ids /\ r \in Directive /\ Sits(r)
      BY <1>0, <1>7 DEF TouchForced
    <2> HIDE DEF r
    <2>3. r.status = "taken" => Counts(r, Touched(r, u + duration))
      BY <1>0, <2>2, WriteCounts
    <2> QED BY <1>0, <2>1, <2>2, <2>3, RowWriteCounts DEF r
  <1>8. ASSUME NEW policy \in Policies, NEW lane \in Lanes, NEW n \in Priorities,
               NEW parent \in Ids \cup {Null}, Push(p, policy, lane, n, parent)
        PROVE  CountsRows(directives')
    <2>1. PICK j \in Ids :
            /\ IsNextId(directives, j)
            /\ directives' = [directives EXCEPT ![j] = Pending(policy, lane, n, parent)]
      BY <1>8 DEF Push, Commit
    <2>2. Counts(directives[j], Pending(policy, lane, n, parent))
      BY <1>0, <2>1 DEF IsNextId, Exists, Counts, CountsAtMost, ClaimEnds, Sits, Pending, Null
    <2> QED BY <1>0, <2>1, <2>2, RowWriteCounts
  <1> QED BY <1>1, <1>2, <1>4, <1>5, <1>6, <1>7, <1>8 DEF CallStep

CountInv == ProtectionInv /\ ClaimsInv /\ RowsSit

LEMMA NextCounts ==
    ASSUME TypeOK, Targets, RowsSit, TokensNameOneDirective, [Next]_vars
    PROVE  CountsRows(directives') \/ ForcedCounts
  <1>1. CASE Tick \/ UNCHANGED vars
    <2>1. SweptRows(directives)
      BY DEF SweptRows, SweptRow
    <2> QED BY <1>1, <2>1, SweptCount DEF Tick, vars
  <1> QED BY <1>1, WorkerStepCounts, OperatorStepCounts, CallStepCounts DEF Next

CountedOnce ==
    \A i \in Ids :
        LET r == directives[i]
            s == directives'[i]
            ends == r.status = "taken" /\ (s.status # "taken" \/ s.token # r.token)
        IN  /\ s.requeue_count \in {r.requeue_count, r.requeue_count + 1}
            /\ r.token # Null /\ (s.status = "pending" \/ s.token \notin {r.token, Null})
               => s.requeue_count = r.requeue_count + 1
            /\ s.requeue_count # r.requeue_count => ends \/ ForcesStatus(i)
            /\ s.token \notin {r.token, Null} => s.token > issued

\* A token that is new on its row is new altogether.
FreshTokens(e) ==
    \A i \in Ids : e[i].token \notin {directives[i].token, Null} => e[i].token > issued

LEMMA NextTokensFresh ==
    ASSUME TypeOK, [Next]_vars
    PROVE  FreshTokens(directives')
  <1>1. CASE TableFalls(directives, directives')
    BY <1>1 DEF TableFalls, Falls, FreshTokens
  <1>2. ASSUME NEW d, TableFalls(directives, d), GivesToken(d, directives')
        PROVE  FreshTokens(directives')
    BY <1>2, ReadingType DEF TableFalls, Falls, GivesToken, FreshTokens
  <1>3. CASE Tick \/ UNCHANGED vars
    BY <1>1, <1>3, FallsNothing DEF Tick, vars
  <1> QED BY <1>1, <1>2, <1>3, WorkerStepFalls, OperatorStepFalls, CallStepFalls DEF Next

LEMMA CountedRows ==
    ASSUME CountsRows(directives') \/ ForcedCounts, FreshTokens(directives')
    PROVE  RowsSit' /\ CountedOnce
  <1>1. ASSUME NEW i \in Ids
        PROVE  /\ CountsAtMost(directives[i], directives'[i])
               /\ Counts(directives[i], directives'[i]) \/ ForcesStatus(i)
    BY DEF CountsRows, ForcedCounts, Counts
  <1>2. RowsSit'
    BY <1>1 DEF CountsAtMost, RowsSit
  <1>3. CountedOnce
    BY <1>1 DEF Counts, CountsAtMost, ClaimEnds, FreshTokens, CountedOnce
  <1> QED BY <1>2, <1>3

LEMMA CountInit == Init => CountInv
  <1> SUFFICES ASSUME Init PROVE RowsSit
    BY ProtectionInit, ClaimsInit DEF CountInv
  <1>1. Absent.status = "absent" /\ Absent.token = Null /\ Absent.requeue_count = 0
    BY DEF Absent, Pending
  <1> QED BY <1>1 DEF Init, RowsSit, Sits

\* Each claim is counted at most once over its whole life, and once where its
\* token leaves the row for the queue or for the next worker: that one step
\* counts, no other does but a forced requeue, which counts for itself, and a
\* token that left its row is never on a row again.
THEOREM LostClaimsAlwaysCounted == KnownIds => (Spec => LostClaimCountedOnce)
  <1> SUFFICES ASSUME KnownIds PROVE Spec => LostClaimCountedOnce
    OBVIOUS
  <1>1. ASSUME CountInv, [Next]_vars
        PROVE  RowsSit' /\ CountedOnce
    BY <1>1, NextCounts, NextTokensFresh, CountedRows DEF CountInv, ProtectionInv, ClaimsInv
  <1>2. ASSUME CountInv, [Next]_vars
        PROVE  CountInv'
    BY <1>1, <1>2, ProtectionInductive, ClaimsInductive DEF CountInv
  <1>3. CountInv /\ [Next]_vars => CountInv' /\ [CountedOnce]_vars
    BY <1>1, <1>2
  <1> QED BY <1>3, CountInit, PTL DEF Spec, LostClaimCountedOnce, CountedOnce

-----------------------------------------------------------------------------
(***************************************************************************)
(* The lease in a claimed row is the lease its token was promised: whoever *)
(* reads a row under its own token reads what it may rely on.              *)
(***************************************************************************)
Promised(e, g) ==
    \A i \in Ids :
        e[i].status = "taken" /\ e[i].token # Null => g[e[i].token] = e[i].lease

LeasePromised == Promised(directives, granted)

LEMMA SweptPromised ==
    ASSUME TypeOK, LeasePromised, NEW d, SweptRows(d)
    PROVE  Promised(d, granted)
  <1>1. \A i \in Ids : directives[i] \in Directive
    BY ReadingType DEF Table
  <1> QED BY <1>1, ReleaseIsOpen DEF SweptRows, SweptRow, LeasePromised, Promised

\* A write to row i: what it promises its own token must be in the row, and no
\* other row's token may be promised anything else.
LEMMA WritePromised ==
    ASSUME NEW d \in Table, NEW i \in Ids, NEW r, NEW g, Promised(d, granted),
           r.status = "taken" /\ r.token # Null => g[r.token] = r.lease,
           \A j \in Ids \ {i} : d[j].token # Null => g[d[j].token] = granted[d[j].token]
    PROVE  Promised([d EXCEPT ![i] = r], g)
  BY DEF Promised, Table

LEMMA SweptTokens ==
    ASSUME TypeOK, TokensNameOneDirective, NEW t \in Nat, NEW v \in Nat
    PROVE  /\ OneEach(directives, issued)
           /\ OneEach(ReclaimExpired(directives, t), issued)
           /\ OneEach(Sweep(directives, t, v), issued)
  <1>1. OneEach(directives, issued)
    BY DEF TokensNameOneDirective, OneEach, TypeOK, Directive
  <1> QED BY <1>1, ReadingType, SweepsFall, TokensFall

LEMMA FencedWritePromised ==
    ASSUME TypeOK, LeasePromised, NEW d \in Table, NEW i \in Ids, NEW k \in Tokens,
           NEW u, NEW r, NEW g, FencedWrite(d, i, k, u, r, g), SweptRows(d),
           OneEach(d, issued),
           HoldsClaim(d[i], k, u) /\ r.status = "taken" /\ r.token # Null
               => r.token = k /\ r.lease = g
    PROVE  LeasePromised'
  <1>1. Promised(d, granted)
    BY SweptPromised
  <1>2. CASE HoldsClaim(d[i], k, u)
    <2>1. directives' = [d EXCEPT ![i] = r] /\ granted' = [granted EXCEPT ![k] = g]
      BY <1>2 DEF FencedWrite, Commit
    <2>2. granted \in [Tokens -> Nat]
      BY DEF TypeOK
    <2>3. d[i].token = k
      BY <1>2 DEF HoldsClaim
    <2>4. \A j \in Ids \ {i} : d[j].token # Null => d[j].token # k
      BY <2>3 DEF OneEach
    <2>5. \A j \in Ids \ {i} :
            d[j].token # Null => granted'[d[j].token] = granted[d[j].token]
      BY <2>1, <2>2, <2>4
    <2>6. r.status = "taken" /\ r.token # Null => granted'[r.token] = r.lease
      BY <1>2, <2>1, <2>2
    <2>7. Promised([d EXCEPT ![i] = r], granted')
      BY <1>1, <2>5, <2>6, WritePromised
    <2> QED BY <2>1, <2>7 DEF LeasePromised
  <1>3. CASE ~HoldsClaim(d[i], k, u)
    BY <1>1, <1>3 DEF FencedWrite, Commit, LeasePromised
  <1> QED BY <1>2, <1>3

LEMMA WorkerStepPromised ==
    ASSUME TypeOK, TokensNameOneDirective, LeasePromised, WorkerStep
    PROVE  LeasePromised'
  <1> USE ReadingType
  <1>0. /\ \A k \in 1..issued : k \in Tokens
        /\ \A d \in Table, i \in Ids : d[i] \in Directive
        /\ "done" \in Statuses
    BY QueueAssumption DEF TypeOK, Tokens, Table, Statuses, Terminal
  <1>1. \A t, v \in LockedReading :
          LET d == ReclaimExpired(directives, t)
              e == Sweep(directives, t, v)
          IN  /\ d \in Table /\ SweptRows(d) /\ OneEach(d, issued)
              /\ e \in Table /\ SweptRows(e) /\ OneEach(e, issued)
    BY ReclaimExpiredType, SweepType, SweepsSweep, SweptTokens
  <1>2. ASSUME NEW lane \in Lanes, NEW policy \in Policies, NEW duration \in Leases,
               Take(lane, policy, duration)
        PROVE  LeasePromised'
    <2>1. PICK t \in LockedReading, v \in LockedReading, u \in LockedReading, i \in Ids :
            /\ directives' = [Sweep(directives, t, v) EXCEPT
                                ![i] = Taken(@, issued + 1, u + duration, u)]
            /\ granted' = [granted EXCEPT ![issued + 1] = u + duration]
      BY <1>2 DEF Take, Commit
    <2> DEFINE d == Sweep(directives, t, v)
               k == issued + 1
               r == Taken(d[i], k, u + duration, u)
    <2>2. d \in Table /\ SweptRows(d) /\ OneEach(d, issued) /\ Promised(d, granted)
      BY <1>1, SweptPromised
    <2>3. k \in Tokens /\ granted \in [Tokens -> Nat]
      BY <1>2 DEF Take, TypeOK
    <2>4. directives' = [d EXCEPT ![i] = r] /\ granted' = [granted EXCEPT ![k] = u + duration]
      BY <2>1
    <2> HIDE DEF d
    <2>5. r.token = k /\ r.lease = u + duration
      BY <1>0, <2>2 DEF Taken, Directive
    <2>6. \A j \in Ids \ {i} :
            d[j].token # Null => granted'[d[j].token] = granted[d[j].token]
      <3>1. \A j \in Ids : d[j].token \in Nat /\ d[j].token # k
        BY <2>2 DEF OneEach
      <3> QED BY <2>3, <2>4, <3>1
    <2>7. granted'[r.token] = r.lease
      BY <2>3, <2>4, <2>5
    <2> HIDE DEF r, k
    <2>8. Promised([d EXCEPT ![i] = r], granted')
      BY <2>2, <2>6, <2>7, WritePromised
    <2> QED BY <2>4, <2>8 DEF LeasePromised
  <1>3. ASSUME NEW lane \in Lanes, NEW policy \in Policies, TakeNothing(lane, policy)
        PROVE  LeasePromised'
    BY <1>1, <1>3, SweptPromised DEF TakeNothing, Commit, LeasePromised
  <1>4. ASSUME NEW i \in Ids, NEW k \in 1..issued, NEW s \in SetStatuses,
               SetStatusFenced(i, k, s)
        PROVE  LeasePromised'
    <2>1. PICK t \in LockedReading, v \in LockedReading, u \in LockedReading :
            LET d == Sweep(directives, t, v)
            IN  FencedWrite(d, i, k, u, WithStatus(d[i], s, u), Null)
      BY <1>4 DEF SetStatusFenced
    <2> DEFINE d == Sweep(directives, t, v)
    <2>2. d \in Table /\ SweptRows(d) /\ OneEach(d, issued)
      BY <1>1
    <2> HIDE DEF d
    <2>3. WithStatus(d[i], s, u).token = Null
      BY <1>0, <2>2, QueueAssumption, StatusUnclaims
    <2> QED BY <1>0, <2>1, <2>2, <2>3, FencedWritePromised DEF d
  <1>5. ASSUME NEW i \in Ids, NEW k \in 1..issued, NEW not_before \in DeferTimes,
               NEW deps \in SUBSET Ids, DeferFenced(i, k, not_before, deps)
        PROVE  LeasePromised'
    <2>1. PICK t \in LockedReading, u \in LockedReading :
            LET d == ReclaimExpired(directives, t)
            IN  FencedWrite(d, i, k, u, Deferred(d[i], not_before, deps), Null)
      BY <1>5 DEF DeferFenced
    <2> DEFINE d == ReclaimExpired(directives, t)
    <2>2. d \in Table /\ SweptRows(d) /\ OneEach(d, issued)
      BY <1>1
    <2> HIDE DEF d
    <2>3. Deferred(d[i], not_before, deps).status # "taken"
      BY <1>0, <2>2, StatusUnclaims
    <2> QED BY <1>0, <2>1, <2>2, <2>3, FencedWritePromised DEF d
  <1>6. ASSUME NEW i \in Ids, NEW k \in 1..issued, NEW duration \in Leases,
               TouchFenced(i, k, duration)
        PROVE  LeasePromised'
    <2>1. PICK t \in LockedReading, v \in LockedReading, u \in LockedReading :
            LET d == Sweep(directives, t, v)
            IN  FencedWrite(d, i, k, u, Touched(d[i], u + duration), u + duration)
      BY <1>6 DEF TouchFenced
    <2> DEFINE d == Sweep(directives, t, v)
    <2>2. d \in Table /\ SweptRows(d) /\ OneEach(d, issued)
      BY <1>1
    <2> HIDE DEF d
    <2>3. /\ Touched(d[i], u + duration).token = d[i].token
          /\ Touched(d[i], u + duration).lease = u + duration
      BY <1>0, <2>2 DEF Touched, Directive
    <2> QED BY <1>0, <2>1, <2>2, <2>3, FencedWritePromised DEF HoldsClaim, d
  <1>7. ASSUME NEW i \in Ids, NEW k \in 1..issued, ParkFenced(i, k)
        PROVE  LeasePromised'
    <2>1. Parked(directives[i]).status # "taken"
      BY <1>0, StatusUnclaims
    <2>2. directives \in Table /\ SweptRows(directives) /\ OneEach(directives, issued)
      BY SweptTokens DEF SweptRows, SweptRow
    <2> QED BY <1>0, <1>7, <2>1, <2>2, FencedWritePromised DEF ParkFenced
  <1> QED BY <1>2, <1>3, <1>4, <1>5, <1>6, <1>7 DEF WorkerStep

\* An override takes the promise back together with the claim.
LEMMA OverridePromised ==
    ASSUME TypeOK, TokensNameOneDirective, LeasePromised, NEW i \in Ids, NEW r,
           r.status = "taken" => r.token = Null,
           directives' = [directives EXCEPT ![i] = r], Override(i)
    PROVE  LeasePromised'
  <1>1. OneEach(directives, issued) /\ directives \in Table
    BY ReadingType DEF TokensNameOneDirective, OneEach, TypeOK, Directive
  <1>2. ASSUME NEW j \in Ids \ {i}, directives'[j].status = "taken",
               directives'[j].token # Null
        PROVE  granted'[directives'[j].token] = directives'[j].lease
    <2>1. directives'[j] = directives[j] /\ directives[j].token # directives[i].token
      BY <1>1, <1>2 DEF Table, OneEach
    <2>2. directives[j].token \in Tokens
      BY <1>1, <1>2, <2>1, QueueAssumption DEF OneEach, Tokens, TypeOK, Null
    <2>3. granted'[directives[j].token] = granted[directives[j].token]
      BY <2>1, <2>2 DEF Override
    <2> QED BY <1>2, <2>1, <2>3 DEF LeasePromised, Promised
  <1>3. directives'[i] = r
    BY <1>1 DEF Table
  <1> QED BY <1>2, <1>3 DEF LeasePromised, Promised

LEMMA OperatorStepPromised ==
    ASSUME TypeOK, TokensNameOneDirective, LeasePromised, OperatorStep
    PROVE  LeasePromised'
  <1> USE ReadingType
  <1>1. ASSUME NEW i \in Ids, ParkForced(i)
        PROVE  LeasePromised'
    <2>1. Parked(directives[i]).status # "taken"
      BY StatusUnclaims DEF Table, Statuses, Terminal
    <2> QED BY <1>1, <2>1, OverridePromised DEF ParkForced, Commit
  <1>2. ASSUME NEW i \in Ids, NEW n \in Priorities, Reprioritize(i, n)
        PROVE  LeasePromised'
    <2>1. directives' = [directives EXCEPT ![i].priority = n] /\ granted' = granted
      BY <1>2 DEF Reprioritize, Commit
    <2>2. \A j \in Ids : /\ directives'[j].status = directives[j].status
                         /\ directives'[j].token = directives[j].token
                         /\ directives'[j].lease = directives[j].lease
      BY <2>1 DEF Table, Directive
    <2> QED BY <2>1, <2>2 DEF LeasePromised, Promised
  <1>3. ASSUME Reap
        PROVE  LeasePromised'
    <2>1. PICK t \in EarlyReading :
            /\ directives' = ReapStale(directives, t)
            /\ granted' = [k \in Tokens |->
                            IF \E i \in Ids : /\ Stale(directives[i], t)
                                              /\ directives[i].token = k
                            THEN Null ELSE granted[k]]
      BY <1>3 DEF Reap, Commit
    <2>2. ASSUME NEW j \in Ids, directives'[j].status = "taken", directives'[j].token # Null
          PROVE  granted'[directives'[j].token] = directives'[j].lease
      <3>1. directives'[j] = directives[j] /\ ~Stale(directives[j], t)
        BY <2>1, <2>2, ReleaseIsOpen DEF ReapStale, Table
      <3>2. \A i \in Ids : directives[i].token = directives[j].token => i = j
        BY <2>2, <3>1 DEF TokensNameOneDirective
      <3>3. directives[j].token \in Tokens
        BY <2>2, <3>1, QueueAssumption
           DEF TokensNameOneDirective, Tokens, TypeOK, Directive, Null
      <3>4. granted'[directives[j].token] = granted[directives[j].token]
        BY <2>1, <3>1, <3>2, <3>3
      <3> QED BY <2>2, <3>1, <3>4 DEF LeasePromised, Promised
    <2> QED BY <2>2 DEF LeasePromised, Promised
  <1> QED BY <1>1, <1>2, <1>3 DEF OperatorStep

LEMMA CallStepPromised ==
    ASSUME TypeOK, TokensNameOneDirective, LeasePromised, NEW p \in Procs, CallStep(p)
    PROVE  LeasePromised'
  <1> USE ReadingType
  <1> DEFINE i == call[p].id
             r == directives[i]
  <1>0. /\ \A j \in Ids : directives[j] \in Directive
        /\ \A op \in {"set_status", "defer", "unpark", "touch"} :
              AtUpdate(p, op) => i \in Ids /\ r \in Directive
        /\ "done" \in Statuses
    BY RowCallType DEF Table, Statuses, Terminal
  <1>1. CASE \/ \E op \in {"set_status", "defer", "unpark"}, j \in Ids : Check(p, op, j)
             \/ Abandon(p)
    BY <1>1 DEF Check, Abandon, LeasePromised
  <1>2. ASSUME NEW t \in EarlyReading, Reclaim(p, t) \/ Promote(p, t)
        PROVE  LeasePromised'
    BY <1>2, SweepsSweep, SweptPromised DEF Reclaim, Promote, Commit, LeasePromised
  <1>3. ASSUME NEW matches, NEW s, ForcedWrite(p, matches, s), i \in Ids,
               s.status = "taken" => s.token = Null
        PROVE  LeasePromised'
    <2>1. CASE matches
      BY <1>3, <2>1, OverridePromised DEF ForcedWrite, Commit
    <2>2. CASE ~matches
      BY <1>3, <2>2 DEF ForcedWrite, Commit, LeasePromised
    <2> QED BY <2>1, <2>2
  <1>4. ASSUME NEW s \in SetStatuses, SetStatusForced(p, s)
        PROVE  LeasePromised'
    <2>1. PICK u \in EarlyReading : ForcedWrite(p, Exists(r), WithStatus(r, s, u))
      BY <1>4 DEF SetStatusForced
    <2>2. i \in Ids /\ r \in Directive
      BY <1>0, <1>4 DEF SetStatusForced
    <2> HIDE DEF r
    <2>3. WithStatus(r, s, u).token = Null
      BY <2>2, QueueAssumption, StatusUnclaims
    <2> QED BY <1>3, <2>1, <2>2, <2>3
  <1>5. ASSUME NEW not_before \in DeferTimes, NEW deps \in SUBSET Ids,
               DeferForced(p, not_before, deps)
        PROVE  LeasePromised'
    <2>1. ForcedWrite(p, Exists(r), Deferred(r, not_before, deps))
      BY <1>5 DEF DeferForced
    <2>2. i \in Ids /\ r \in Directive
      BY <1>0, <1>5 DEF DeferForced
    <2> HIDE DEF r
    <2>3. Deferred(r, not_before, deps).status # "taken"
      BY <1>0, <2>2, StatusUnclaims
    <2> QED BY <1>3, <2>1, <2>2, <2>3
  <1>6. ASSUME Unpark(p)
        PROVE  LeasePromised'
    <2>1. ForcedWrite(p, r.status = "parked", Unparked(r))
      BY <1>6 DEF Unpark
    <2>2. i \in Ids /\ r \in Directive
      BY <1>0, <1>6 DEF Unpark
    <2> HIDE DEF r
    <2>3. Unparked(r).status # "taken"
      BY <1>0, <2>2, StatusUnclaims
    <2> QED BY <1>3, <2>1, <2>2, <2>3
  <1>7. ASSUME NEW duration \in Leases, TouchForced(p, duration)
        PROVE  LeasePromised'
    <2>1. PICK u \in EarlyReading :
            \/ /\ r.status = "taken"
               /\ directives' = [directives EXCEPT ![i] = Touched(r, u + duration)]
               /\ granted' = [k \in Tokens |->
                               IF k = r.token THEN u + duration ELSE granted[k]]
            \/ directives' = directives /\ granted' = granted
      BY <1>7 DEF TouchForced, Commit
    <2>2. i \in Ids /\ r \in Directive
      BY <1>0, <1>7 DEF TouchForced
    <2>3. CASE /\ directives' = [directives EXCEPT ![i] = Touched(r, u + duration)]
               /\ granted' = [k \in Tokens |->
                               IF k = r.token THEN u + duration ELSE granted[k]]
      <3>1. \A j \in Ids : directives[j].token # Null => directives[j].token \in Tokens
        BY <1>0, QueueAssumption DEF TokensNameOneDirective, Tokens, TypeOK, Directive, Null
      <3>2. \A j \in Ids \ {i} : directives[j].token # Null => directives[j].token # r.token
        BY <2>2 DEF TokensNameOneDirective
      <3>3. \A j \in Ids \ {i} :
              directives[j].token # Null
              => granted'[directives[j].token] = granted[directives[j].token]
        BY <2>3, <3>1, <3>2
      <3>4. r.token # Null => granted'[r.token] = u + duration
        BY <2>2, <2>3, <3>1
      <3> HIDE DEF r
      <3>5. /\ Touched(r, u + duration).token = r.token
            /\ Touched(r, u + duration).lease = u + duration
        BY <2>2 DEF Touched, Directive
      <3>6. Promised([directives EXCEPT ![i] = Touched(r, u + duration)], granted')
        BY <2>2, <3>3, <3>4, <3>5, WritePromised DEF LeasePromised
      <3> QED BY <2>3, <3>6 DEF LeasePromised
    <2>4. CASE directives' = directives /\ granted' = granted
      BY <2>4 DEF LeasePromised
    <2> QED BY <2>1, <2>3, <2>4
  <1>8. ASSUME NEW policy \in Policies, NEW lane \in Lanes, NEW n \in Priorities,
               NEW parent \in Ids \cup {Null}, Push(p, policy, lane, n, parent)
        PROVE  LeasePromised'
    <2>1. PICK j \in Ids :
            /\ directives' = [directives EXCEPT ![j] = Pending(policy, lane, n, parent)]
            /\ granted' = granted
      BY <1>8 DEF Push, Commit
    <2>2. Pending(policy, lane, n, parent).status # "taken"
      BY DEF Pending
    <2> QED BY <2>1, <2>2 DEF LeasePromised, Promised, Table
  <1> QED BY <1>1, <1>2, <1>4, <1>5, <1>6, <1>7, <1>8 DEF CallStep

LEMMA NextPromised ==
    ASSUME TypeOK, TokensNameOneDirective, LeasePromised, [Next]_vars
    PROVE  LeasePromised'
  <1>1. CASE Tick \/ UNCHANGED vars
    BY <1>1 DEF Tick, vars, LeasePromised
  <1> QED BY <1>1, WorkerStepPromised, OperatorStepPromised, CallStepPromised DEF Next

-----------------------------------------------------------------------------
(***************************************************************************)
(* The queue's promises together, and that a call which only reads keeps   *)
(* them too: what such a call does to the table is to reclaim.             *)
(***************************************************************************)
Reclaims ==
    /\ \E t \in EarlyReading :
        \/ Commit(ReclaimExpired(directives, t))
        \/ Commit(ReclaimDeferred(directives, t))
    /\ UNCHANGED <<issued, granted>>

\* What holds of the queue in every state, and of every step.
QueueHolds ==
    /\ LeaseHonoured /\ LeasePromised /\ TokensNameOneDirective
    /\ ParentsPrecede /\ RowsSit
    /\ PlainStatuses => \A i \in Ids : Columns(directives[i])

QueueSteps == HeadTaken /\ StaysFinished /\ PromotedReady /\ CountedOnce

LEMMA NextHolds ==
    ASSUME TypeOK, Targets, \E n \in 0..MaxId : FirstRows(directives, n), QueueHolds,
           [Next]_vars
    PROVE  QueueHolds' /\ QueueSteps
  <1>1. /\ TypeOK /\ Targets /\ LeaseHonoured /\ LeasePromised /\ TokensNameOneDirective
        /\ ParentsPrecede /\ RowsSit
    BY DEF QueueHolds
  <1>2. LeaseHonoured' /\ LeasePromised'
    BY <1>1, NextHonours, NextPromised
  <1>3. ClaimsInv'
    BY <1>1, ClaimsInductive DEF QueueHolds, ClaimsInv
  <1>4. ParentsPrecede'
    BY <1>1, RowsInductive DEF RowsInv
  <1>5. RowsSit' /\ CountedOnce
    BY <1>1, NextCounts, NextTokensFresh, CountedRows
  <1>6. HeadTaken
    BY <1>1, NextTakesHead
  <1>7. StaysFinished /\ PromotedReady
    BY <1>1, NextSteady, Zenon DEF Steady, Overrides, StaysFinished, PromotedReady
  <1> QED BY <1>2, <1>3, <1>4, <1>5, <1>6, <1>7 DEF QueueHolds, QueueSteps, ClaimsInv

LEMMA ReclaimsKeeps ==
    ASSUME TypeOK, QueueHolds, Reclaims
    PROVE  QueueHolds' /\ QueueSteps
  <1>1. /\ TypeOK /\ LeaseHonoured /\ LeasePromised /\ TokensNameOneDirective
        /\ ParentsPrecede /\ RowsSit /\ issued \in Nat
    BY ReadingType DEF QueueHolds
  <1>2. PICK t \in EarlyReading :
            \/ Commit(ReclaimExpired(directives, t))
            \/ Commit(ReclaimDeferred(directives, t))
    BY DEF Reclaims
  <1>3. t \in Nat /\ t <= now /\ issued' = issued /\ granted' = granted
    BY <1>1, ReadingBound DEF Reclaims
  <1>4. LeaseHonoured' /\ LeasePromised'
    <2>1. LeaseHonoured'
      BY <1>1, <1>2, <1>3, SweepHonours
    <2>2. LeasePromised'
      BY <1>1, <1>2, <1>3, SweepsSweep, SweptPromised DEF Commit, LeasePromised
    <2> QED BY <2>1, <2>2
  <1>5. TableFalls(directives, directives')
    BY <1>1, <1>2, <1>3, ReadingType, SweepsFall DEF Commit
  <1>6. KeepsRows(directives, directives')
    BY <1>1, <1>2, <1>3, ReadingType, SweepsKeep DEF Commit
  <1>7. Steady(directives')
    BY <1>1, <1>2, <1>3, ReadingType, SweepsSteady DEF Commit
  <1>8. CountsRows(directives')
    BY <1>1, <1>2, <1>3, SweepsSweep, SweptCount DEF Commit
  <1>9. TokensNameOneDirective'
    <2>1. OneEach(directives, issued)
      BY <1>1, ReadingType DEF TokensNameOneDirective, OneEach, Table, Directive
    <2>2. OneEach(directives', issued)
      BY <1>1, <1>5, <2>1, TokensFall
    <2> QED BY <1>3, <2>2 DEF TokensNameOneDirective, OneEach
  <1>10. ParentsPrecede'
    <2>1. \A i \in Ids : directives[i].parent \in Ids \cup {Null}
      BY <1>1 DEF TypeOK, Directive
    <2> QED BY <1>1, <1>6, <2>1 DEF ParentsPrecede, KeepsRows, Fixed
  <1>11. PlainStatuses => \A i \in Ids : Columns(directives'[i])
    BY <1>5 DEF QueueHolds, TableFalls, Falls
  <1>12. RowsSit' /\ CountedOnce
    <2>1. FreshTokens(directives')
      BY <1>5 DEF TableFalls, Falls, FreshTokens
    <2> QED BY <1>8, <2>1, CountedRows
  <1>13. HeadTaken /\ StaysFinished /\ PromotedReady
    BY <1>1, <1>5, <1>7, NothingTaken DEF Steady, StaysFinished, PromotedReady
  <1> QED BY <1>4, <1>9, <1>10, <1>11, <1>12, <1>13 DEF QueueHolds, QueueSteps

\* No call under way is moved by it: what they know of their rows stays true.
LEMMA ReclaimsProtect ==
    ASSUME ProtectionInv, NEW n \in 0..MaxId, FirstRows(directives, n),
           Reclaims, call' = call
    PROVE  /\ ProtectionInv' /\ OneClaim
           /\ \E m \in 0..MaxId : FirstRows(directives', m)
  <1>1. TypeOK /\ Targets /\ directives \in Table
    BY ReadingType DEF ProtectionInv
  <1>2. PICK t \in EarlyReading :
            \/ Commit(ReclaimExpired(directives, t))
            \/ Commit(ReclaimDeferred(directives, t))
    BY DEF Reclaims
  <1>3. t \in Nat
    BY <1>1, ReadingType
  <1>4. TableMoves(directives, directives') /\ KeepsRows(directives, directives')
    BY <1>1, <1>2, <1>3, SweepMoves, SweepsKeep DEF Commit
  <1>5. TypeOK'
    <2>1. PICK d \in Table : Commit(d)
      BY <1>1, <1>2, <1>3, ReclaimExpiredType, ReclaimDeferredType
    <2> QED BY <1>1, <2>1, CommitType DEF TypeOK, Reclaims
  <1>6. Targets'
    <2>1. ASSUME NEW p \in Procs, call[p].op \in {"set_status", "defer", "unpark"}
          PROVE  call[p].id \in Ids
      BY <1>1, <2>1 DEF TypeOK, Calls, TableCalls, RowCalls, Idle
    <2> QED BY <1>1, <1>4, <2>1 DEF Targets, TableMoves
  <1>7. \E m \in 0..MaxId : FirstRows(directives', m)
    BY <1>4, FirstRowsNext
  <1> QED BY <1>4, <1>5, <1>6, <1>7, MovesKeepTheClaim DEF ProtectionInv

LEMMA StepsArePromised ==
    [][QueueSteps]_vars => /\ LostClaimCountedOnce /\ TakesTheHead
                           /\ FinishedStaysFinished /\ PromotedOnlyWhenReady
  <1>1. [QueueSteps]_vars => [CountedOnce]_vars /\ [HeadTaken]_vars
                             /\ [StaysFinished]_vars /\ [PromotedReady]_vars
    BY DEF QueueSteps
  <1>2. [][CountedOnce]_vars => LostClaimCountedOnce
    BY PTL DEF LostClaimCountedOnce, CountedOnce
  <1>3. [][HeadTaken]_vars => TakesTheHead
    BY PTL DEF TakesTheHead, HeadTaken
  <1>4. [][StaysFinished]_vars => FinishedStaysFinished
    BY PTL DEF FinishedStaysFinished, StaysFinished
  <1>5. [][PromotedReady]_vars => PromotedOnlyWhenReady
    BY PTL DEF PromotedOnlyWhenReady, PromotedReady
  <1> QED BY <1>1, <1>2, <1>3, <1>4, <1>5, PTL

LEMMA QueueHoldsInit == Init => QueueHolds
  <1> SUFFICES ASSUME Init PROVE QueueHolds
    OBVIOUS
  <1>1. LeaseHonoured
    BY QueueAssumption DEF Init, LeaseHonoured, Null
  <1>2. LeasePromised
    BY DEF Init, Absent, Pending, LeasePromised, Promised
  <1> QED BY <1>1, <1>2, ClaimsInit, RowsInit, CountInit DEF QueueHolds, ClaimsInv, RowsInv, CountInv
=============================================================================
