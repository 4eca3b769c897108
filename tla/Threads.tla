------------------------------ MODULE Threads -------------------------------
(***************************************************************************)
(* The calls that read a thread (core.thread_status and show, over         *)
(* thread_rows and descendants of cli.py; listing with a thread reads what *)
(* thread_status reads), beside everything else that happens to the queue. *)
(*                                                                         *)
(* Such a call first reclaims and promotes, in two transactions, and then  *)
(* reads with one SELECT per row it visits.  No transaction holds these    *)
(* reads together: each is an action of its own, sees the table of its own *)
(* moment, and any call of anybody may run in between.                     *)
(***************************************************************************)
EXTENDS HandoffProperties

CONSTANTS
    Readers,     \* processes that read threads
    Orderly      \* TRUE: directives are pushed only under a directive that is
                 \* not finished, and nobody reopens a finished one

ASSUME ThreadsAssumption == Orderly \in BOOLEAN /\ 1 \in Ids

VARIABLE
    walk   \* per reader: the call it is inside of, or its last answer

tvars == <<hvars, walk>>

\* began, empty, closed are history: the directives there were when the call
\* began, whether show found no relative, and whether at some instant of the
\* call nothing in the thread was open.
Row == [id : Ids, status : Statuses]
Places == {"idle", "promote", "look", "probe", "climb", "root", "visit", "answered"}
Walk == [at : Places, op : {"status", "show"}, item : Ids, root : Ids,
         rows : Seq(Row), stack : Seq(Ids), began : 0..MaxId, closed : BOOLEAN]

ThreadsTypeOK == walk \in [Readers -> Walk]

Fresh(op, i) ==
    [at |-> "promote", op |-> op, item |-> i, root |-> i, rows |-> <<>>,
     stack |-> <<>>, began |-> Rows, closed |-> FALSE]

AtRest == [Fresh("show", 1) EXCEPT !.at = "idle", !.began = 0]

ThreadsInit == HandoffInit /\ walk = [q \in Readers |-> AtRest]

ChildrenOf(d, i) == {j \in Ids : Exists(d[j]) /\ d[j].parent = i}

\* A set of directives with all their children, in which nothing is open.
AllFinished(S, d) ==
    \A i \in S : d[i].status \in Terminal /\ ChildrenOf(d, i) \subseteq S

ThreadFinished(item, d) ==
    \E S \in SUBSET Ids :
        /\ item \in S /\ AllFinished(S, d)
        /\ \A i \in S : d[i].parent # Null => d[i].parent \in S

\* Every step tells the calls that are under way whether their thread is
\* finished now.
Watched(w, d) ==
    IF w.at \in {"idle", "answered"} THEN w
    ELSE [w EXCEPT !.closed = @ \/ ThreadFinished(w.item, d)]

Moves(q, w) ==
    walk' = [r \in Readers |-> Watched(IF r = q THEN w ELSE walk[r], directives')]

Reads(q, w) == UNCHANGED hvars /\ Moves(q, w)

-----------------------------------------------------------------------------
\* reclaim_expired_leases and reclaim_deferred, a transaction each.
Ask(q, op, i) ==
    /\ walk[q].at \in {"idle", "answered"}
    /\ KnownIds => Exists(directives[i])
    /\ \E t \in EarlyReading : Commit(ReclaimExpired(directives, t))
    /\ Moves(q, Fresh(op, i))
    /\ UNCHANGED <<issued, call, granted, own>>

Sweeps(q) ==
    /\ walk[q].at = "promote"
    /\ \E t \in EarlyReading : Commit(ReclaimDeferred(directives, t))
    /\ Moves(q, [walk[q] EXCEPT !.at = IF walk[q].op = "show" THEN "look" ELSE "climb"])
    /\ UNCHANGED <<issued, call, granted, own>>

\* show: a directive with a parent has a thread; of another one the first
\* SELECT of descendants decides.
Look(q) ==
    /\ walk[q].at = "look"
    /\ LET r == directives[walk[q].item]
       IN  Reads(q, [walk[q] EXCEPT !.at =
                IF ~Exists(r) THEN "idle"
                ELSE IF r.parent = Null THEN "probe" ELSE "climb"])

Probe(q) ==
    /\ walk[q].at = "probe"
    /\ Reads(q, [walk[q] EXCEPT !.at =
            IF ChildrenOf(directives, walk[q].item) = {} THEN "answered" ELSE "climb"])

\* Mutant: the parent is not tested.
ClimbOn(q) ==
    /\ walk[q].at = "climb"
    /\ LET r == directives[walk[q].root]
       IN  IF Exists(r)
           THEN Reads(q, [walk[q] EXCEPT !.root = r.parent])
           ELSE Reads(q, [walk[q] EXCEPT !.at = "root"])

\* thread_rows: up to a row without a parent, then that row, then down.
Climb(q) ==
    /\ walk[q].at = "climb"
    /\ LET r == directives[walk[q].root]
       IN  IF Exists(r) /\ r.parent # Null
           THEN Reads(q, [walk[q] EXCEPT !.root = r.parent])
           ELSE Reads(q, [walk[q] EXCEPT !.at = "root"])

\* Mutant: the descendants of the item instead of its root's.
ReadItem(q) ==
    /\ walk[q].at = "root"
    /\ LET r == directives[walk[q].root]
       IN  Reads(q, [walk[q] EXCEPT
                !.at = "visit", !.stack = <<walk[q].item>>,
                !.rows = IF Exists(r) THEN <<[id |-> walk[q].root, status |-> r.status]>>
                                      ELSE <<>>])

ReadRoot(q) ==
    /\ walk[q].at = "root"
    /\ LET r == directives[walk[q].root]
       IN  Reads(q, [walk[q] EXCEPT
                !.at = "visit", !.stack = <<walk[q].root>>,
                !.rows = IF Exists(r) THEN <<[id |-> walk[q].root, status |-> r.status]>>
                                      ELSE <<>>])

\* The rows of one SELECT: ORDER BY priority, id.
Lists(kids, i) ==
    /\ \A n \in DOMAIN kids :
        /\ kids[n] \in ChildrenOf(directives, i)
        /\ \A m \in DOMAIN kids : n < m => Before(directives, kids[n], kids[m])
    /\ \A j \in ChildrenOf(directives, i) : \E n \in DOMAIN kids : kids[n] = j

\* Mutant: the last child of a row is not pushed.
VisitAllButOne(q) ==
    /\ walk[q].at = "visit" /\ walk[q].stack # <<>>
    /\ LET rest == Len(walk[q].stack) - 1
           i == walk[q].stack[rest + 1]
       IN  \E n \in 0..MaxId : \E kids \in [1..n -> ChildrenOf(directives, i)] :
            /\ Lists(kids, i)
            /\ Reads(q, [walk[q] EXCEPT
                !.rows = @ \o [m \in 1..n |->
                                [id |-> kids[m], status |-> directives[kids[m]].status]],
                !.stack = [m \in 1..(IF n = 0 THEN rest ELSE rest + n - 1) |->
                            IF m <= rest THEN @[m] ELSE kids[rest + n - m]]])

\* descendants: pop a row, SELECT its children, push them for the first to be
\* popped first.
Visit(q) ==
    /\ walk[q].at = "visit" /\ walk[q].stack # <<>>
    /\ LET rest == Len(walk[q].stack) - 1
           i == walk[q].stack[rest + 1]
       IN  \E n \in 0..MaxId : \E kids \in [1..n -> ChildrenOf(directives, i)] :
            /\ Lists(kids, i)
            /\ Reads(q, [walk[q] EXCEPT
                !.rows = @ \o [m \in 1..n |->
                                [id |-> kids[m], status |-> directives[kids[m]].status]],
                !.stack = [m \in 1..(rest + n) |->
                            IF m <= rest THEN @[m] ELSE kids[rest + n + 1 - m]]])

\* No row at all is an error.
Answer(q) ==
    /\ walk[q].at = "visit" /\ walk[q].stack = <<>>
    /\ Reads(q, [walk[q] EXCEPT !.at =
            IF walk[q].rows = <<>> THEN "idle" ELSE "answered"])

\* The reader dies, or forgets its answer.
Leave(q) ==
    /\ walk[q].at # "idle"
    /\ Reads(q, AtRest)

\* thread_status
Open(w) == {n \in DOMAIN w.rows : w.rows[n].status \notin Terminal}

SaysDone(w) == w.at = "answered" /\ w.op = "status" /\ Open(w) = {}

-----------------------------------------------------------------------------
KeepsOrder ==
    \A i \in Ids :
        /\ directives[i].status \in Terminal => directives'[i].status \in Terminal
        /\ ~Exists(directives[i]) /\ Exists(directives'[i]) /\ directives'[i].parent # Null
            => directives[directives'[i].parent].status \notin Terminal

Others ==
    /\ HandoffNext
    /\ Orderly => KeepsOrder
    /\ walk' = [q \in Readers |-> Watched(walk[q], directives')]

ReaderStep(q) ==
    \/ \E op \in {"status", "show"}, i \in Ids : Ask(q, op, i)
    \/ Sweeps(q) \/ Look(q) \/ Probe(q) \/ Climb(q) \/ ReadRoot(q) \/ Visit(q)
    \/ Answer(q) \/ Leave(q)

ThreadsNext == Others \/ \E q \in Readers : ReaderStep(q)

ThreadsSpec == ThreadsInit /\ [][ThreadsNext]_tvars
=============================================================================
