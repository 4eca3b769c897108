---------------------------- MODULE ThreadProofs ----------------------------
(***************************************************************************)
(* Reading a thread row by row, proved for any number of directives and    *)
(* readers: an answer of "done" is true and stays true, an answer has      *)
(* overlooked nothing that was there, and readers disturb nobody.          *)
(***************************************************************************)
EXTENDS ThreadProperties, HandoffProofs

\* A sweep that a reader makes is no step of the queue's processes, but does
\* no more than theirs.
LEMMA SweptInv ==
    ASSUME HandoffInv, NEW e \in Table, KeepsRows(directives, e), TableMoves(directives, e),
           Commit(e), UNCHANGED <<issued, call, granted, own>>
    PROVE  HandoffInv'
  <1>1. directives' = e /\ body' = body
    BY DEF Commit, own
  <1>2. TypeOK'
    BY CommitType DEF HandoffInv, TypeOK
  <1>3. RowsStay
    BY <1>1 DEF RowsStay, KeepsRows, Fixed
  <1>4. Targets'
    BY <1>3, TargetsStay DEF HandoffInv
  <1>5. \E n \in 0..MaxId : FirstRows(directives', n)
    BY <1>1, FirstRowsNext DEF HandoffInv
  <1>6. body' \in [Ids -> Bodies]
    BY <1>1 DEF HandoffInv, HandoffTypeOK
  <1> QED BY <1>1, <1>2, <1>3, <1>4, <1>5, <1>6, RowsMoveInv DEF own

\* The sweeps leave what is finished alone.
LEMMA SweepSpares ==
    ASSUME TypeOK, NEW t \in EarlyReading, NEW e,
           \/ e = ReclaimExpired(directives, t)
           \/ e = ReclaimDeferred(directives, t)
    PROVE  /\ e \in Table
           /\ KeepsRows(directives, e)
           /\ TableMoves(directives, e)
           /\ \A i \in Ids : directives[i].status \in Terminal => e[i] = directives[i]
  <1>1. directives \in Table /\ t \in Nat
    BY ReadingType
  <1>2. \A i \in Ids : directives[i].status \in Terminal =>
            ~Expired(directives[i], t) /\ ~Ready(directives, directives[i], t)
    BY DEF Terminal, Expired, Ready
  <1>3. \A i \in Ids : directives[i].status \in Terminal => e[i] = directives[i]
    BY <1>2 DEF ReclaimExpired, ReclaimDeferred
  <1>4. e \in Table
    BY <1>1, ReclaimExpiredType, ReclaimDeferredType
  <1>5. KeepsRows(directives, e)
    BY <1>1, SweepsKeep
  <1>6. TableMoves(directives, e)
    BY <1>1, SweepMoves
  <1> QED BY <1>3, <1>4, <1>5, <1>6

(***************************************************************************)
(* What a reader inside a call knows.  Threaded(w, d): it stands on rows   *)
(* that are there, it has the root, and of every row that it has seen      *)
(* finished it has all children, or will when it comes to the row.         *)
(***************************************************************************)
Seen(w) == {w.rows[n].id : n \in DOMAIN w.rows}
Waiting(w) == {w.stack[n] : n \in DOMAIN w.stack}

HasRows(w) == w.at = "visit" \/ (w.at = "answered" /\ w.op = "status")

Threaded(w, d) ==
    /\ w.at # "idle" => Exists(d[w.item]) /\ Exists(d[w.root])
    /\ w.at \in {"look", "probe"} => w.op = "show"
    /\ w.at = "root" => d[w.root].parent = Null
    /\ HasRows(w) =>
        /\ d[w.root].parent = Null /\ w.root \in Seen(w)
        /\ \A n \in DOMAIN w.rows : w.rows[n].status \in Terminal =>
            /\ d[w.rows[n].id].status \in Terminal
            /\ ChildrenOf(d, w.rows[n].id) \subseteq Seen(w) \/ w.rows[n].id \in Waiting(w)
    /\ w.at = "answered" /\ w.op = "status" => w.stack = <<>>

\* Nobody disorders the forest: nothing is put below a finished directive,
\* and none is reopened.
Ordered(d, e) ==
    \A i \in Ids :
        /\ d[i].status \in Terminal => e[i].status \in Terminal
        /\ ~Exists(d[i]) /\ Exists(e[i]) /\ e[i].parent # Null =>
            d[e[i].parent].status \notin Terminal

LEMMA ThreadedStays ==
    ASSUME NEW w \in Walk, NEW d \in Table, NEW e \in Table,
           Threaded(w, d), Grown(d, e), Ordered(d, e)
    PROVE  Threaded(w, e)
  <1>1. /\ w.item \in Ids /\ w.root \in Ids
        /\ \A n \in DOMAIN w.rows : w.rows[n].id \in Ids
    <2>1. w.rows \in Seq(Row)
      BY DEF Walk
    <2>2. \A n \in DOMAIN w.rows : w.rows[n] \in Row
      BY <2>1
    <2> QED BY <2>2 DEF Walk, Row
  <1>2. \A i \in Ids : Exists(d[i]) => Exists(e[i]) /\ e[i].parent = d[i].parent
    BY DEF Grown
  <1>3. ASSUME NEW i \in Ids, d[i].status \in Terminal
        PROVE  ChildrenOf(e, i) \subseteq ChildrenOf(d, i)
    <2> SUFFICES ASSUME NEW j \in Ids, Exists(e[j]), e[j].parent = i
                 PROVE  Exists(d[j]) /\ d[j].parent = i
      BY DEF ChildrenOf
    <2>1. i # Null
      BY DEF Ids, Null
    <2> QED BY <1>2, <1>3, <2>1 DEF Ordered
  <1>4. ASSUME NEW n \in DOMAIN w.rows, HasRows(w), w.rows[n].status \in Terminal
        PROVE  /\ e[w.rows[n].id].status \in Terminal
               /\ ChildrenOf(e, w.rows[n].id) \subseteq Seen(w) \/ w.rows[n].id \in Waiting(w)
    <2>1. /\ d[w.rows[n].id].status \in Terminal
          /\ ChildrenOf(d, w.rows[n].id) \subseteq Seen(w) \/ w.rows[n].id \in Waiting(w)
      BY <1>4 DEF Threaded
    <2> QED BY <1>1, <1>3, <2>1 DEF Ordered
  <1>5. w.at # "idle" => Exists(e[w.item]) /\ Exists(e[w.root])
    BY <1>1, <1>2 DEF Threaded
  <1>6. (w.at = "root" \/ HasRows(w)) => e[w.root].parent = Null
    BY <1>1, <1>2 DEF Threaded, HasRows
  <1> QED BY <1>4, <1>5, <1>6 DEF Threaded

LEMMA WatchedFields ==
    ASSUME NEW w \in Walk, NEW d
    PROVE  /\ Watched(w, d) \in Walk
           /\ \A e : Threaded(w, e) => Threaded(Watched(w, d), e)
  <1> DEFINE v == Watched(w, d)
  <1>1. ThreadFinished(w.item, d) \in BOOLEAN
    BY DEF ThreadFinished
  <1>2. v \in Walk /\ v.at = w.at /\ v.op = w.op /\ v.item = w.item /\ v.root = w.root
        /\ v.rows = w.rows /\ v.stack = w.stack
    BY <1>1 DEF Watched, Walk
  <1> HIDE DEF v
  <1>3. Seen(v) = Seen(w) /\ Waiting(v) = Waiting(w) /\ (HasRows(v) <=> HasRows(w))
    BY <1>2 DEF Seen, Waiting, HasRows
  <1>4. ASSUME NEW e, Threaded(w, e)
        PROVE  Threaded(v, e)
    BY <1>2, <1>3, <1>4 DEF Threaded
  <1> QED BY <1>2, <1>4 DEF v

(***************************************************************************)
(* The steps of one reader.                                                *)
(***************************************************************************)
\* A reader that only changes its place.
LEMMA PlaceChanges ==
    ASSUME NEW w \in Walk, NEW a \in Places
    PROVE  LET v == [w EXCEPT !.at = a]
           IN  /\ v \in Walk /\ v.at = a
               /\ v.op = w.op /\ v.item = w.item /\ v.root = w.root
               /\ v.rows = w.rows /\ v.stack = w.stack
               /\ Seen(v) = Seen(w) /\ Waiting(v) = Waiting(w)
  <1> DEFINE v == [w EXCEPT !.at = a]
  <1>1. /\ v \in Walk /\ v.at = a
        /\ v.op = w.op /\ v.item = w.item /\ v.root = w.root
        /\ v.rows = w.rows /\ v.stack = w.stack
    BY DEF Walk
  <1> HIDE DEF v
  <1>2. Seen(v) = Seen(w) /\ Waiting(v) = Waiting(w)
    BY <1>1 DEF Seen, Waiting
  <1> QED BY <1>1, <1>2 DEF v

\* Before it has rows, all a reader knows is that its item and root are there.
LEMMA NoRowsYet ==
    ASSUME NEW w \in Walk, NEW a \in {"promote", "look", "probe", "climb"}, NEW d,
           Exists(d[w.item]), Exists(d[w.root]), a \in {"look", "probe"} => w.op = "show"
    PROVE  Threaded([w EXCEPT !.at = a], d)
  <1> DEFINE v == [w EXCEPT !.at = a]
  <1>1. v.at = a /\ v.op = w.op /\ v.item = w.item /\ v.root = w.root
    BY PlaceChanges DEF Places
  <1> HIDE DEF v
  <1>2. ~HasRows(v)
    BY <1>1 DEF HasRows
  <1>3. Threaded(v, d)
    BY <1>1, <1>2 DEF Threaded
  <1> QED BY <1>3 DEF v

LEMMA SweepsThreaded ==
    ASSUME NEW w \in Walk, w.at = "promote", NEW d, Threaded(w, d)
    PROVE  LET v == [w EXCEPT !.at = IF w.op = "show" THEN "look" ELSE "climb"]
           IN  v \in Walk /\ Threaded(v, d)
  <1> DEFINE a == IF w.op = "show" THEN "look" ELSE "climb"
  <1>1. /\ a \in {"promote", "look", "probe", "climb"} /\ a \in Places
        /\ a \in {"look", "probe"} => w.op = "show"
    BY DEF Places
  <1> HIDE DEF a
  <1>2. Threaded([w EXCEPT !.at = a], d)
    BY <1>1, NoRowsYet DEF Threaded
  <1>3. [w EXCEPT !.at = a] \in Walk
    BY <1>1, PlaceChanges
  <1> QED BY <1>2, <1>3 DEF a

LEMMA LookThreaded ==
    ASSUME NEW w \in Walk, w.at = "look", NEW d, Threaded(w, d), NEW a \in {"probe", "climb"}
    PROVE  [w EXCEPT !.at = a] \in Walk /\ Threaded([w EXCEPT !.at = a], d)
  <1>1. [w EXCEPT !.at = a] \in Walk
    BY PlaceChanges DEF Places
  <1>2. Exists(d[w.item]) /\ Exists(d[w.root]) /\ w.op = "show"
    BY DEF Threaded
  <1>3. Threaded([w EXCEPT !.at = a], d)
    BY <1>2, NoRowsYet
  <1> QED BY <1>1, <1>3

LEMMA ProbeThreaded ==
    ASSUME NEW w \in Walk, w.at = "probe", NEW d, Threaded(w, d), NEW a \in {"answered", "climb"}
    PROVE  [w EXCEPT !.at = a] \in Walk /\ Threaded([w EXCEPT !.at = a], d)
  <1> DEFINE v == [w EXCEPT !.at = a]
  <1>0. a \in Places
    BY DEF Places
  <1>1. v \in Walk /\ v.at = a /\ v.op = w.op /\ v.item = w.item /\ v.root = w.root
    BY <1>0, PlaceChanges
  <1>2. w.op = "show" /\ Exists(d[w.item]) /\ Exists(d[w.root])
    BY DEF Threaded
  <1> HIDE DEF v
  <1>3. ~HasRows(v)
    BY <1>1, <1>2 DEF HasRows
  <1>4. Threaded(v, d)
    BY <1>1, <1>2, <1>3 DEF Threaded
  <1> QED BY <1>1, <1>4 DEF v

LEMMA RootThreaded ==
    ASSUME NEW w \in Walk, w.at = "climb", NEW d, Threaded(w, d), d[w.root].parent = Null
    PROVE  [w EXCEPT !.at = "root"] \in Walk /\ Threaded([w EXCEPT !.at = "root"], d)
  <1> DEFINE v == [w EXCEPT !.at = "root"]
  <1>1. v \in Walk /\ v.at = "root" /\ v.op = w.op /\ v.item = w.item /\ v.root = w.root
    BY PlaceChanges DEF Places
  <1>2. Exists(d[w.item]) /\ Exists(d[w.root])
    BY DEF Threaded
  <1> HIDE DEF v
  <1>3. ~HasRows(v)
    BY <1>1 DEF HasRows
  <1>4. Threaded(v, d)
    BY <1>1, <1>2, <1>3 DEF Threaded
  <1> QED BY <1>1, <1>4 DEF v

LEMMA ClimbThreaded ==
    ASSUME NEW w \in Walk, w.at = "climb", NEW d, Threaded(w, d), NEW i \in Ids, Exists(d[i])
    PROVE  [w EXCEPT !.root = i] \in Walk /\ Threaded([w EXCEPT !.root = i], d)
  <1> DEFINE v == [w EXCEPT !.root = i]
  <1>1. v \in Walk /\ v.at = "climb" /\ v.op = w.op /\ v.item = w.item /\ v.root = i
    BY DEF Walk
  <1>2. Exists(d[w.item])
    BY DEF Threaded
  <1> HIDE DEF v
  <1>3. ~HasRows(v)
    BY <1>1 DEF HasRows
  <1>4. Threaded(v, d)
    BY <1>1, <1>2, <1>3 DEF Threaded
  <1> QED BY <1>1, <1>4 DEF v

LEMMA ReadRootThreaded ==
    ASSUME NEW w \in Walk, w.at = "root", NEW d \in Table,
           NEW rows, rows = IF Exists(d[w.root])
                            THEN <<[id |-> w.root, status |-> d[w.root].status]>> ELSE <<>>
    PROVE  LET v == [w EXCEPT !.at = "visit", !.stack = <<w.root>>, !.rows = rows]
           IN  v \in Walk /\ (Threaded(w, d) => Threaded(v, d))
  <1> DEFINE v == [w EXCEPT !.at = "visit", !.stack = <<w.root>>, !.rows = rows]
             row == [id |-> w.root, status |-> d[w.root].status]
  <1>1. w.root \in Ids /\ (Exists(d[w.root]) => row \in Row)
    BY DEF Walk, Row, Table, Directive, Exists
  <1> HIDE DEF row
  <1>2. rows \in Seq(Row) /\ (Exists(d[w.root]) => rows = <<row>>)
    BY <1>1 DEF row
  <1>3. <<w.root>> \in Seq(Ids)
    BY <1>1
  <1>4. /\ v \in Walk /\ v.at = "visit" /\ v.op = w.op /\ v.item = w.item /\ v.root = w.root
        /\ v.stack = <<w.root>> /\ v.rows = rows
    BY <1>2, <1>3 DEF Walk, Places
  <1>5. ASSUME Threaded(w, d)
        PROVE  Threaded(v, d)
    <2>1. Exists(d[w.root]) /\ Exists(d[w.item]) /\ d[w.root].parent = Null
      BY <1>5 DEF Threaded
    <2> HIDE DEF v
    <2>2. /\ DOMAIN v.rows = {1} /\ v.rows[1] = row
          /\ DOMAIN v.stack = {1} /\ v.stack[1] = w.root
      BY <1>2, <1>4, <2>1
    <2>3. row.id = w.root /\ row.status = d[w.root].status
      BY DEF row
    <2>4. w.root \in Seen(v) /\ w.root \in Waiting(v)
      BY <2>2, <2>3 DEF Seen, Waiting
    <2>5. \A n \in DOMAIN v.rows :
            v.rows[n].id = w.root /\ v.rows[n].status = d[w.root].status
      BY <2>2, <2>3
    <2> QED BY <1>4, <2>1, <2>4, <2>5 DEF Threaded, HasRows
  <1> QED BY <1>4, <1>5 DEF v

\* What Visit makes of the rows and of the stack.
MoreRows(rows, d, kids, n) ==
    rows \o [m \in 1..n |-> [id |-> kids[m], status |-> d[kids[m]].status]]

RestStack(stack, kids, n) ==
    LET rest == Len(stack) - 1
    IN  [m \in 1..(rest + n) |-> IF m <= rest THEN stack[m] ELSE kids[rest + n + 1 - m]]

\* How the lists before and after a Visit relate.
Visited(rows, stack, d, n, kids, rows2, stack2) ==
    /\ rows2 \in Seq(Row) /\ stack2 \in Seq(Ids)
    /\ \A a \in DOMAIN rows : a \in DOMAIN rows2 /\ rows2[a] = rows[a]
    /\ \A m \in 1..n : \E a \in DOMAIN rows2 : rows2[a].id = kids[m]
    /\ \A a \in DOMAIN rows2 :
         \/ a \in DOMAIN rows /\ rows2[a] = rows[a]
         \/ \E m \in 1..n : /\ rows2[a].id = kids[m]
                            /\ rows2[a].status = d[kids[m]].status
    /\ \A m \in 1..n : \E a \in DOMAIN stack2 : stack2[a] = kids[m]
    /\ \A a \in DOMAIN stack : stack[a] = stack[Len(stack)] \/
                                \E b \in DOMAIN stack2 : stack2[b] = stack[a]

\* Where the rows that one SELECT adds go, in the answer and on the stack.
Placed(rows, stack, d, n, kids, rows2, stack2) ==
    LET rest == Len(stack) - 1
    IN  /\ rows2 \in Seq(Row) /\ DOMAIN rows2 = 1..(Len(rows) + n)
        /\ \A a \in 1..Len(rows) : rows2[a] = rows[a]
        /\ \A m \in 1..n : /\ rows2[Len(rows) + m].id = kids[m]
                           /\ rows2[Len(rows) + m].status = d[kids[m]].status
        /\ stack2 \in Seq(Ids) /\ DOMAIN stack2 = 1..(rest + n)
        /\ \A a \in 1..rest : stack2[a] = stack[a] /\ a \in 1..(rest + n)
        /\ \A m \in 1..n : /\ stack2[rest + n + 1 - m] = kids[m]
                           /\ rest + n + 1 - m \in 1..(rest + n)

LEMMA VisitPlaces ==
    ASSUME NEW rows \in Seq(Row), NEW stack \in Seq(Ids), stack # <<>>, NEW d \in Table,
           NEW n \in 0..MaxId, NEW kids \in [1..n -> ChildrenOf(d, stack[Len(stack)])]
    PROVE  Placed(rows, stack, d, n, kids,
                  MoreRows(rows, d, kids, n), RestStack(stack, kids, n))
  <1> DEFINE rest == Len(stack) - 1
             row(m) == [id |-> kids[m], status |-> d[kids[m]].status]
             more == [m \in 1..n |-> row(m)]
             rows2 == rows \o more
             stack2 == [m \in 1..(rest + n) |->
                            IF m <= rest THEN stack[m] ELSE kids[rest + n + 1 - m]]
  <1>1. n \in Nat /\ rest \in Nat /\ Len(stack) = rest + 1 /\ DOMAIN stack = 1..(rest + 1)
    BY DirectivesAssumption
  <1>2. \A m \in 1..n : kids[m] \in Ids /\ Exists(d[kids[m]])
    BY DEF ChildrenOf
  <1>3. \A m \in 1..n : row(m) \in Row /\ row(m).id = kids[m] /\ row(m).status = d[kids[m]].status
    BY <1>2 DEF Row, Table, Directive, Exists
  <1>4. more \in Seq(Row) /\ Len(more) = n /\ \A m \in 1..n : more[m] = row(m)
    <2> HIDE DEF row
    <2>1. more \in [1..n -> Row]
      BY <1>3
    <2> HIDE DEF more
    <2>2. more \in Seq(Row)
      BY <1>1, <2>1, SeqDef
    <2>3. Len(more) = n
      BY <1>1, <2>1, <2>2
    <2>4. \A m \in 1..n : more[m] = row(m)
      BY DEF more
    <2> QED BY <2>2, <2>3, <2>4
  <1> HIDE DEF more, row
  <1>5. /\ rows2 \in Seq(Row) /\ DOMAIN rows2 = 1..(Len(rows) + n)
        /\ \A a \in 1..Len(rows) : rows2[a] = rows[a]
        /\ \A m \in 1..n : rows2[Len(rows) + m] = row(m)
    BY <1>1, <1>4
  <1>6. \A m \in 1..(rest + n) : m <= rest \/ rest + n + 1 - m \in 1..n
    BY <1>1
  <1>7. stack2 \in [1..(rest + n) -> Ids]
    BY <1>1, <1>2, <1>6
  <1>8. stack2 \in Seq(Ids) /\ DOMAIN stack2 = 1..(rest + n)
    <2>1. rest + n \in Nat
      BY <1>1
    <2> HIDE DEF stack2
    <2> QED BY <1>7, <2>1, SeqDef
  <1>9. /\ \A a \in 1..rest : stack2[a] = stack[a] /\ a \in 1..(rest + n)
        /\ \A m \in 1..n : /\ stack2[rest + n + 1 - m] = kids[m]
                           /\ rest + n + 1 - m \in 1..(rest + n)
    <2>1. \A a \in 1..rest : a \in 1..(rest + n) /\ a <= rest
      BY <1>1
    <2>2. \A m \in 1..n : /\ rest + n + 1 - m \in 1..(rest + n)
                          /\ ~(rest + n + 1 - m <= rest)
                          /\ rest + n + 1 - (rest + n + 1 - m) = m
      BY <1>1
    <2> QED BY <2>1, <2>2
  <1> HIDE DEF stack2, rows2
  <1>10. MoreRows(rows, d, kids, n) = rows2 /\ RestStack(stack, kids, n) = stack2
    BY DEF rows2, more, row, stack2, MoreRows, RestStack
  <1>11. \A m \in 1..n : /\ rows2[Len(rows) + m].id = kids[m]
                         /\ rows2[Len(rows) + m].status = d[kids[m]].status
    BY <1>3, <1>5
  <1>12. Placed(rows, stack, d, n, kids, rows2, stack2)
    BY <1>5, <1>8, <1>9, <1>11 DEF Placed
  <1> QED BY <1>10, <1>12

\* The rows that one SELECT adds, and the stack after it.
LEMMA VisitLists ==
    ASSUME NEW rows \in Seq(Row), NEW stack \in Seq(Ids), stack # <<>>, NEW d \in Table,
           NEW n \in 0..MaxId, NEW kids \in [1..n -> ChildrenOf(d, stack[Len(stack)])]
    PROVE  Visited(rows, stack, d, n, kids,
                   MoreRows(rows, d, kids, n), RestStack(stack, kids, n))
  <1> DEFINE rest == Len(stack) - 1
             rows2 == MoreRows(rows, d, kids, n)
             stack2 == RestStack(stack, kids, n)
  <1>1. /\ n \in Nat /\ rest \in Nat /\ Len(stack) = rest + 1 /\ DOMAIN stack = 1..(rest + 1)
        /\ Len(rows) \in Nat /\ DOMAIN rows = 1..Len(rows)
    BY DirectivesAssumption
  <1>0. Placed(rows, stack, d, n, kids, rows2, stack2)
    BY VisitPlaces
  <1> HIDE DEF rows2, stack2
  <1>2. /\ rows2 \in Seq(Row) /\ DOMAIN rows2 = 1..(Len(rows) + n)
        /\ \A a \in 1..Len(rows) : rows2[a] = rows[a]
        /\ \A m \in 1..n : /\ rows2[Len(rows) + m].id = kids[m]
                           /\ rows2[Len(rows) + m].status = d[kids[m]].status
    BY <1>0 DEF Placed
  <1>3. /\ stack2 \in Seq(Ids) /\ DOMAIN stack2 = 1..(rest + n)
        /\ \A a \in 1..rest : stack2[a] = stack[a] /\ a \in 1..(rest + n)
        /\ \A m \in 1..n : /\ stack2[rest + n + 1 - m] = kids[m]
                           /\ rest + n + 1 - m \in 1..(rest + n)
    BY <1>0 DEF Placed
  <1> HIDE DEF rest
  <1>4. \A a \in DOMAIN rows : a \in DOMAIN rows2 /\ rows2[a] = rows[a]
    BY <1>1, <1>2
  <1>5. \A m \in 1..n : \E a \in DOMAIN rows2 : rows2[a].id = kids[m]
    <2>1. \A m \in 1..n : Len(rows) + m \in DOMAIN rows2
      BY <1>1, <1>2
    <2> QED BY <1>2, <2>1
  <1>6. ASSUME NEW a \in DOMAIN rows2
        PROVE  \/ a \in DOMAIN rows /\ rows2[a] = rows[a]
               \/ \E m \in 1..n : /\ rows2[a].id = kids[m]
                                  /\ rows2[a].status = d[kids[m]].status
    <2>1. CASE a <= Len(rows)
      BY <1>1, <1>2, <2>1
    <2>2. CASE ~(a <= Len(rows))
      <3>1. PICK m \in 1..n : a = Len(rows) + m
        <4>1. a - Len(rows) \in 1..n /\ a = Len(rows) + (a - Len(rows))
          BY <1>1, <1>2, <2>2
        <4> QED BY <4>1
      <3>2. rows2[Len(rows) + m].id = kids[m] /\ rows2[Len(rows) + m].status = d[kids[m]].status
        BY <1>2
      <3> QED BY <3>1, <3>2
    <2> QED BY <2>1, <2>2
  <1>7. \A m \in 1..n : \E a \in DOMAIN stack2 : stack2[a] = kids[m]
    <2>1. ASSUME NEW m \in 1..n
          PROVE  /\ rest + n + 1 - m \in DOMAIN stack2
                 /\ stack2[rest + n + 1 - m] = kids[m]
      BY <1>3
    <2> QED BY <2>1
  <1>8. ASSUME NEW a \in DOMAIN stack
        PROVE  stack[a] = stack[Len(stack)] \/ \E b \in DOMAIN stack2 : stack2[b] = stack[a]
    <2>1. a = Len(stack) \/ a \in 1..rest
      BY <1>1
    <2> QED BY <1>3, <2>1
  <1>9. Visited(rows, stack, d, n, kids, rows2, stack2)
    BY <1>2, <1>3, <1>4, <1>5, <1>6, <1>7, <1>8 DEF Visited
  <1> QED BY <1>9 DEF rows2, stack2

LEMMA VisitThreaded ==
    ASSUME NEW w \in Walk, w.at = "visit", w.stack # <<>>, NEW d \in Table,
           NEW n \in 0..MaxId, NEW kids \in [1..n -> ChildrenOf(d, w.stack[Len(w.stack)])],
           \A j \in ChildrenOf(d, w.stack[Len(w.stack)]) : \E m \in 1..n : kids[m] = j
    PROVE  LET rows2 == MoreRows(w.rows, d, kids, n)
               stack2 == RestStack(w.stack, kids, n)
               v == [w EXCEPT !.rows = rows2, !.stack = stack2]
           IN  v \in Walk /\ (Threaded(w, d) => Threaded(v, d))
  <1> DEFINE rows2 == MoreRows(w.rows, d, kids, n)
             stack2 == RestStack(w.stack, kids, n)
             v == [w EXCEPT !.rows = rows2, !.stack = stack2]
             i == w.stack[Len(w.stack)]
  <1>1. w.rows \in Seq(Row) /\ w.stack \in Seq(Ids)
    BY DEF Walk
  <1>2. Visited(w.rows, w.stack, d, n, kids, rows2, stack2)
    BY <1>1, VisitLists
  <1> HIDE DEF rows2, stack2
  <1>3. /\ rows2 \in Seq(Row) /\ stack2 \in Seq(Ids)
        /\ \A a \in DOMAIN w.rows : a \in DOMAIN rows2 /\ rows2[a] = w.rows[a]
        /\ \A m \in 1..n : \E a \in DOMAIN rows2 : rows2[a].id = kids[m]
    BY <1>2 DEF Visited
  <1>4. \A a \in DOMAIN rows2 :
            \/ a \in DOMAIN w.rows /\ rows2[a] = w.rows[a]
            \/ \E m \in 1..n : /\ rows2[a].id = kids[m]
                               /\ rows2[a].status = d[kids[m]].status
    BY <1>2 DEF Visited
  <1>5. \A m \in 1..n : \E a \in DOMAIN stack2 : stack2[a] = kids[m]
    BY <1>2 DEF Visited
  <1>6. \A a \in DOMAIN w.stack : w.stack[a] = i \/ \E b \in DOMAIN stack2 : stack2[b] = w.stack[a]
    BY <1>2 DEF Visited
  <1>7. /\ v \in Walk /\ v.at = "visit" /\ v.op = w.op /\ v.item = w.item /\ v.root = w.root
        /\ v.rows = rows2 /\ v.stack = stack2
    BY <1>3 DEF Walk
  <1> HIDE DEF v, i
  <1>8. /\ Seen(w) \subseteq Seen(v) /\ ChildrenOf(d, i) \subseteq Seen(v)
        /\ \A m \in 1..n : kids[m] \in Waiting(v)
        /\ \A j \in Waiting(w) : j = i \/ j \in Waiting(v)
    <2>0. /\ Seen(v) = {rows2[a].id : a \in DOMAIN rows2}
          /\ Waiting(v) = {stack2[a] : a \in DOMAIN stack2}
      BY <1>7 DEF Seen, Waiting
    <2>1. Seen(w) \subseteq Seen(v)
      <3>1. \A a \in DOMAIN w.rows : w.rows[a].id \in Seen(v)
        BY <1>3, <2>0
      <3> QED BY <3>1 DEF Seen
    <2>2. ChildrenOf(d, i) \subseteq Seen(v)
      <3>1. \A j \in ChildrenOf(d, i) : \E m \in 1..n : kids[m] = j
        BY DEF i
      <3> QED BY <1>3, <2>0, <3>1
    <2>3. \A m \in 1..n : kids[m] \in Waiting(v)
      BY <1>5, <2>0
    <2>4. \A j \in Waiting(w) : j = i \/ j \in Waiting(v)
      <3>1. \A a \in DOMAIN w.stack : w.stack[a] = i \/ w.stack[a] \in Waiting(v)
        BY <1>6, <2>0
      <3> QED BY <3>1 DEF Waiting
    <2> QED BY <2>1, <2>2, <2>3, <2>4
  <1>9. ASSUME Threaded(w, d)
        PROVE  Threaded(v, d)
    <2>1. /\ Exists(d[w.item]) /\ Exists(d[w.root])
          /\ d[w.root].parent = Null /\ w.root \in Seen(w)
      BY <1>9 DEF Threaded, HasRows
    <2>2. ASSUME NEW a \in DOMAIN rows2, rows2[a].status \in Terminal
          PROVE  /\ d[rows2[a].id].status \in Terminal
                 /\ ChildrenOf(d, rows2[a].id) \subseteq Seen(v) \/ rows2[a].id \in Waiting(v)
      <3>1. CASE a \in DOMAIN w.rows /\ rows2[a] = w.rows[a]
        <4>1. /\ d[rows2[a].id].status \in Terminal
              /\ ChildrenOf(d, rows2[a].id) \subseteq Seen(w) \/ rows2[a].id \in Waiting(w)
          BY <1>9, <2>2, <3>1 DEF Threaded, HasRows
        <4> QED BY <1>8, <4>1
      <3>2. CASE \E m \in 1..n : rows2[a].id = kids[m] /\ rows2[a].status = d[kids[m]].status
        BY <1>8, <2>2, <3>2
      <3> QED BY <1>4, <3>1, <3>2
    <2> QED BY <1>7, <1>8, <2>1, <2>2 DEF Threaded, HasRows
  <1> QED BY <1>7, <1>9 DEF v, rows2, stack2

-----------------------------------------------------------------------------
(***************************************************************************)
(* The invariant.  Without Orderly a reader knows only what its place in   *)
(* the call says.                                                          *)
(***************************************************************************)
ThreadsInv ==
    /\ HandoffInv
    /\ ParentsThere(directives)
    /\ ThreadsTypeOK
    /\ Orderly => \A q \in Readers : Threaded(walk[q], directives)

\* A step of reader q to w' leaves the invariant if the tables do.
LEMMA ReaderMoves ==
    ASSUME ThreadsInv, NEW q \in Readers, NEW w \in Walk, Moves(q, w),
           HandoffInv', Grown(directives, directives'),
           Ordered(directives, directives'),
           Orderly => Threaded(w, directives')
    PROVE  ThreadsInv'
  <1>1. directives \in Table /\ directives' \in Table
    BY DEF ThreadsInv, HandoffInv, TypeOK, Table
  <1>2. ParentsThere(directives')
    BY <1>1, ParentsStay DEF ThreadsInv
  <1>3. /\ DOMAIN walk' = Readers
        /\ walk' = [r \in Readers |-> Watched(IF r = q THEN w ELSE walk[r], directives')]
    BY DEF Moves
  <1>4. ASSUME NEW r \in Readers
        PROVE  /\ walk'[r] \in Walk
               /\ Orderly => Threaded(walk'[r], directives')
    <2> DEFINE v == IF r = q THEN w ELSE walk[r]
    <2>1. walk'[r] = Watched(v, directives')
      BY <1>3
    <2>2. walk[r] \in Walk /\ v \in Walk
      BY DEF ThreadsInv, ThreadsTypeOK
    <2>3. Orderly => Threaded(v, directives')
      <3>1. Orderly => Threaded(walk[r], directives')
        BY <1>1, <2>2, ThreadedStays DEF ThreadsInv
      <3> QED BY <3>1
    <2> HIDE DEF v
    <2> QED BY <2>1, <2>2, <2>3, WatchedFields
  <1>5. ThreadsTypeOK'
    BY <1>3, <1>4 DEF ThreadsTypeOK
  <1> QED BY <1>2, <1>4, <1>5 DEF ThreadsInv

LEMMA NothingGrows ==
    ASSUME NEW d
    PROVE  Grown(d, d) /\ Ordered(d, d)
  BY DEF Grown, Ordered

LEMMA ReadMoves ==
    ASSUME ThreadsInv, NEW q \in Readers, NEW w \in Walk, Reads(q, w),
           Orderly => Threaded(w, directives)
    PROVE  ThreadsInv'
  <1>1. UNCHANGED hvars /\ Moves(q, w)
    BY DEF Reads
  <1>2. HandoffInv'
    <2>1. UNCHANGED <<admissions, receipts, acks>>
      BY <1>1 DEF hvars, own
    <2>2. RowsStay /\ TypeOK' /\ Targets' /\ body' \in [Ids -> Bodies]
          /\ \E n \in 0..MaxId : FirstRows(directives', n)
      BY <1>1 DEF hvars, vars, own, RowsStay, ThreadsInv, HandoffInv, TypeOK, Targets,
                  HandoffTypeOK, EarlyReading
    <2>3. TableMoves(directives, directives')
      BY <1>1, NoMove DEF hvars, vars
    <2> QED BY <2>1, <2>2, <2>3, RowsMoveInv DEF ThreadsInv
  <1>3. directives' = directives
    BY <1>1 DEF hvars, vars
  <1> QED BY <1>1, <1>2, <1>3, NothingGrows, ReaderMoves

\* The two sweeps of a reader.
LEMMA SweepMovesReader ==
    ASSUME ThreadsInv, NEW q \in Readers, NEW w \in Walk, Moves(q, w),
           NEW t \in EarlyReading, NEW e,
           e = ReclaimExpired(directives, t) \/ e = ReclaimDeferred(directives, t),
           Commit(e), UNCHANGED <<issued, call, granted, own>>,
           Orderly => Threaded(w, e)
    PROVE  ThreadsInv'
  <1>1. /\ e \in Table /\ KeepsRows(directives, e) /\ TableMoves(directives, e)
        /\ \A i \in Ids : directives[i].status \in Terminal => e[i] = directives[i]
    BY SweepSpares DEF ThreadsInv, HandoffInv
  <1>2. directives' = e
    BY DEF Commit
  <1>3. HandoffInv'
    BY <1>1, SweptInv DEF ThreadsInv
  <1>4. Grown(directives, e)
    BY <1>1, KeptIsGrown
  <1>5. Ordered(directives, e)
    BY <1>1 DEF Ordered, KeepsRows, Fixed
  <1> QED BY <1>2, <1>3, <1>4, <1>5, ReaderMoves

\* A reader outside of any call.
LEMMA RestType == AtRest \in Walk /\ AtRest.at = "idle"
  <1> DEFINE W(B) == [at : Places, op : {"status", "show"}, item : Ids, root : Ids,
                      rows : Seq(Row), stack : Seq(Ids), began : B, closed : BOOLEAN]
             f == Fresh("show", 1)
             g == [f EXCEPT !.at = "idle"]
  <1>1. <<>> \in Seq(Row) /\ <<>> \in Seq(Ids) /\ 0 \in 0..MaxId
    BY DirectivesAssumption
  <1>2. f \in W({Rows})
    BY <1>1, ThreadsAssumption DEF Fresh, Places
  <1> HIDE DEF f
  <1>3. g \in W({Rows}) /\ g.at = "idle"
    BY <1>2 DEF Places
  <1> HIDE DEF g
  <1>4. [g EXCEPT !.began = 0] \in W(0..MaxId) /\ [g EXCEPT !.began = 0].at = "idle"
    BY <1>1, <1>3
  <1>5. AtRest = [g EXCEPT !.began = 0]
    BY DEF AtRest, f, g
  <1> QED BY <1>4, <1>5 DEF Walk

LEMMA ReaderStepInv ==
    ASSUME ThreadsInv, KnownIds, NEW q \in Readers, ReaderStep(q)
    PROVE  ThreadsInv'
  <1> DEFINE w == walk[q]
  <1>0. /\ w \in Walk /\ directives \in Table
        /\ Orderly => Threaded(w, directives)
        /\ \A i \in Ids : directives[i].parent # Null => directives[i].parent \in Ids
    BY DEF ThreadsInv, ThreadsTypeOK, HandoffInv, TypeOK, Table, Directive
  <1>1. ASSUME NEW op \in {"status", "show"}, NEW i \in Ids, Ask(q, op, i)
        PROVE  ThreadsInv'
    <2>1. PICK t \in EarlyReading : Commit(ReclaimExpired(directives, t))
      BY <1>1 DEF Ask
    <2> DEFINE e == ReclaimExpired(directives, t)
               v == Fresh(op, i)
    <2>2. Moves(q, v) /\ UNCHANGED <<issued, call, granted, own>> /\ Exists(directives[i])
      BY <1>1 DEF Ask
    <2>3. Rows \in 0..MaxId
      <3>1. PICK n \in 0..MaxId : FirstRows(directives, n)
        BY DEF ThreadsInv, HandoffInv
      <3> QED BY <3>1, RowsCounted
    <2>4. <<>> \in Seq(Row) /\ <<>> \in Seq(Ids)
      OBVIOUS
    <2>5. v \in Walk /\ v.at = "promote" /\ v.item = i /\ v.root = i
      BY <2>3, <2>4 DEF Fresh, Walk, Places
    <2>6. Exists(e[i])
      BY <2>2, SweepSpares DEF ThreadsInv, HandoffInv, KeepsRows, Fixed
    <2> HIDE DEF v
    <2>7. Threaded(v, e)
      BY <2>5, <2>6 DEF Threaded, HasRows
    <2> QED BY <2>1, <2>2, <2>5, <2>7, SweepMovesReader
  <1>2. ASSUME Sweeps(q)
        PROVE  ThreadsInv'
    <2>1. PICK t \in EarlyReading : Commit(ReclaimDeferred(directives, t))
      BY <1>2 DEF Sweeps
    <2> DEFINE e == ReclaimDeferred(directives, t)
               v == [w EXCEPT !.at = IF w.op = "show" THEN "look" ELSE "climb"]
    <2>2. Moves(q, v) /\ UNCHANGED <<issued, call, granted, own>> /\ w.at = "promote"
      BY <1>2 DEF Sweeps
    <2>3. Orderly => Threaded(w, e)
      <3>1. /\ e \in Table /\ KeepsRows(directives, e)
            /\ \A i \in Ids : directives[i].status \in Terminal => e[i] = directives[i]
        BY SweepSpares DEF ThreadsInv, HandoffInv
      <3>2. Grown(directives, e) /\ Ordered(directives, e)
        BY <3>1, KeptIsGrown DEF Ordered, KeepsRows, Fixed
      <3> HIDE DEF w, e
      <3> QED BY <1>0, <3>1, <3>2, ThreadedStays
    <2>4. v \in Walk
      <3>1. (IF w.op = "show" THEN "look" ELSE "climb") \in Places
        BY DEF Places
      <3> HIDE DEF w
      <3> QED BY <1>0, <3>1, PlaceChanges
    <2>5. Orderly => Threaded(v, e)
      <3> HIDE DEF w, e
      <3> QED BY <1>0, <2>2, <2>3, SweepsThreaded
    <2> QED BY <2>1, <2>2, <2>4, <2>5, SweepMovesReader
  <1>3. CASE Look(q)
    <2> DEFINE r == directives[w.item]
               a == IF ~Exists(r) THEN "idle" ELSE IF r.parent = Null THEN "probe" ELSE "climb"
    <2>1. w.at = "look" /\ Reads(q, [w EXCEPT !.at = a]) /\ a \in {"idle", "probe", "climb"}
      BY <1>3 DEF Look
    <2>2. Orderly => Exists(r)
      BY <1>0, <2>1 DEF Threaded
    <2>3. Orderly => a \in {"probe", "climb"}
      BY <2>2
    <2> HIDE DEF w, a
    <2>4. [w EXCEPT !.at = a] \in Walk
      BY <1>0, <2>1, PlaceChanges DEF Places
    <2>5. Orderly => Threaded([w EXCEPT !.at = a], directives)
      BY <1>0, <2>1, <2>3, LookThreaded
    <2> QED BY <2>1, <2>4, <2>5, ReadMoves
  <1>4. CASE Probe(q)
    <2> DEFINE a == IF ChildrenOf(directives, w.item) = {} THEN "answered" ELSE "climb"
    <2>1. w.at = "probe" /\ Reads(q, [w EXCEPT !.at = a]) /\ a \in {"answered", "climb"}
      BY <1>4 DEF Probe
    <2> HIDE DEF w, a
    <2>2. [w EXCEPT !.at = a] \in Walk
      BY <1>0, <2>1, PlaceChanges DEF Places
    <2>3. Orderly => Threaded([w EXCEPT !.at = a], directives)
      BY <1>0, <2>1, ProbeThreaded
    <2> QED BY <2>1, <2>2, <2>3, ReadMoves
  <1>5. CASE Climb(q)
    <2> DEFINE r == directives[w.root]
    <2>1. w.at = "climb" /\ w.root \in Ids
      BY <1>0, <1>5 DEF Climb, Walk
    <2>2. CASE Exists(r) /\ r.parent # Null
      <3>1. Reads(q, [w EXCEPT !.root = r.parent])
        BY <1>5, <2>2 DEF Climb
      <3>2. r.parent \in Ids /\ Exists(directives[r.parent])
        BY <1>0, <2>1, <2>2 DEF ThreadsInv, ParentsThere
      <3> HIDE DEF w, r
      <3>3. [w EXCEPT !.root = r.parent] \in Walk
        BY <1>0, <3>2 DEF Walk
      <3>4. Orderly => Threaded([w EXCEPT !.root = r.parent], directives)
        BY <1>0, <2>1, <3>2, ClimbThreaded
      <3> QED BY <3>1, <3>3, <3>4, ReadMoves
    <2>3. CASE ~(Exists(r) /\ r.parent # Null)
      <3>1. Reads(q, [w EXCEPT !.at = "root"])
        BY <1>5, <2>3 DEF Climb
      <3>2. Orderly => r.parent = Null
        BY <1>0, <2>1, <2>3 DEF Threaded
      <3>3. [w EXCEPT !.at = "root"] \in Walk
        <4> HIDE DEF w
        <4> QED BY <1>0, PlaceChanges DEF Places
      <3>4. Orderly => Threaded([w EXCEPT !.at = "root"], directives)
        <4> HIDE DEF w
        <4> QED BY <1>0, <2>1, <3>2, RootThreaded DEF r
      <3> QED BY <3>1, <3>3, <3>4, ReadMoves
    <2> QED BY <2>2, <2>3
  <1>6. CASE ReadRoot(q)
    <2> DEFINE r == directives[w.root]
               rows == IF Exists(r) THEN <<[id |-> w.root, status |-> r.status]>> ELSE <<>>
               v == [w EXCEPT !.at = "visit", !.stack = <<w.root>>, !.rows = rows]
    <2>1. w.at = "root" /\ Reads(q, v)
      BY <1>6 DEF ReadRoot
    <2>2. v \in Walk /\ (Threaded(w, directives) => Threaded(v, directives))
      <3> HIDE DEF w
      <3> QED BY <1>0, <2>1, ReadRootThreaded
    <2> HIDE DEF v
    <2> QED BY <1>0, <2>1, <2>2, ReadMoves
  <1>7. CASE Visit(q)
    <2> DEFINE rest == Len(w.stack) - 1
               i == w.stack[Len(w.stack)]
    <2>1. w.at = "visit" /\ w.stack # <<>> /\ w.stack \in Seq(Ids)
      BY <1>0, <1>7 DEF Visit, Walk
    <2>2. rest + 1 = Len(w.stack)
      BY <2>1
    <2>3. PICK n \in 0..MaxId : \E kids \in [1..n -> ChildrenOf(directives, i)] :
            /\ Lists(kids, i)
            /\ Reads(q, [w EXCEPT
                !.rows = @ \o [m \in 1..n |->
                                [id |-> kids[m], status |-> directives[kids[m]].status]],
                !.stack = [m \in 1..(rest + n) |->
                            IF m <= rest THEN @[m] ELSE kids[rest + n + 1 - m]]])
      BY <1>7, <2>2, Zenon DEF Visit
    <2>4. PICK kids \in [1..n -> ChildrenOf(directives, i)] :
            /\ Lists(kids, i)
            /\ Reads(q, [w EXCEPT
                !.rows = @ \o [m \in 1..n |->
                                [id |-> kids[m], status |-> directives[kids[m]].status]],
                !.stack = [m \in 1..(rest + n) |->
                            IF m <= rest THEN @[m] ELSE kids[rest + n + 1 - m]]])
      BY <2>3
    <2> DEFINE v == [w EXCEPT !.rows = MoreRows(w.rows, directives, kids, n),
                              !.stack = RestStack(w.stack, kids, n)]
    <2>5. Reads(q, v)
      BY <2>4, Zenon DEF MoreRows, RestStack
    <2>6. \A j \in ChildrenOf(directives, i) : \E m \in 1..n : kids[m] = j
      BY <2>4 DEF Lists
    <2>7. v \in Walk /\ (Threaded(w, directives) => Threaded(v, directives))
      <3> HIDE DEF w
      <3> QED BY <1>0, <2>1, <2>6, VisitThreaded
    <2> HIDE DEF v
    <2> QED BY <1>0, <2>5, <2>7, ReadMoves
  <1>8. CASE Answer(q)
    <2> DEFINE a == IF w.rows = <<>> THEN "idle" ELSE "answered"
               v == [w EXCEPT !.at = a]
    <2>1. w.at = "visit" /\ w.stack = <<>> /\ Reads(q, v) /\ a \in {"idle", "answered"}
      BY <1>8 DEF Answer
    <2> HIDE DEF w, a
    <2>2. /\ v \in Walk /\ v.at = a /\ v.op = w.op /\ v.item = w.item /\ v.root = w.root
          /\ v.rows = w.rows /\ v.stack = w.stack /\ Seen(v) = Seen(w) /\ Waiting(v) = Waiting(w)
      <3>1. a \in Places
        BY <2>1 DEF Places
      <3> QED BY <1>0, <3>1, PlaceChanges
    <2> HIDE DEF v
    <2>3. Orderly => Threaded(v, directives)
      <3> SUFFICES ASSUME Orderly PROVE Threaded(v, directives)
        OBVIOUS
      <3>1. Threaded(w, directives) /\ HasRows(w)
        BY <1>0, <2>1 DEF HasRows
      <3> QED BY <2>1, <2>2, <3>1 DEF Threaded, HasRows
    <2> QED BY <2>1, <2>2, <2>3, ReadMoves
  <1>9. CASE Leave(q)
    <2>1. Reads(q, AtRest)
      BY <1>9 DEF Leave
    <2>2. AtRest \in Walk /\ AtRest.at = "idle"
      BY RestType
    <2>3. Threaded(AtRest, directives)
      BY <2>2 DEF Threaded, HasRows
    <2> QED BY <2>1, <2>2, <2>3, ReadMoves
  <1> QED BY <1>1, <1>2, <1>3, <1>4, <1>5, <1>6, <1>7, <1>8, <1>9 DEF ReaderStep

LEMMA ThreadsInitInv == ThreadsInit => ThreadsInv
  <1> SUFFICES ASSUME ThreadsInit PROVE ThreadsInv
    OBVIOUS
  <1>1. HandoffInv
    BY HandoffInitInv DEF ThreadsInit
  <1>2. Absent.status = "absent"
    BY DEF Absent, Pending
  <1>3. ParentsThere(directives)
    BY <1>2 DEF ThreadsInit, HandoffInit, Init, ParentsThere, Exists
  <1>4. AtRest \in Walk /\ AtRest.at = "idle"
    BY RestType
  <1>5. ThreadsTypeOK /\ \A q \in Readers : walk[q] = AtRest
    BY <1>4 DEF ThreadsInit, ThreadsTypeOK
  <1>6. Threaded(AtRest, directives)
    BY <1>4 DEF Threaded, HasRows
  <1> QED BY <1>1, <1>3, <1>5, <1>6 DEF ThreadsInv

LEMMA OthersInv ==
    ASSUME ThreadsInv, KnownIds, Others
    PROVE  ThreadsInv'
  <1>1. HandoffInv' /\ Grown(directives, directives')
    BY HandoffInductive, HandoffGrows DEF ThreadsInv, Others
  <1>2. directives \in Table /\ directives' \in Table
    BY <1>1 DEF ThreadsInv, HandoffInv, TypeOK, Table
  <1>3. ParentsThere(directives')
    BY <1>1, <1>2, ParentsStay DEF ThreadsInv
  <1>4. Orderly => Ordered(directives, directives')
    BY DEF Others, KeepsOrder, Ordered
  <1>5. ASSUME NEW q \in Readers
        PROVE  walk'[q] \in Walk /\ (Orderly => Threaded(walk'[q], directives'))
    <2>1. walk'[q] = Watched(walk[q], directives') /\ walk[q] \in Walk
      BY DEF Others, ThreadsInv, ThreadsTypeOK
    <2>2. Orderly => Threaded(walk[q], directives')
      BY <1>1, <1>2, <1>4, <2>1, ThreadedStays DEF ThreadsInv
    <2> QED BY <2>1, <2>2, WatchedFields
  <1>6. DOMAIN walk' = Readers /\ walk' = [q \in Readers |-> walk'[q]]
    BY DEF Others
  <1>7. ThreadsTypeOK'
    BY <1>5, <1>6 DEF ThreadsTypeOK
  <1> QED BY <1>1, <1>3, <1>5, <1>7 DEF ThreadsInv

LEMMA ThreadsInductive == ThreadsInv /\ KnownIds /\ [ThreadsNext]_tvars => ThreadsInv'
  <1> SUFFICES ASSUME ThreadsInv, KnownIds, [ThreadsNext]_tvars PROVE ThreadsInv'
    OBVIOUS
  <1>1. CASE UNCHANGED tvars
    <2>1. UNCHANGED hvars /\ walk' = walk /\ directives' = directives
      BY <1>1 DEF tvars, hvars, vars
    <2>2. HandoffInv'
      BY <2>1, HandoffInductive DEF ThreadsInv
    <2> QED BY <2>1, <2>2 DEF ThreadsInv, ThreadsTypeOK
  <1> QED BY <1>1, OthersInv, ReaderStepInv DEF ThreadsNext

LEMMA ThreadsInvariant == KnownIds => (ThreadsSpec => []ThreadsInv)
  <1> SUFFICES ASSUME KnownIds PROVE ThreadsSpec => []ThreadsInv
    OBVIOUS
  <1>1. ThreadsInv /\ [ThreadsNext]_tvars => ThreadsInv'
    BY ThreadsInductive
  <1> QED BY <1>1, ThreadsInitInv, PTL DEF ThreadsSpec

-----------------------------------------------------------------------------
\* Types: wherever a call is, the ids it holds are ids and its stack and rows
\* are sequences of them (thread_rows, descendants).
THEOREM ThreadTypesHold == KnownIds => (ThreadsSpec => []ThreadsTypeOK)
  <1>1. ThreadsInv => ThreadsTypeOK
    BY DEF ThreadsInv
  <1> QED BY <1>1, ThreadsInvariant, PTL

\* An answer of "done" is true of the whole thread and remains so, however
\* many calls ran between the SELECTs of thread_rows and descendants, if
\* directives are pushed only under open ones and none is reopened.
THEOREM DoneStaysFinished == KnownIds => (ThreadsSpec => []DoneIsFinished)
  <1>1. ThreadsInv => DoneIsFinished
    <2> SUFFICES ASSUME ThreadsInv, Orderly, NEW q \in Readers, SaysDone(walk[q])
                 PROVE  \E S \in SUBSET Ids :
                            /\ walk[q].root \in S
                            /\ directives[walk[q].root].parent = Null
                            /\ AllFinished(S, directives)
      BY DEF DoneIsFinished
    <2> DEFINE w == walk[q]
    <2>1. w \in Walk /\ Threaded(w, directives)
      BY DEF ThreadsInv, ThreadsTypeOK
    <2> HIDE DEF w
    <2>2. HasRows(w) /\ w.stack = <<>> /\ \A n \in DOMAIN w.rows : w.rows[n].status \in Terminal
      BY <2>1 DEF SaysDone, Open, HasRows, Threaded, w
    <2>3. w.root \in Seen(w) /\ directives[w.root].parent = Null
      BY <2>1, <2>2 DEF Threaded
    <2>4. Waiting(w) = {}
      BY <2>2 DEF Waiting
    <2>5. \A n \in DOMAIN w.rows : /\ directives[w.rows[n].id].status \in Terminal
                                   /\ ChildrenOf(directives, w.rows[n].id) \subseteq Seen(w)
      BY <2>1, <2>2, <2>4 DEF Threaded
    <2>6. Seen(w) \in SUBSET Ids
      <3>1. w.rows \in Seq(Row)
        BY <2>1 DEF Walk
      <3>2. \A n \in DOMAIN w.rows : w.rows[n] \in Row
        BY <3>1
      <3> QED BY <3>2 DEF Seen, Row
    <2>7. AllFinished(Seen(w), directives)
      BY <2>5 DEF AllFinished, Seen
    <2> QED BY <2>3, <2>6, <2>7 DEF w
  <1> QED BY <1>1, ThreadsInvariant, PTL

-----------------------------------------------------------------------------
(***************************************************************************)
(* Why an answer overlooks nothing, in whatever order and at whatever      *)
(* moments the rows were read.  Thorough(w, d): the reader climbs from the *)
(* item through the rows above it; on the way down it holds every row      *)
(* once, the parent of each is a row that it has visited, and of each row  *)
(* that it has visited it holds all children that were there from the      *)
(* start.                                                                  *)
(***************************************************************************)
\* Root is above item: a set with root and the children of its members has item.
Above(d, b, root, item) ==
    \A T \in SUBSET Ids :
        root \in T /\ (\A i \in T : ChildrenOf(d, i) \cap 1..b \subseteq T) => item \in T

Gathers(w) == w.at = "visit" \/ (w.at = "answered" /\ w.rows # <<>>)

Gathered(w, d) ==
    /\ d[w.root].parent = Null
    /\ w.rows # <<>> /\ w.rows[1].id = w.root
    /\ \A m, n \in DOMAIN w.rows : w.rows[m].id = w.rows[n].id => m = n
    /\ \A m, n \in DOMAIN w.stack : w.stack[m] = w.stack[n] => m = n
    /\ Waiting(w) \subseteq Seen(w)
    /\ \A i \in Seen(w) :
        Exists(d[i]) /\ (i # w.root => d[i].parent \in Seen(w) \ Waiting(w))
    /\ \A i \in Seen(w) \ Waiting(w) : ChildrenOf(d, i) \cap 1..w.began \subseteq Seen(w)

Thorough(w, d) ==
    /\ w.at # "idle" =>
        /\ w.item \in 1..w.began /\ w.root \in 1..w.began
        /\ \A i \in 1..w.began : Exists(d[i])
        /\ Above(d, w.began, w.root, w.item)
    /\ w.at \in {"promote", "look", "probe", "climb", "root"} =>
        w.rows = <<>> /\ w.stack = <<>>
    /\ w.at = "root" => d[w.root].parent = Null
    /\ Gathers(w) => Gathered(w, d)
    /\ w.at = "answered" => w.stack = <<>>
    /\ w.at = "answered" /\ w.rows = <<>> => ChildrenOf(d, w.item) \cap 1..w.began = {}

LEMMA WalkIds ==
    ASSUME NEW w \in Walk
    PROVE  /\ w.item \in Ids /\ w.root \in Ids /\ w.began \in 0..MaxId
           /\ 1..w.began \subseteq Ids
           /\ Seen(w) \subseteq Ids /\ Waiting(w) \subseteq Ids
           /\ w.rows \in Seq(Row) /\ w.stack \in Seq(Ids)
  <1>1. /\ w.rows \in Seq(Row) /\ w.stack \in Seq(Ids)
        /\ w.item \in Ids /\ w.root \in Ids /\ w.began \in 0..MaxId
    BY DEF Walk
  <1>2. \A n \in DOMAIN w.rows : w.rows[n] \in Row
    BY <1>1
  <1>3. \A n \in DOMAIN w.stack : w.stack[n] \in Ids
    BY <1>1
  <1>4. 1..w.began \subseteq Ids
    BY <1>1, DirectivesAssumption DEF Ids
  <1>5. Seen(w) \subseteq Ids
    BY <1>2 DEF Seen, Row
  <1>6. Waiting(w) \subseteq Ids
    BY <1>3 DEF Waiting
  <1> QED BY <1>1, <1>4, <1>5, <1>6

\* Of the directives there were at the start, no others become children.
LEMMA OldChildren ==
    ASSUME NEW d, NEW e, Grown(d, e), NEW b, 1..b \subseteq Ids, \A i \in 1..b : Exists(d[i]),
           NEW i \in Ids
    PROVE  /\ ChildrenOf(e, i) \cap 1..b \subseteq ChildrenOf(d, i)
           /\ ChildrenOf(d, i) \subseteq ChildrenOf(e, i)
  BY DEF Grown, ChildrenOf

LEMMA ThoroughStays ==
    ASSUME NEW w \in Walk, NEW d, NEW e, Grown(d, e), Thorough(w, d)
    PROVE  Thorough(w, e)
  <1>1. /\ w.item \in Ids /\ w.root \in Ids /\ 1..w.began \subseteq Ids
        /\ Seen(w) \subseteq Ids /\ Waiting(w) \subseteq Ids
    BY WalkIds
  <1>2. \A i \in Ids : Exists(d[i]) => Exists(e[i]) /\ e[i].parent = d[i].parent
    BY DEF Grown
  <1>3. CASE w.at = "idle"
    BY <1>3 DEF Thorough, Gathers
  <1>4. CASE w.at # "idle"
    <2>1. /\ w.item \in 1..w.began /\ w.root \in 1..w.began
          /\ \A i \in 1..w.began : Exists(d[i])
      BY <1>4 DEF Thorough
    <2>2. Above(d, w.began, w.root, w.item)
      BY <1>4 DEF Thorough
    <2>3. \A i \in 1..w.began : Exists(e[i]) /\ e[i].parent = d[i].parent
      BY <1>1, <1>2, <2>1
    <2>4. \A i \in Ids : /\ ChildrenOf(e, i) \cap 1..w.began \subseteq ChildrenOf(d, i)
                         /\ ChildrenOf(d, i) \subseteq ChildrenOf(e, i)
      BY <1>1, <2>1, OldChildren
    <2>5. Above(e, w.began, w.root, w.item)
      BY <2>2, <2>4 DEF Above
    <2>6. ASSUME Gathers(w)
          PROVE  Gathered(w, e)
      <3>1. Gathered(w, d)
        BY <2>6 DEF Thorough
      <3>2. e[w.root].parent = Null
        BY <2>1, <2>3, <3>1 DEF Gathered
      <3>3. \A i \in Seen(w) :
                Exists(e[i]) /\ (i # w.root => e[i].parent \in Seen(w) \ Waiting(w))
        BY <1>1, <1>2, <3>1 DEF Gathered
      <3>4. \A i \in Seen(w) \ Waiting(w) : ChildrenOf(e, i) \cap 1..w.began \subseteq Seen(w)
        BY <1>1, <2>4, <3>1 DEF Gathered
      <3> QED BY <3>1, <3>2, <3>3, <3>4 DEF Gathered
    <2>7. w.at = "root" => e[w.root].parent = Null
      BY <2>1, <2>3 DEF Thorough
    <2>8. w.at = "answered" /\ w.rows = <<>> => ChildrenOf(e, w.item) \cap 1..w.began = {}
      BY <1>1, <2>4 DEF Thorough
    <2>9. /\ w.at \in {"promote", "look", "probe", "climb", "root"} =>
                w.rows = <<>> /\ w.stack = <<>>
          /\ w.at = "answered" => w.stack = <<>>
      BY DEF Thorough
    <2> QED BY <2>1, <2>3, <2>5, <2>6, <2>7, <2>8, <2>9 DEF Thorough
  <1> QED BY <1>3, <1>4

LEMMA WatchedThorough ==
    ASSUME NEW w \in Walk, NEW d, NEW e, Thorough(w, e)
    PROVE  Thorough(Watched(w, d), e)
  <1> DEFINE v == Watched(w, d)
  <1>1. v.at = w.at /\ v.item = w.item /\ v.root = w.root
        /\ v.rows = w.rows /\ v.stack = w.stack /\ v.began = w.began
    BY DEF Watched, Walk
  <1> HIDE DEF v
  <1>2. Seen(v) = Seen(w) /\ Waiting(v) = Waiting(w) /\ (Gathers(v) <=> Gathers(w))
    BY <1>1 DEF Seen, Waiting, Gathers
  <1>3. Gathered(w, e) => Gathered(v, e)
    BY <1>1, <1>2 DEF Gathered
  <1>4. Thorough(v, e)
    BY <1>1, <1>2, <1>3 DEF Thorough
  <1> QED BY <1>4 DEF v

\* Before it reads the root, a reader that only changes its place.
LEMMA PlaceThorough ==
    ASSUME NEW w \in Walk, NEW d, Thorough(w, d),
           w.at \in {"promote", "look", "probe", "climb"},
           NEW a \in {"look", "probe", "climb", "root", "answered"},
           a = "root" => d[w.root].parent = Null,
           a = "answered" => ChildrenOf(d, w.item) = {}
    PROVE  Thorough([w EXCEPT !.at = a], d)
  <1> DEFINE v == [w EXCEPT !.at = a]
  <1>1. v.at = a /\ v.item = w.item /\ v.root = w.root
        /\ v.rows = w.rows /\ v.stack = w.stack /\ v.began = w.began
    BY DEF Walk
  <1>2. /\ w.at # "idle" /\ w.rows = <<>> /\ w.stack = <<>>
        /\ w.item \in 1..w.began /\ w.root \in 1..w.began
        /\ \A i \in 1..w.began : Exists(d[i])
        /\ Above(d, w.began, w.root, w.item)
    BY DEF Thorough
  <1> HIDE DEF v
  <1>3. ~Gathers(v)
    BY <1>1, <1>2 DEF Gathers
  <1>4. Thorough(v, d)
    BY <1>1, <1>2, <1>3 DEF Thorough
  <1> QED BY <1>4 DEF v

LEMMA AskThorough ==
    ASSUME ThreadsInv, NEW op, NEW i \in Ids, Exists(directives[i])
    PROVE  Thorough(Fresh(op, i), directives)
  <1> DEFINE v == Fresh(op, i)
  <1>1. PICK n \in 0..MaxId : FirstRows(directives, n)
    BY DEF ThreadsInv, HandoffInv
  <1>2. Rows = n
    BY <1>1, RowsCounted
  <1>3. /\ v.at = "promote" /\ v.item = i /\ v.root = i /\ v.rows = <<>> /\ v.stack = <<>>
        /\ v.began = n
    BY <1>2 DEF Fresh
  <1>4. i \in 1..n /\ \A j \in 1..n : Exists(directives[j])
    BY <1>1, DirectivesAssumption DEF FirstRows, Ids
  <1>5. Above(directives, n, i, i)
    BY DEF Above
  <1> HIDE DEF v
  <1>6. ~Gathers(v)
    BY <1>3 DEF Gathers
  <1>7. Thorough(v, directives)
    BY <1>3, <1>4, <1>5, <1>6 DEF Thorough
  <1> QED BY <1>7 DEF v

\* One row up: the row left behind is a child of the one arrived at.
LEMMA ClimbThorough ==
    ASSUME NEW w \in Walk, NEW d, Thorough(w, d), w.at = "climb",
           NEW p \in Ids, p < w.root, d[w.root].parent = p
    PROVE  Thorough([w EXCEPT !.root = p], d)
  <1> DEFINE v == [w EXCEPT !.root = p]
  <1>1. v.at = "climb" /\ v.item = w.item /\ v.root = p
        /\ v.rows = w.rows /\ v.stack = w.stack /\ v.began = w.began
    BY DEF Walk
  <1>2. /\ w.rows = <<>> /\ w.stack = <<>>
        /\ w.item \in 1..w.began /\ w.root \in 1..w.began
        /\ \A i \in 1..w.began : Exists(d[i])
        /\ Above(d, w.began, w.root, w.item)
    BY DEF Thorough
  <1>3. w.began \in Nat /\ w.root \in Ids
    BY WalkIds, DirectivesAssumption
  <1> HIDE DEF v
  <1>4. p \in 1..w.began
    BY <1>2, <1>3 DEF Ids
  <1>5. w.root \in ChildrenOf(d, p) \cap 1..w.began
    BY <1>2, <1>3 DEF ChildrenOf
  <1>6. Above(d, w.began, p, w.item)
    BY <1>2, <1>5 DEF Above
  <1>7. ~Gathers(v)
    BY <1>1 DEF Gathers
  <1>8. Thorough(v, d)
    BY <1>1, <1>2, <1>4, <1>6, <1>7 DEF Thorough
  <1> QED BY <1>8 DEF v

LEMMA ReadRootThorough ==
    ASSUME NEW w \in Walk, NEW d, Thorough(w, d), w.at = "root",
           NEW s
    PROVE  Thorough([w EXCEPT !.at = "visit", !.stack = <<w.root>>,
                              !.rows = <<[id |-> w.root, status |-> s]>>], d)
  <1> DEFINE rows == <<[id |-> w.root, status |-> s]>>
             v == [w EXCEPT !.at = "visit", !.stack = <<w.root>>, !.rows = rows]
  <1>1. v.at = "visit" /\ v.item = w.item /\ v.root = w.root
        /\ v.rows = rows /\ v.stack = <<w.root>> /\ v.began = w.began
    BY DEF Walk
  <1>2. rows # <<>> /\ DOMAIN rows = {1} /\ rows[1].id = w.root
    OBVIOUS
  <1>3. /\ w.item \in 1..w.began /\ w.root \in 1..w.began
        /\ \A i \in 1..w.began : Exists(d[i])
        /\ Above(d, w.began, w.root, w.item)
        /\ d[w.root].parent = Null
    BY DEF Thorough
  <1> HIDE DEF v, rows
  <1>4. Seen(v) = {w.root} /\ Waiting(v) = {w.root}
    BY <1>1, <1>2 DEF Seen, Waiting
  <1>5. Exists(d[w.root])
    BY <1>3
  <1>6. \A m, n \in DOMAIN v.stack : v.stack[m] = v.stack[n] => m = n
    BY <1>1
  <1>7. Gathered(v, d)
    BY <1>1, <1>2, <1>3, <1>4, <1>5, <1>6 DEF Gathered
  <1>8. Thorough(v, d)
    BY <1>1, <1>3, <1>7 DEF Thorough
  <1> QED BY <1>8 DEF v, rows

\* SELECT ... ORDER BY returns a row once.
LEMMA ListsDistinct ==
    ASSUME NEW i, NEW n \in 0..MaxId, NEW kids \in [1..n -> ChildrenOf(directives, i)],
           Lists(kids, i), directives \in Table
    PROVE  \A a, b \in 1..n : kids[a] = kids[b] => a = b
  <1> SUFFICES ASSUME NEW a \in 1..n, NEW b \in 1..n, kids[a] = kids[b], a < b
               PROVE  FALSE
    BY DirectivesAssumption
  <1>1. Before(directives, kids[a], kids[b])
    BY DEF Lists
  <1>2. kids[a] \in Ids
    BY DEF ChildrenOf
  <1>3. directives[kids[a]].priority \in Nat
    BY <1>2, DirectivesAssumption DEF Table, Directive
  <1> QED BY <1>1, <1>2, <1>3 DEF Before, Ids

LEMMA VisitThorough ==
    ASSUME NEW w \in Walk, w.at = "visit", w.stack # <<>>, NEW d \in Table, Thorough(w, d),
           NEW n \in 0..MaxId, NEW kids \in [1..n -> ChildrenOf(d, w.stack[Len(w.stack)])],
           \A a, b \in 1..n : kids[a] = kids[b] => a = b,
           \A j \in ChildrenOf(d, w.stack[Len(w.stack)]) : \E m \in 1..n : kids[m] = j
    PROVE  Thorough([w EXCEPT !.rows = MoreRows(w.rows, d, kids, n),
                              !.stack = RestStack(w.stack, kids, n)], d)
  <1> DEFINE rows2 == MoreRows(w.rows, d, kids, n)
             stack2 == RestStack(w.stack, kids, n)
             v == [w EXCEPT !.rows = rows2, !.stack = stack2]
             i == w.stack[Len(w.stack)]
             rest == Len(w.stack) - 1
             size == Len(w.rows)
  <1>1. /\ w.rows \in Seq(Row) /\ w.stack \in Seq(Ids)
        /\ Seen(w) \subseteq Ids /\ Waiting(w) \subseteq Ids
    BY WalkIds
  <1>2. Placed(w.rows, w.stack, d, n, kids, rows2, stack2)
    BY <1>1, VisitPlaces
  <1> HIDE DEF rows2, stack2
  <1>3. /\ n \in Nat /\ rest \in Nat /\ size \in Nat
        /\ Len(w.stack) = rest + 1 /\ DOMAIN w.stack = 1..(rest + 1)
        /\ DOMAIN w.rows = 1..size
    BY <1>1, DirectivesAssumption
  <1>4. /\ DOMAIN rows2 = 1..(size + n)
        /\ \A a \in 1..size : rows2[a] = w.rows[a]
        /\ \A m \in 1..n : rows2[size + m].id = kids[m]
        /\ DOMAIN stack2 = 1..(rest + n)
        /\ \A a \in 1..rest : stack2[a] = w.stack[a]
        /\ \A m \in 1..n : stack2[rest + n + 1 - m] = kids[m]
    BY <1>2 DEF Placed
  <1>5. /\ v.at = "visit" /\ v.item = w.item /\ v.root = w.root
        /\ v.rows = rows2 /\ v.stack = stack2 /\ v.began = w.began
    BY DEF Walk
  <1> HIDE DEF v
  <1>6. Gathered(w, d)
    BY DEF Thorough, Gathers
  <1>7. i \in Waiting(w) /\ i \in Seen(w) /\ i = w.stack[rest + 1]
    BY <1>3, <1>6 DEF Waiting, Gathered
  <1>8. ASSUME NEW m \in 1..n
        PROVE  /\ kids[m] \in Ids /\ Exists(d[kids[m]]) /\ d[kids[m]].parent = i
               /\ kids[m] \notin Seen(w) /\ kids[m] # i /\ kids[m] \notin Waiting(w)
    <2>1. kids[m] \in Ids /\ Exists(d[kids[m]]) /\ d[kids[m]].parent = i
      BY DEF ChildrenOf
    <2>2. i # Null
      BY <1>1, <1>7 DEF Ids, Null
    <2>3. kids[m] \notin Seen(w)
      BY <1>6, <1>7, <2>1, <2>2 DEF Gathered
    <2> QED BY <1>6, <1>7, <2>1, <2>3 DEF Gathered
  <1> HIDE DEF i, rest, size
  \* What the lists hold afterwards.
  <1>9. /\ \A a \in 1..size : a \in DOMAIN rows2 /\ rows2[a].id \in Seen(w)
        /\ \A a \in DOMAIN rows2 \ (1..size) :
            a - size \in 1..n /\ rows2[a].id = kids[a - size]
    <2>1. ASSUME NEW a \in 1..size
          PROVE  a \in DOMAIN rows2 /\ rows2[a].id \in Seen(w)
      <3>1. w.rows[a].id \in Seen(w)
        BY <1>3 DEF Seen
      <3> QED BY <1>3, <1>4, <3>1
    <2>2. ASSUME NEW a \in DOMAIN rows2 \ (1..size)
          PROVE  a - size \in 1..n /\ rows2[a].id = kids[a - size]
      <3>1. a \in 1..(size + n) /\ a \notin 1..size
        BY <1>4
      <3>2. a - size \in 1..n /\ size + (a - size) = a
        BY <1>3, <3>1
      <3> QED BY <1>4, <3>2
    <2> QED BY <2>1, <2>2
  <1>10. /\ \A a \in 1..rest : a \in DOMAIN stack2 /\ stack2[a] \in Waiting(w) \ {i}
         /\ \A a \in DOMAIN stack2 \ (1..rest) :
            rest + n + 1 - a \in 1..n /\ stack2[a] = kids[rest + n + 1 - a]
    <2>1. ASSUME NEW a \in 1..rest
          PROVE  a \in DOMAIN stack2 /\ stack2[a] \in Waiting(w) \ {i}
      <3>1. a \in DOMAIN stack2 /\ a \in DOMAIN w.stack /\ rest + 1 \in DOMAIN w.stack
            /\ a # rest + 1
        BY <1>3, <1>4
      <3>2. w.stack[a] # i
        BY <1>6, <1>7, <3>1 DEF Gathered
      <3> QED BY <1>4, <3>1, <3>2 DEF Waiting
    <2>2. ASSUME NEW a \in DOMAIN stack2 \ (1..rest)
          PROVE  rest + n + 1 - a \in 1..n /\ stack2[a] = kids[rest + n + 1 - a]
      <3>1. a \in 1..(rest + n) /\ a \notin 1..rest
        BY <1>4
      <3>2. rest + n + 1 - a \in 1..n /\ rest + n + 1 - (rest + n + 1 - a) = a
        BY <1>3, <3>1
      <3> QED BY <1>4, <3>2
    <2> QED BY <2>1, <2>2
  <1>11. /\ Seen(v) = Seen(w) \cup {kids[m] : m \in 1..n}
         /\ Waiting(v) = (Waiting(w) \ {i}) \cup {kids[m] : m \in 1..n}
    <2>1. Seen(v) \subseteq Seen(w) \cup {kids[m] : m \in 1..n}
      BY <1>5, <1>9 DEF Seen
    <2>2. Seen(w) \subseteq Seen(v)
      <3>1. \A a \in DOMAIN w.rows : a \in DOMAIN v.rows /\ v.rows[a].id = w.rows[a].id
        BY <1>3, <1>4, <1>5, <1>9
      <3> QED BY <3>1 DEF Seen
    <2>3. \A m \in 1..n : kids[m] \in Seen(v)
      <3>1. \A m \in 1..n : size + m \in DOMAIN v.rows /\ v.rows[size + m].id = kids[m]
        BY <1>3, <1>4, <1>5
      <3> QED BY <3>1 DEF Seen
    <2>4. Waiting(v) \subseteq (Waiting(w) \ {i}) \cup {kids[m] : m \in 1..n}
      BY <1>5, <1>10 DEF Waiting
    <2>5. Waiting(w) \ {i} \subseteq Waiting(v)
      <3>1. \A a \in DOMAIN w.stack : w.stack[a] # i => a \in 1..rest
        BY <1>3, <1>7
      <3>2. \A a \in 1..rest : a \in DOMAIN v.stack /\ v.stack[a] = w.stack[a]
        BY <1>4, <1>5, <1>10
      <3> QED BY <3>1, <3>2 DEF Waiting
    <2>6. \A m \in 1..n : kids[m] \in Waiting(v)
      <3>1. \A m \in 1..n : /\ rest + n + 1 - m \in DOMAIN v.stack
                            /\ v.stack[rest + n + 1 - m] = kids[m]
        BY <1>3, <1>4, <1>5
      <3> QED BY <3>1 DEF Waiting
    <2> QED BY <2>1, <2>2, <2>3, <2>4, <2>5, <2>6
  <1>12. rows2 # <<>> /\ rows2[1].id = w.root
    <2>1. size # 0 /\ w.rows[1].id = w.root
      BY <1>1, <1>6 DEF Gathered, size
    <2>2. 1 \in 1..size
      BY <1>3, <2>1
    <2>3. 1 \in DOMAIN rows2 /\ rows2[1] = w.rows[1]
      BY <1>4, <1>9, <2>2
    <2> QED BY <2>1, <2>3
  <1>13. ASSUME NEW a \in DOMAIN rows2, NEW b \in DOMAIN rows2, rows2[a].id = rows2[b].id
         PROVE  a = b
    <2>1. CASE a \in 1..size /\ b \in 1..size
      <3>1. w.rows[a].id = w.rows[b].id
        BY <1>4, <1>13, <2>1
      <3> QED BY <1>3, <1>6, <2>1, <3>1 DEF Gathered
    <2>2. CASE a \in 1..size /\ b \notin 1..size
      BY <1>8, <1>9, <1>13, <2>2
    <2>3. CASE a \notin 1..size /\ b \in 1..size
      BY <1>8, <1>9, <1>13, <2>3
    <2>4. CASE a \notin 1..size /\ b \notin 1..size
      <3>1. a - size \in 1..n /\ b - size \in 1..n /\ kids[a - size] = kids[b - size]
        BY <1>9, <1>13, <2>4
      <3>2. a - size = b - size
        BY <3>1
      <3> QED BY <1>3, <1>4, <3>2
    <2> QED BY <2>1, <2>2, <2>3, <2>4
  <1>14. ASSUME NEW a \in DOMAIN stack2, NEW b \in DOMAIN stack2, stack2[a] = stack2[b]
         PROVE  a = b
    <2>1. CASE a \in 1..rest /\ b \in 1..rest
      <3>1. w.stack[a] = w.stack[b] /\ a \in DOMAIN w.stack /\ b \in DOMAIN w.stack
        BY <1>3, <1>4, <1>14, <2>1
      <3> QED BY <1>6, <3>1 DEF Gathered
    <2>2. CASE a \in 1..rest /\ b \notin 1..rest
      BY <1>8, <1>10, <1>14, <2>2
    <2>3. CASE a \notin 1..rest /\ b \in 1..rest
      BY <1>8, <1>10, <1>14, <2>3
    <2>4. CASE a \notin 1..rest /\ b \notin 1..rest
      <3>1. /\ rest + n + 1 - a \in 1..n /\ rest + n + 1 - b \in 1..n
            /\ kids[rest + n + 1 - a] = kids[rest + n + 1 - b]
        BY <1>10, <1>14, <2>4
      <3>2. rest + n + 1 - a = rest + n + 1 - b
        BY <3>1
      <3> QED BY <1>3, <1>4, <3>2
    <2> QED BY <2>1, <2>2, <2>3, <2>4
  <1>15. Waiting(v) \subseteq Seen(v)
    BY <1>6, <1>11 DEF Gathered
  <1>16. ASSUME NEW j \in Seen(v)
         PROVE  /\ Exists(d[j])
                /\ j # w.root => d[j].parent \in Seen(v) \ Waiting(v)
    <2>1. CASE j \in Seen(w)
      <3>1. Exists(d[j]) /\ (j # w.root => d[j].parent \in Seen(w) \ Waiting(w))
        BY <1>6, <2>1 DEF Gathered
      <3> QED BY <1>8, <1>11, <3>1
    <2>2. CASE j \notin Seen(w)
      <3>1. PICK m \in 1..n : j = kids[m]
        BY <1>11, <2>2
      <3>2. i \in Seen(v) \ Waiting(v)
        BY <1>7, <1>8, <1>11
      <3> QED BY <1>8, <3>1, <3>2
    <2> QED BY <2>1, <2>2
  <1>17. ASSUME NEW j \in Seen(v) \ Waiting(v)
         PROVE  ChildrenOf(d, j) \cap 1..w.began \subseteq Seen(v)
    <2>1. CASE j = i
      <3>1. \A c \in ChildrenOf(d, i) : \E m \in 1..n : kids[m] = c
        BY DEF i
      <3> QED BY <1>11, <2>1, <3>1
    <2>2. CASE j # i
      <3>1. j \in Seen(w) \ Waiting(w)
        BY <1>11, <2>2
      <3> QED BY <1>6, <1>11, <3>1 DEF Gathered
    <2> QED BY <2>1, <2>2
  <1>18. Gathered(v, d)
    BY <1>5, <1>6, <1>12, <1>13, <1>14, <1>15, <1>16, <1>17 DEF Gathered
  <1>19. Thorough(v, d)
    <2>1. /\ w.item \in 1..w.began /\ w.root \in 1..w.began
          /\ \A j \in 1..w.began : Exists(d[j])
          /\ Above(d, w.began, w.root, w.item)
      BY DEF Thorough
    <2> QED BY <1>5, <1>18, <2>1 DEF Thorough
  <1> QED BY <1>19 DEF v, rows2, stack2

LEMMA AnswerThorough ==
    ASSUME NEW w \in Walk, w.at = "visit", w.stack = <<>>, NEW d, Thorough(w, d)
    PROVE  w.rows # <<>> /\ Thorough([w EXCEPT !.at = "answered"], d)
  <1> DEFINE v == [w EXCEPT !.at = "answered"]
  <1>1. /\ v.at = "answered" /\ v.item = w.item /\ v.root = w.root
        /\ v.rows = w.rows /\ v.stack = w.stack /\ v.began = w.began
    BY DEF Walk
  <1>2. Gathered(w, d)
    BY DEF Thorough, Gathers
  <1>3. w.rows # <<>>
    BY <1>2 DEF Gathered
  <1> HIDE DEF v
  <1>4. Seen(v) = Seen(w) /\ Waiting(v) = Waiting(w)
    BY <1>1 DEF Seen, Waiting
  <1>5. Gathered(v, d)
    BY <1>1, <1>2, <1>4 DEF Gathered
  <1>6. /\ w.item \in 1..w.began /\ w.root \in 1..w.began
        /\ \A i \in 1..w.began : Exists(d[i])
        /\ Above(d, w.began, w.root, w.item)
    BY DEF Thorough
  <1>7. Thorough(v, d)
    BY <1>1, <1>3, <1>5, <1>6 DEF Thorough
  <1> QED BY <1>3, <1>7 DEF v

-----------------------------------------------------------------------------
(***************************************************************************)
(* The invariant of a reader that overlooks nothing.                       *)
(***************************************************************************)
ThoroughInv ==
    /\ ThreadsInv
    /\ ParentsBelow(directives)
    /\ \A q \in Readers : Thorough(walk[q], directives)

\* Every reader but q goes on as it was; q is now at w.
LEMMA ThoroughMoves ==
    ASSUME ThoroughInv, ThreadsInv', Grown(directives, directives'),
           NEW q \in Readers, NEW w \in Walk, Thorough(w, directives'), Moves(q, w)
    PROVE  ThoroughInv'
  <1>1. ParentsBelow(directives')
    <2>1. PICK n \in 0..MaxId : FirstRows(directives, n)
      BY DEF ThoroughInv, ThreadsInv, HandoffInv
    <2>2. directives' \in Table
      BY DEF ThreadsInv, HandoffInv, TypeOK, Table
    <2> QED BY <2>1, <2>2, ParentsStayBelow DEF ThoroughInv
  <1>2. ASSUME NEW r \in Readers
        PROVE  Thorough(walk'[r], directives')
    <2> DEFINE v == IF r = q THEN w ELSE walk[r]
    <2>1. walk'[r] = Watched(v, directives')
      BY DEF Moves
    <2>2. walk[r] \in Walk /\ v \in Walk
      BY DEF ThoroughInv, ThreadsInv, ThreadsTypeOK
    <2>3. Thorough(walk[r], directives')
      BY <2>2, ThoroughStays DEF ThoroughInv
    <2>4. Thorough(v, directives')
      BY <2>3
    <2> HIDE DEF v
    <2> QED BY <2>1, <2>2, <2>4, WatchedThorough
  <1> QED BY <1>1, <1>2 DEF ThoroughInv

LEMMA ThoroughReads ==
    ASSUME ThoroughInv, ThreadsInv', NEW q \in Readers, NEW w \in Walk,
           Thorough(w, directives), Reads(q, w)
    PROVE  ThoroughInv'
  <1>1. directives' = directives /\ Moves(q, w)
    BY DEF Reads, hvars, vars
  <1> QED BY <1>1, NothingGrows, ThoroughMoves

LEMMA OthersThorough ==
    ASSUME ThoroughInv, ThreadsInv', Others
    PROVE  ThoroughInv'
  <1>1. Grown(directives, directives')
    BY HandoffGrows DEF ThoroughInv, ThreadsInv, Others
  <1>2. ParentsBelow(directives')
    <2>1. PICK n \in 0..MaxId : FirstRows(directives, n)
      BY DEF ThoroughInv, ThreadsInv, HandoffInv
    <2>2. directives' \in Table
      BY DEF ThreadsInv, HandoffInv, TypeOK, Table
    <2> QED BY <1>1, <2>1, <2>2, ParentsStayBelow DEF ThoroughInv
  <1>3. ASSUME NEW q \in Readers
        PROVE  Thorough(walk'[q], directives')
    <2>1. walk'[q] = Watched(walk[q], directives') /\ walk[q] \in Walk
      BY DEF Others, ThoroughInv, ThreadsInv, ThreadsTypeOK
    <2>2. Thorough(walk[q], directives')
      BY <1>1, <2>1, ThoroughStays DEF ThoroughInv
    <2> QED BY <2>1, <2>2, WatchedThorough
  <1> QED BY <1>2, <1>3 DEF ThoroughInv

\* The two transactions before the first SELECT.
LEMMA AskMovesThorough ==
    ASSUME ThoroughInv, ThreadsInv', KnownIds, NEW q \in Readers,
           NEW op \in {"status", "show"}, NEW i \in Ids, Ask(q, op, i)
    PROVE  ThoroughInv'
  <1>1. PICK t \in EarlyReading : Commit(ReclaimExpired(directives, t))
    BY DEF Ask
  <1>2. Moves(q, Fresh(op, i)) /\ Exists(directives[i])
    BY DEF Ask
  <1>3. Grown(directives, directives')
    <2>1. KeepsRows(directives, ReclaimExpired(directives, t))
      BY SweepSpares DEF ThoroughInv, ThreadsInv, HandoffInv
    <2> QED BY <1>1, <2>1, KeptIsGrown DEF Commit
  <1>4. Fresh(op, i) \in Walk
    <2>1. PICK n \in 0..MaxId : FirstRows(directives, n)
      BY DEF ThoroughInv, ThreadsInv, HandoffInv
    <2>2. Rows \in 0..MaxId /\ <<>> \in Seq(Row) /\ <<>> \in Seq(Ids)
      BY <2>1, RowsCounted
    <2> QED BY <2>2 DEF Fresh, Walk, Places
  <1>5. Thorough(Fresh(op, i), directives)
    BY <1>2, AskThorough DEF ThoroughInv
  <1>6. Thorough(Fresh(op, i), directives')
    BY <1>3, <1>4, <1>5, ThoroughStays
  <1> QED BY <1>2, <1>3, <1>4, <1>6, ThoroughMoves

LEMMA SweepsMoveThorough ==
    ASSUME ThoroughInv, ThreadsInv', NEW q \in Readers, Sweeps(q)
    PROVE  ThoroughInv'
  <1> DEFINE w == walk[q]
             a == IF w.op = "show" THEN "look" ELSE "climb"
  <1>1. PICK t \in EarlyReading : Commit(ReclaimDeferred(directives, t))
    BY DEF Sweeps
  <1>2. w.at = "promote" /\ Moves(q, [w EXCEPT !.at = a]) /\ a \in {"look", "climb"}
    BY DEF Sweeps
  <1>3. Grown(directives, directives')
    <2>1. KeepsRows(directives, ReclaimDeferred(directives, t))
      BY SweepSpares DEF ThoroughInv, ThreadsInv, HandoffInv
    <2> QED BY <1>1, <2>1, KeptIsGrown DEF Commit
  <1>4. w \in Walk /\ Thorough(w, directives)
    BY DEF ThoroughInv, ThreadsInv, ThreadsTypeOK
  <1> HIDE DEF w, a
  <1>5. Thorough(w, directives')
    BY <1>3, <1>4, ThoroughStays
  <1>6. [w EXCEPT !.at = a] \in Walk /\ Thorough([w EXCEPT !.at = a], directives')
    BY <1>2, <1>4, <1>5, PlaceChanges, PlaceThorough DEF Places
  <1> QED BY <1>2, <1>3, <1>6, ThoroughMoves

LEMMA ReaderStepThorough ==
    ASSUME ThoroughInv, ThreadsInv', KnownIds, NEW q \in Readers, ReaderStep(q)
    PROVE  ThoroughInv'
  <1> DEFINE w == walk[q]
  <1>0. w \in Walk /\ Thorough(w, directives) /\ directives \in Table
    BY DEF ThoroughInv, ThreadsInv, ThreadsTypeOK, HandoffInv, TypeOK, Table
  <1>1. w.item \in Ids /\ w.root \in Ids /\ 1..w.began \subseteq Ids
    BY <1>0, WalkIds
  <1>2. w.at # "idle" => Exists(directives[w.item]) /\ Exists(directives[w.root])
    BY <1>0 DEF Thorough
  <1>3. CASE Look(q)
    <2> DEFINE r == directives[w.item]
               a == IF ~Exists(r) THEN "idle" ELSE IF r.parent = Null THEN "probe" ELSE "climb"
    <2>1. w.at = "look" /\ Reads(q, [w EXCEPT !.at = a])
      BY <1>3 DEF Look
    <2>2. a \in {"probe", "climb"}
      BY <1>2, <2>1
    <2> HIDE DEF w, a
    <2>3. [w EXCEPT !.at = a] \in Walk /\ Thorough([w EXCEPT !.at = a], directives)
      BY <1>0, <2>1, <2>2, PlaceChanges, PlaceThorough DEF Places
    <2> QED BY <2>1, <2>3, ThoroughReads
  <1>4. CASE Probe(q)
    <2> DEFINE a == IF ChildrenOf(directives, w.item) = {} THEN "answered" ELSE "climb"
    <2>1. w.at = "probe" /\ Reads(q, [w EXCEPT !.at = a])
      BY <1>4 DEF Probe
    <2>2. /\ a \in {"answered", "climb"}
          /\ a = "answered" => ChildrenOf(directives, w.item) = {}
      OBVIOUS
    <2> HIDE DEF w, a
    <2>3. [w EXCEPT !.at = a] \in Walk /\ Thorough([w EXCEPT !.at = a], directives)
      BY <1>0, <2>1, <2>2, PlaceChanges, PlaceThorough DEF Places
    <2> QED BY <2>1, <2>3, ThoroughReads
  <1>5. CASE Climb(q)
    <2> DEFINE r == directives[w.root]
    <2>1. w.at = "climb" /\ Exists(r)
      BY <1>2, <1>5 DEF Climb
    <2>2. CASE r.parent # Null
      <3>1. Reads(q, [w EXCEPT !.root = r.parent])
        BY <1>5, <2>1, <2>2 DEF Climb
      <3>2. r.parent \in Ids /\ r.parent < w.root
        BY <1>0, <1>1, <2>1, <2>2 DEF ThoroughInv, ParentsBelow, Table, Directive
      <3> HIDE DEF w
      <3>3. [w EXCEPT !.root = r.parent] \in Walk
        BY <1>0, <3>2 DEF Walk
      <3>4. Thorough([w EXCEPT !.root = r.parent], directives)
        BY <1>0, <2>1, <3>2, ClimbThorough
      <3> QED BY <3>1, <3>3, <3>4, ThoroughReads
    <2>3. CASE r.parent = Null
      <3>1. Reads(q, [w EXCEPT !.at = "root"])
        BY <1>5, <2>3 DEF Climb
      <3> HIDE DEF w
      <3>2. /\ [w EXCEPT !.at = "root"] \in Walk
            /\ Thorough([w EXCEPT !.at = "root"], directives)
        BY <1>0, <2>1, <2>3, PlaceChanges, PlaceThorough DEF Places
      <3> QED BY <3>1, <3>2, ThoroughReads
    <2> QED BY <2>2, <2>3
  <1>6. CASE ReadRoot(q)
    <2> DEFINE r == directives[w.root]
               rows == IF Exists(r) THEN <<[id |-> w.root, status |-> r.status]>> ELSE <<>>
               v == [w EXCEPT !.at = "visit", !.stack = <<w.root>>, !.rows = rows]
    <2>1. w.at = "root" /\ Reads(q, v)
      BY <1>6 DEF ReadRoot
    <2>2. rows = <<[id |-> w.root, status |-> r.status]>>
      BY <1>2, <2>1
    <2>3. v \in Walk
      <3> HIDE DEF w
      <3> QED BY <1>0, <2>1, ReadRootThreaded
    <2>4. Thorough(v, directives)
      <3> HIDE DEF w, rows
      <3> QED BY <1>0, <2>1, <2>2, ReadRootThorough
    <2> HIDE DEF v
    <2> QED BY <2>1, <2>3, <2>4, ThoroughReads
  <1>7. CASE Visit(q)
    <2> DEFINE rest == Len(w.stack) - 1
               i == w.stack[Len(w.stack)]
    <2>1. w.at = "visit" /\ w.stack # <<>> /\ w.stack \in Seq(Ids)
      BY <1>0, <1>7 DEF Visit, Walk
    <2>2. rest + 1 = Len(w.stack)
      BY <2>1
    <2>3. PICK n \in 0..MaxId : \E kids \in [1..n -> ChildrenOf(directives, i)] :
            /\ Lists(kids, i)
            /\ Reads(q, [w EXCEPT
                !.rows = @ \o [m \in 1..n |->
                                [id |-> kids[m], status |-> directives[kids[m]].status]],
                !.stack = [m \in 1..(rest + n) |->
                            IF m <= rest THEN @[m] ELSE kids[rest + n + 1 - m]]])
      BY <1>7, <2>2, Zenon DEF Visit
    <2>4. PICK kids \in [1..n -> ChildrenOf(directives, i)] :
            /\ Lists(kids, i)
            /\ Reads(q, [w EXCEPT
                !.rows = @ \o [m \in 1..n |->
                                [id |-> kids[m], status |-> directives[kids[m]].status]],
                !.stack = [m \in 1..(rest + n) |->
                            IF m <= rest THEN @[m] ELSE kids[rest + n + 1 - m]]])
      BY <2>3
    <2> DEFINE v == [w EXCEPT !.rows = MoreRows(w.rows, directives, kids, n),
                              !.stack = RestStack(w.stack, kids, n)]
    <2>5. Reads(q, v)
      BY <2>4, Zenon DEF MoreRows, RestStack
    <2>6. \A j \in ChildrenOf(directives, i) : \E m \in 1..n : kids[m] = j
      BY <2>4 DEF Lists
    <2>7. \A a, b \in 1..n : kids[a] = kids[b] => a = b
      BY <1>0, <2>4, ListsDistinct
    <2>8. v \in Walk
      <3> HIDE DEF w
      <3> QED BY <1>0, <2>1, <2>6, VisitThreaded
    <2>9. Thorough(v, directives)
      <3> HIDE DEF w
      <3> QED BY <1>0, <2>1, <2>6, <2>7, VisitThorough
    <2> HIDE DEF v
    <2> QED BY <2>5, <2>8, <2>9, ThoroughReads
  <1>8. CASE Answer(q)
    <2>1. /\ w.at = "visit" /\ w.stack = <<>>
          /\ Reads(q, [w EXCEPT !.at = IF w.rows = <<>> THEN "idle" ELSE "answered"])
      BY <1>8 DEF Answer
    <2> HIDE DEF w
    <2>2. w.rows # <<>> /\ Thorough([w EXCEPT !.at = "answered"], directives)
      BY <1>0, <2>1, AnswerThorough
    <2>3. [w EXCEPT !.at = "answered"] \in Walk
      BY <1>0, PlaceChanges DEF Places
    <2> QED BY <2>1, <2>2, <2>3, ThoroughReads
  <1>9. CASE Leave(q)
    <2>1. Reads(q, AtRest)
      BY <1>9 DEF Leave
    <2>2. AtRest \in Walk /\ Thorough(AtRest, directives)
      BY RestType DEF Thorough, Gathers
    <2> QED BY <2>1, <2>2, ThoroughReads
  <1> QED BY <1>3, <1>4, <1>5, <1>6, <1>7, <1>8, <1>9, AskMovesThorough, SweepsMoveThorough
          DEF ReaderStep

LEMMA ThoroughInitInv == ThreadsInit => ThoroughInv
  <1> SUFFICES ASSUME ThreadsInit PROVE ThoroughInv
    OBVIOUS
  <1>1. ThreadsInv
    BY ThreadsInitInv
  <1>2. Absent.status = "absent"
    BY DEF Absent, Pending
  <1>3. ParentsBelow(directives)
    BY <1>2 DEF ThreadsInit, HandoffInit, Init, ParentsBelow, Exists
  <1>4. \A q \in Readers : Thorough(walk[q], directives)
    BY RestType DEF ThreadsInit, Thorough, Gathers
  <1> QED BY <1>1, <1>3, <1>4 DEF ThoroughInv

LEMMA ThoroughInductive == ThoroughInv /\ KnownIds /\ [ThreadsNext]_tvars => ThoroughInv'
  <1> SUFFICES ASSUME ThoroughInv, KnownIds, [ThreadsNext]_tvars PROVE ThoroughInv'
    OBVIOUS
  <1>1. ThreadsInv'
    BY ThreadsInductive DEF ThoroughInv
  <1>2. CASE UNCHANGED tvars
    BY <1>1, <1>2 DEF ThoroughInv, tvars, hvars, vars
  <1> QED BY <1>1, <1>2, OthersThorough, ReaderStepThorough DEF ThreadsNext

LEMMA ThoroughInvariant == KnownIds => (ThreadsSpec => []ThoroughInv)
  <1> SUFFICES ASSUME KnownIds PROVE ThreadsSpec => []ThoroughInv
    OBVIOUS
  <1>1. ThoroughInv /\ [ThreadsNext]_tvars => ThoroughInv'
    BY ThoroughInductive
  <1> QED BY <1>1, ThoroughInitInv, PTL DEF ThreadsSpec

\* What a thorough reader's answer holds: the set of its rows is closed under
\* old children and has the root, so it has the item; and it counts its rows.
LEMMA AnswerHolds ==
    ASSUME NEW w \in Walk, NEW d, Thorough(w, d), w.at = "answered", w.rows # <<>>
    PROVE  /\ w.item \in Seen(w) /\ w.rows[1].id = w.root
           /\ Cardinality(Seen(w)) = Len(w.rows)
           /\ \A i \in Seen(w) : ChildrenOf(d, i) \cap 1..w.began \subseteq Seen(w)
  <1>1. Gathered(w, d) /\ w.stack = <<>> /\ Above(d, w.began, w.root, w.item)
    BY DEF Thorough, Gathers
  <1>2. /\ Seen(w) \subseteq Ids /\ w.rows \in Seq(Row)
        /\ Len(w.rows) \in Nat /\ DOMAIN w.rows = 1..Len(w.rows)
    BY WalkIds
  <1>3. Waiting(w) = {}
    BY <1>1 DEF Waiting
  <1>4. \A i \in Seen(w) : ChildrenOf(d, i) \cap 1..w.began \subseteq Seen(w)
    BY <1>1, <1>3 DEF Gathered
  <1>5. w.rows[1].id = w.root /\ w.root \in Seen(w)
    <2>1. Len(w.rows) # 0
      BY <1>2
    <2>2. 1 \in DOMAIN w.rows
      BY <1>2, <2>1
    <2> QED BY <1>1, <2>2 DEF Gathered, Seen
  <1>6. w.item \in Seen(w)
    BY <1>1, <1>2, <1>4, <1>5 DEF Above
  <1>7. Cardinality(Seen(w)) = Len(w.rows)
    <2> DEFINE f == [n \in 1..Len(w.rows) |-> w.rows[n].id]
    <2>1. f \in Bijection(1..Len(w.rows), Seen(w))
      <3>1. f \in [1..Len(w.rows) -> Seen(w)]
        BY <1>2 DEF Seen
      <3>2. \A m, n \in 1..Len(w.rows) : f[m] = f[n] => m = n
        BY <1>1, <1>2 DEF Gathered
      <3>3. \A i \in Seen(w) : \E n \in 1..Len(w.rows) : f[n] = i
        BY <1>2 DEF Seen
      <3> QED BY <3>1, <3>2, <3>3 DEF Bijection, Injection, Surjection, IsInjective
    <2>2. ExistsBijection(1..Len(w.rows), Seen(w))
      BY <2>1 DEF ExistsBijection
    <2> QED BY <1>2, <2>2, FS_CountingElements
  <1> QED BY <1>4, <1>5, <1>6, <1>7

\* An answer overlooks nothing that was there when the call began, and has no
\* row twice, whatever other calls did to the table between the SELECTs of
\* thread_rows and descendants; this needs no order among the pushes.
THEOREM AnswersOverlookNothing == KnownIds => (ThreadsSpec => []NothingOverlooked)
  <1>1. ThoroughInv => NothingOverlooked
    <2> SUFFICES ASSUME ThoroughInv, NEW q \in Readers, walk[q].at = "answered"
                 PROVE  IF walk[q].rows = <<>>
                        THEN ChildrenOf(directives, walk[q].item) \cap 1..walk[q].began = {}
                        ELSE /\ walk[q].item \in Seen(walk[q])
                             /\ walk[q].rows[1].id = walk[q].root
                             /\ Cardinality(Seen(walk[q])) = Len(walk[q].rows)
                             /\ \A i \in Seen(walk[q]) :
                                    ChildrenOf(directives, i) \cap 1..walk[q].began
                                        \subseteq Seen(walk[q])
      BY Zenon DEF NothingOverlooked, Seen
    <2>1. walk[q] \in Walk /\ Thorough(walk[q], directives)
      BY DEF ThoroughInv, ThreadsInv, ThreadsTypeOK
    <2>2. CASE walk[q].rows = <<>>
      BY <2>1, <2>2 DEF Thorough
    <2>3. CASE walk[q].rows # <<>>
      BY <2>1, <2>3, AnswerHolds
    <2> QED BY <2>2, <2>3
  <1> QED BY <1>1, ThoroughInvariant, PTL

(***************************************************************************)
(* Readers beside the queue: what a call that only reads does to it is to  *)
(* reclaim, at two moments of its own.                                     *)
(***************************************************************************)
LEMMA ReadersInCompany ==
    ASSUME HandoffInv, [ThreadsNext]_tvars
    PROVE  CompanyStep
  <1>1. CASE [HandoffNext]_hvars
    BY <1>1, HandoffInCompany
  <1>2. \A q, w : Reads(q, w) => UNCHANGED hvars
    BY DEF Reads
  <1>3. ASSUME NEW q \in Readers, ReaderStep(q)
        PROVE  Reclaims \/ UNCHANGED hvars
    <2>1. CASE \E op \in {"status", "show"}, i \in Ids : Ask(q, op, i)
      BY <2>1 DEF Ask, Reclaims
    <2>2. CASE Sweeps(q)
      BY <2>2 DEF Sweeps, Reclaims
    <2>3. CASE Look(q) \/ Probe(q) \/ Climb(q) \/ ReadRoot(q) \/ Answer(q) \/ Leave(q)
      BY <1>2, <2>3, Zenon DEF Look, Probe, Climb, ReadRoot, Answer, Leave
    <2>4. CASE Visit(q)
      BY <1>2, <2>4, Zenon DEF Visit
    <2> QED BY <1>3, <2>1, <2>2, <2>3, <2>4 DEF ReaderStep
  <1>4. UNCHANGED tvars => UNCHANGED hvars
    BY DEF tvars
  <1> QED BY <1>1, <1>3, <1>4 DEF ThreadsNext, Others, CompanyStep

LEMMA QueueHoldsBesideReaders == KnownIds => (ThreadsSpec => [](ThreadsInv /\ QueueHolds))
  <1> SUFFICES ASSUME KnownIds PROVE ThreadsSpec => [](ThreadsInv /\ QueueHolds)
    OBVIOUS
  <1>1. ThreadsInv /\ QueueHolds /\ [ThreadsNext]_tvars => ThreadsInv' /\ QueueHolds'
    <2> SUFFICES ASSUME ThreadsInv, QueueHolds, [ThreadsNext]_tvars
                 PROVE  ThreadsInv' /\ QueueHolds'
      OBVIOUS
    <2>1. ThreadsInv'
      BY ThreadsInductive
    <2> QED BY <2>1, ReadersInCompany, CompanyKeeps DEF ThreadsInv
  <1>2. ThreadsInit => ThreadsInv /\ QueueHolds
    BY ThreadsInitInv, QueueHoldsInit DEF ThreadsInit, HandoffInit
  <1> QED BY <1>1, <1>2, PTL DEF ThreadsSpec

\* Readers take nothing from anybody: beside any number of calls that read
\* threads, reclaiming whenever their clocks say so, leases are honoured,
\* tokens and parents name what they named, and settlements stay whole
\* (thread_status and show, which begin by writing).
THEOREM ReadersKeepTheRest ==
    KnownIds => (ThreadsSpec =>
        [](/\ SettledCompletely /\ KeyNamesOneDirective /\ AcksAreSealed
           /\ LeaseHonoured /\ TokensNameOneDirective /\ ParentsPrecede))
  <1>1. ThreadsInv /\ QueueHolds =>
            /\ SettledCompletely /\ KeyNamesOneDirective /\ AcksAreSealed
            /\ LeaseHonoured /\ TokensNameOneDirective /\ ParentsPrecede
    BY WholeSettlement DEF ThreadsInv, HandoffInv, QueueHolds
  <1> QED BY <1>1, QueueHoldsBesideReaders, PTL

\* ... and their sweeps count a lost claim when they end it and never again,
\* overtake nobody, reopen nothing that is finished and promote nothing that is
\* not ready.
THEOREM ReadersKeepTheSteps ==
    KnownIds => (ThreadsSpec => /\ LostClaimCountedOnce /\ TakesTheHead
                                /\ FinishedStaysFinished /\ PromotedOnlyWhenReady)
  <1> SUFFICES ASSUME KnownIds
               PROVE  ThreadsSpec => /\ LostClaimCountedOnce /\ TakesTheHead
                                     /\ FinishedStaysFinished /\ PromotedOnlyWhenReady
    OBVIOUS
  <1>1. /\ ThreadsInv /\ QueueHolds /\ ThreadsInv' /\ [ThreadsNext]_tvars
        => [QueueSteps]_vars
    BY ReadersInCompany, CompanyKeeps DEF ThreadsInv
  <1> QED BY <1>1, StepsArePromised, QueueHoldsBesideReaders, PTL DEF ThreadsSpec
=============================================================================
