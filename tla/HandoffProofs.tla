--------------------------- MODULE HandoffProofs ----------------------------
(***************************************************************************)
(* Admission and handoff, proved for any number of stages, claims, keys    *)
(* and producers: what a handoff inserts, what it leaves alone, and the    *)
(* invariants that follow.                                                 *)
(***************************************************************************)
EXTENDS HandoffProperties, RowProofs, FiniteSetTheorems, SequenceTheorems

(***************************************************************************)
(* The position of an element among the elements of a set of numbers: the  *)
(* ids of the tasks that are inserted are handed out by it.                *)
(***************************************************************************)
Rank(N, n) == Cardinality({m \in N : m <= n})

LEMMA RankFacts ==
    ASSUME NEW N, NEW w \in Nat, N \subseteq 1..w
    PROVE  /\ Cardinality(N) \in Nat
           /\ \A n \in N : Rank(N, n) \in 1..Cardinality(N)
           /\ \A m, n \in N : m # n => Rank(N, m) # Rank(N, n)
           /\ \A r \in 1..Cardinality(N) : \E n \in N : Rank(N, n) = r
  <1> DEFINE Upto(n) == {m \in N : m <= n}
             rank == [n \in N |-> Cardinality(Upto(n))]
             c == Cardinality(N)
  <1>1. IsFiniteSet(N) /\ c \in Nat
    <2>1. IsFiniteSet(1..w) /\ N \in SUBSET (1..w)
      BY FS_Interval
    <2>2. IsFiniteSet(N)
      BY <2>1, FS_Subset
    <2> QED BY <2>2, FS_CardinalityType
  <1>2. ASSUME NEW n \in N
        PROVE  IsFiniteSet(Upto(n)) /\ Cardinality(Upto(n)) \in 1..c
    <2>1. Upto(n) \in SUBSET N /\ n \in Upto(n)
      OBVIOUS
    <2>2. IsFiniteSet(Upto(n)) /\ Cardinality(Upto(n)) <= c
      BY <1>1, <2>1, FS_Subset
    <2>3. Cardinality(Upto(n)) \in Nat /\ Cardinality(Upto(n)) # 0
      BY <2>1, <2>2, FS_CardinalityType, FS_EmptySet
    <2> QED BY <1>1, <2>2, <2>3
  <1>3. ASSUME NEW m \in N, NEW n \in N, m < n
        PROVE  Cardinality(Upto(m)) < Cardinality(Upto(n))
    <2>1. Upto(m) \in SUBSET Upto(n) /\ n \in Upto(n) /\ n \notin Upto(m)
      <3>1. m \in Nat /\ n \in Nat /\ \A a \in N : a \in Nat
        OBVIOUS
      <3>2. \A a \in N : a <= m => a <= n
        BY <1>3, <3>1
      <3>3. n <= n /\ ~(n <= m)
        BY <1>3, <3>1
      <3> QED BY <3>2, <3>3
    <2>2. IsFiniteSet(Upto(n)) /\ Cardinality(Upto(m)) \in 1..c /\ Cardinality(Upto(n)) \in 1..c
      BY <1>2
    <2> HIDE DEF Upto, c
    <2>3. /\ Cardinality(Upto(m)) <= Cardinality(Upto(n))
          /\ Cardinality(Upto(n)) = Cardinality(Upto(m)) => Upto(n) = Upto(m)
      BY <2>1, <2>2, FS_Subset
    <2> QED BY <1>1, <2>1, <2>2, <2>3
  <1>4. \A m, n \in N : m # n => Cardinality(Upto(m)) # Cardinality(Upto(n))
    <2> SUFFICES ASSUME NEW m \in N, NEW n \in N, m # n
                 PROVE  Cardinality(Upto(m)) # Cardinality(Upto(n))
      OBVIOUS
    <2>1. m < n \/ n < m
      OBVIOUS
    <2>2. Cardinality(Upto(m)) \in 1..c /\ Cardinality(Upto(n)) \in 1..c
      BY <1>2
    <2> HIDE DEF Upto, c
    <2> QED BY <1>1, <1>3, <2>1, <2>2
  <1>5. rank \in Injection(N, 1..c)
    <2> HIDE DEF Upto, c
    <2> QED BY <1>2, <1>4 DEF Injection, IsInjective
  <1>6. IsFiniteSet(1..c) /\ Cardinality(1..c) = c
    BY <1>1, FS_Interval
  <1>7. rank \in Surjection(N, 1..c)
    <2> HIDE DEF rank
    <2> QED BY <1>5, <1>6, FS_Injection
  <1>8. \A r \in 1..c : \E n \in N : Cardinality(Upto(n)) = r
    <2> HIDE DEF Upto, c
    <2> QED BY <1>7 DEF Surjection
  <1> QED BY <1>1, <1>2, <1>4, <1>8 DEF Rank

(***************************************************************************)
(* What admit_in_transaction inserts.                                      *)
(***************************************************************************)
WellFormed(s) ==
    /\ s \in Seq(Tasks)
    /\ \A a, b \in DOMAIN s : s[a].key = s[b].key => a = b

LEMMA RowsCounted ==
    ASSUME NEW n \in 0..MaxId, FirstRows(directives, n)
    PROVE  Rows = n
  <1>1. {i \in Ids : Exists(directives[i])} = 1..n
    BY DirectivesAssumption DEF FirstRows, Ids
  <1>2. Cardinality(1..n) = n
    BY FS_Interval, DirectivesAssumption
  <1> QED BY <1>1, <1>2 DEF Rows

LEMMA InsertedIds ==
    ASSUME NEW n \in 0..MaxId, FirstRows(directives, n), NEW s, WellFormed(s), Fits(s)
    PROVE  /\ \E w \in Nat : n + w <= MaxId /\ Inserted(s) = (n + 1)..(n + w)
           /\ Inserted(s) \subseteq Ids
           /\ \A i \in Inserted(s) : ~Exists(directives[i])
           /\ \A a \in NewTasks(s) : IdOf(s, a) \in Inserted(s)
           /\ \A a, b \in NewTasks(s) : IdOf(s, a) = IdOf(s, b) => a = b
           /\ \A a \in NewTasks(s) : TaskOf(s, IdOf(s, a)) = s[a]
  <1> DEFINE N == NewTasks(s)
             w == Cardinality(N)
  <1>1. N \subseteq 1..Len(s) /\ Len(s) \in Nat
    BY DEF NewTasks, WellFormed
  <1>2. /\ w \in Nat
        /\ \A a \in N : Rank(N, a) \in 1..w
        /\ \A a, b \in N : a # b => Rank(N, a) # Rank(N, b)
        /\ \A r \in 1..w : \E a \in N : Rank(N, a) = r
    <2> HIDE DEF N
    <2> QED BY <1>1, RankFacts
  <1>3. n + w <= MaxId /\ n \in Nat
    BY RowsCounted DEF Fits
  <1>4. \A a \in N : IdOf(s, a) = n + Rank(N, a)
    BY RowsCounted DEF IdOf, Rank
  <1>5. Inserted(s) = {IdOf(s, a) : a \in N}
    BY DEF Inserted
  <1> HIDE DEF N, w
  <1>6. Inserted(s) = (n + 1)..(n + w)
    <2>1. \A i \in (n + 1)..(n + w) : i - n \in 1..w /\ n + (i - n) = i
      BY <1>2, <1>3
    <2>2. \A r \in 1..w : n + r \in (n + 1)..(n + w)
      BY <1>2, <1>3
    <2>3. \A i \in Inserted(s) : i \in (n + 1)..(n + w)
      BY <1>2, <1>4, <1>5, <2>2
    <2>4. ASSUME NEW i \in (n + 1)..(n + w)
          PROVE  i \in Inserted(s)
      <3>1. PICK a \in N : Rank(N, a) = i - n
        BY <1>2, <2>1
      <3> QED BY <1>4, <1>5, <2>1, <3>1
    <2> QED BY <2>3, <2>4
  <1>7. Inserted(s) \subseteq Ids /\ \A i \in Inserted(s) : ~Exists(directives[i])
    BY <1>2, <1>3, <1>6, DirectivesAssumption DEF FirstRows, Ids
  <1>8. \A a, b \in N : IdOf(s, a) = IdOf(s, b) => a = b
    <2>1. \A q, r \in 1..w : n + q = n + r => q = r
      BY <1>2, <1>3
    <2> QED BY <1>2, <1>4, <2>1
  <1>9. ASSUME NEW a \in N
        PROVE  TaskOf(s, IdOf(s, a)) = s[a]
    BY <1>8 DEF TaskOf, N
  <1> QED BY <1>2, <1>3, <1>5, <1>6, <1>7, <1>8, <1>9 DEF N

\* The table after the INSERTs: old rows as they were, new ones protected,
\* pending and below parent.
LEMMA InsertedRows ==
    ASSUME TypeOK, NEW n \in 0..MaxId, FirstRows(directives, n),
           NEW s, WellFormed(s), Fits(s), NEW parent \in Ids \cup {Null}
    PROVE  LET e == DirectivesWith(s, parent)
           IN  /\ e \in Table
               /\ \A i \in Ids : i \notin Inserted(s) => e[i] = directives[i]
               /\ \A a \in NewTasks(s) :
                    e[IdOf(s, a)] = Pending("hold", s[a].lane, s[a].priority, parent)
               /\ \A i \in Inserted(s) :
                    /\ Protected(e[i]) /\ Exists(e[i])
                    /\ e[i].status = "pending" /\ e[i].token = Null
                    /\ e[i].parent = parent
               /\ \E m \in 0..MaxId : FirstRows(e, m)
  <1> DEFINE e == DirectivesWith(s, parent)
  <1>1. \A a \in NewTasks(s) : s[a] \in Tasks
    BY DEF NewTasks, WellFormed
  <1>2. /\ Inserted(s) \subseteq Ids
        /\ \A a \in NewTasks(s) : IdOf(s, a) \in Inserted(s) /\ TaskOf(s, IdOf(s, a)) = s[a]
        /\ \A i \in Inserted(s) : \E a \in NewTasks(s) : i = IdOf(s, a)
    BY InsertedIds DEF Inserted
  <1>3. \A i \in Ids : i \notin Inserted(s) => e[i] = directives[i]
    BY DEF DirectivesWith
  <1>4. ASSUME NEW a \in NewTasks(s)
        PROVE  /\ e[IdOf(s, a)] = Pending("hold", s[a].lane, s[a].priority, parent)
               /\ e[IdOf(s, a)] \in Directive
    <2>1. e[IdOf(s, a)] = Pending("hold", s[a].lane, s[a].priority, parent)
      BY <1>2 DEF DirectivesWith
    <2>2. s[a].lane \in Lanes /\ s[a].priority \in Priorities /\ "hold" \in Policies
      BY <1>1 DEF Tasks, Policies
    <2> HIDE DEF e
    <2> QED BY <2>1, <2>2, PendingType
  <1>5. ASSUME NEW i \in Inserted(s)
        PROVE  /\ Protected(e[i]) /\ Exists(e[i])
               /\ e[i].status = "pending" /\ e[i].token = Null
               /\ e[i].parent = parent
    <2>1. PICK a \in NewTasks(s) : i = IdOf(s, a)
      BY <1>2
    <2> HIDE DEF e
    <2> DEFINE q == Pending("hold", s[a].lane, s[a].priority, parent)
    <2>2. e[i] = q
      BY <1>4, <2>1
    <2>3. /\ q.policy = "hold" /\ q.status = "pending"
          /\ q.token = Null /\ q.parent = parent
      BY DEF Pending
    <2> HIDE DEF q
    <2> QED BY <2>2, <2>3 DEF Protected, Exists
  <1>6. e \in Table
    <2>1. \A i \in Ids : e[i] \in Directive
      <3> HIDE DEF e
      <3> QED BY <1>2, <1>3, <1>4, ReadingType DEF Table
    <2> QED BY <2>1 DEF DirectivesWith, Table
  <1>7. PICK w \in Nat : n + w <= MaxId /\ Inserted(s) = (n + 1)..(n + w)
    BY InsertedIds
  <1> HIDE DEF e
  <1>8. n + w \in 0..MaxId /\ FirstRows(e, n + w)
    BY <1>3, <1>5, <1>7, DirectivesAssumption DEF FirstRows, Ids
  <1> QED BY <1>3, <1>4, <1>5, <1>6, <1>8 DEF e

\* The two other tables: what was recorded stays, and every new key names a
\* row that was just inserted.
LEMMA InsertedKeys ==
    ASSUME HandoffTypeOK, NEW n \in 0..MaxId, FirstRows(directives, n),
           NEW s, WellFormed(s), Fits(s), InsertTasks(s)
    PROVE  /\ body' \in [Ids -> Bodies]
           /\ \A i \in Ids : i \notin Inserted(s) => body'[i] = body[i]
           /\ DOMAIN admissions' = DOMAIN admissions \cup {s[a].key : a \in NewTasks(s)}
           /\ \A key \in DOMAIN admissions : admissions'[key] = admissions[key]
           /\ \A a \in NewTasks(s) :
                /\ s[a].key \notin DOMAIN admissions
                /\ admissions'[s[a].key] =
                        [id |-> IdOf(s, a), body |-> s[a].body,
                         lane |-> s[a].lane, priority |-> s[a].priority]
                /\ body'[IdOf(s, a)] = s[a].body
           /\ DOMAIN admissions' \subseteq Keys
           /\ \A key \in DOMAIN admissions' : admissions'[key] \in Admission
  <1>1. \A a \in NewTasks(s) :
          s[a] \in Tasks /\ a \in DOMAIN s /\ s[a].key \notin DOMAIN admissions
    BY DEF NewTasks, WellFormed
  <1>2. /\ Inserted(s) \subseteq Ids
        /\ \A a \in NewTasks(s) : IdOf(s, a) \in Inserted(s) /\ TaskOf(s, IdOf(s, a)) = s[a]
        /\ \A i \in Inserted(s) : \E a \in NewTasks(s) : i = IdOf(s, a)
    BY InsertedIds DEF Inserted
  <1>3. body' = [i \in Ids |-> IF i \in Inserted(s) THEN TaskOf(s, i).body ELSE body[i]]
    BY DEF InsertTasks
  <1>4. body' \in [Ids -> Bodies]
    BY <1>1, <1>2, <1>3 DEF HandoffTypeOK, Tasks
  <1>5. DOMAIN admissions' = DOMAIN admissions \cup {s[a].key : a \in NewTasks(s)}
    BY DEF InsertTasks
  <1>6. ASSUME NEW key \in DOMAIN admissions
        PROVE  admissions'[key] = admissions[key]
    <2>1. ~\E a \in NewTasks(s) : s[a].key = key
      BY <1>1
    <2> QED BY <2>1, Zenon DEF InsertTasks
  <1>7. ASSUME NEW a \in NewTasks(s)
        PROVE  admissions'[s[a].key] =
                        [id |-> IdOf(s, a), body |-> s[a].body,
                         lane |-> s[a].lane, priority |-> s[a].priority]
    <2> DEFINE b == CHOOSE b \in NewTasks(s) : s[b].key = s[a].key
    <2>1. b = a
      BY <1>1 DEF WellFormed
    <2>2. s[a].key \in DOMAIN admissions \cup {s[c].key : c \in NewTasks(s)}
          /\ \E c \in NewTasks(s) : s[c].key = s[a].key
      OBVIOUS
    <2>3. admissions'[s[a].key] =
            [id |-> IdOf(s, b), body |-> s[b].body,
             lane |-> s[b].lane, priority |-> s[b].priority]
      BY <2>2, Zenon DEF InsertTasks
    <2> QED BY <2>1, <2>3
  <1>8. \A a \in NewTasks(s) : body'[IdOf(s, a)] = s[a].body
    BY <1>2, <1>3
  <1>9. DOMAIN admissions' \subseteq Keys
    BY <1>1, <1>5 DEF HandoffTypeOK, Tasks
  <1>10. \A key \in DOMAIN admissions' : admissions'[key] \in Admission
    <2>1. \A a \in NewTasks(s) : admissions'[s[a].key] \in Admission
      <3> SUFFICES ASSUME NEW a \in NewTasks(s)
                   PROVE  admissions'[s[a].key] \in Admission
        OBVIOUS
      <3>1. /\ IdOf(s, a) \in Ids /\ s[a].body \in Bodies
            /\ s[a].lane \in Lanes /\ s[a].priority \in Priorities
        BY <1>1, <1>2 DEF Tasks
      <3>2. [id |-> IdOf(s, a), body |-> s[a].body,
             lane |-> s[a].lane, priority |-> s[a].priority] \in Admission
        BY <3>1 DEF Admission
      <3> QED BY <1>7, <3>2
    <2> QED BY <1>5, <1>6, <2>1 DEF HandoffTypeOK
  <1> QED BY <1>1, <1>2, <1>3, <1>4, <1>5, <1>6, <1>7, <1>8, <1>9, <1>10

-----------------------------------------------------------------------------
(***************************************************************************)
(* The inductive invariant.  A protected row is held until it has a        *)
(* receipt and done from then on; a receipt is whole: it seals the input   *)
(* of its directive and every successor it lists is there.                 *)
(***************************************************************************)
SettledRow(i) ==
    Protected(directives[i]) =>
        IF i \in DOMAIN receipts THEN directives[i].status = "done"
                                 ELSE HeldRow(directives[i])

SealedWhole(i) ==
    LET m == receipts[i].manifest
    IN  /\ Protected(directives[i])
        /\ m.input = body[i]
        /\ \A n \in DOMAIN m.successors :
            LET t == m.successors[n]
                child == receipts[i].successor_ids[n]
            IN  /\ t.key \in DOMAIN admissions
                /\ admissions[t.key].id = child
                /\ Recorded(t.key) = Fingerprint(t)
                /\ Protected(directives[child])

HandoffInv ==
    /\ TypeOK /\ HandoffTypeOK /\ Targets
    /\ \E n \in 0..MaxId : FirstRows(directives, n)
    /\ \A i \in Ids : SettledRow(i)
    /\ \A i \in DOMAIN receipts : SealedWhole(i)
    /\ KeyNamesOneDirective
    /\ AcksAreSealed

\* What no step takes back: a row that is there, its text, and a key.
RowsStay ==
    \A i \in Ids : Exists(directives[i]) =>
        /\ Exists(directives'[i])
        /\ directives'[i].policy = directives[i].policy
        /\ directives'[i].lane = directives[i].lane
        /\ body'[i] = body[i]

KeysStay ==
    \A key \in DOMAIN admissions :
        key \in DOMAIN admissions' /\ admissions'[key] = admissions[key]

LEMMA HandoffInitInv == HandoffInit => HandoffInv
  <1> SUFFICES ASSUME HandoffInit PROVE HandoffInv
    OBVIOUS
  <1>1. TypeOK /\ Targets
    BY ProtectionInit DEF HandoffInit, ProtectionInv
  <1>2. DOMAIN admissions = {} /\ DOMAIN receipts = {} /\ acks = {}
    BY DEF HandoffInit
  <1>3. body \in [Ids -> Bodies]
    BY HandoffAssumption DEF HandoffInit
  <1>4. \A i \in Ids : ~Exists(directives[i])
    BY DEF HandoffInit, Init, Absent, Pending, Exists
  <1>5. 0 \in 0..MaxId /\ FirstRows(directives, 0)
    BY <1>4, DirectivesAssumption DEF FirstRows, Ids
  <1>6. HandoffTypeOK
    BY <1>2, <1>3 DEF HandoffTypeOK
  <1>7. \A i \in Ids : SettledRow(i)
    BY <1>4 DEF SettledRow, Protected
  <1>8. KeyNamesOneDirective /\ AcksAreSealed
    BY <1>2 DEF KeyNamesOneDirective, AcksAreSealed
  <1> QED BY <1>1, <1>2, <1>5, <1>6, <1>7, <1>8 DEF HandoffInv

LEMMA WholeStays ==
    ASSUME HandoffTypeOK, RowsStay, KeysStay,
           NEW i \in DOMAIN receipts, SealedWhole(i), receipts'[i] = receipts[i]
    PROVE  SealedWhole(i)'
  <1> DEFINE m == receipts[i].manifest
  <1>1. i \in Ids /\ \A key \in DOMAIN admissions : admissions[key].id \in Ids
    BY DEF HandoffTypeOK, Admission
  <1>2. \A j \in Ids : Protected(directives[j]) =>
            Protected(directives'[j]) /\ body'[j] = body[j]
    BY DEF RowsStay, Protected
  <1>3. Protected(directives'[i]) /\ m.input = body'[i]
    BY <1>1, <1>2 DEF SealedWhole
  <1>4. ASSUME NEW n \in DOMAIN m.successors
        PROVE  LET t == m.successors[n]
                   child == receipts[i].successor_ids[n]
               IN  /\ t.key \in DOMAIN admissions'
                   /\ admissions'[t.key].id = child
                   /\ Recorded(t.key)' = Fingerprint(t)
                   /\ Protected(directives'[child])
    <2> DEFINE t == m.successors[n]
               child == receipts[i].successor_ids[n]
    <2>1. /\ t.key \in DOMAIN admissions
          /\ admissions[t.key].id = child
          /\ Recorded(t.key) = Fingerprint(t)
          /\ Protected(directives[child])
      BY DEF SealedWhole
    <2>2. t.key \in DOMAIN admissions' /\ admissions'[t.key] = admissions[t.key]
      BY <2>1 DEF KeysStay
    <2>3. Recorded(t.key)' = Recorded(t.key)
      BY <2>2 DEF Recorded
    <2>4. Protected(directives'[child])
      BY <1>1, <1>2, <2>1
    <2> QED BY <2>1, <2>2, <2>3, <2>4
  <1> QED BY <1>3, <1>4 DEF SealedWhole

LEMMA NamesStay ==
    ASSUME HandoffTypeOK, KeyNamesOneDirective, RowsStay, admissions' = admissions
    PROVE  KeyNamesOneDirective'
  <1>1. \A key \in DOMAIN admissions : admissions[key].id \in Ids
    BY DEF HandoffTypeOK, Admission
  <1>2. \A j \in Ids : Protected(directives[j]) =>
            /\ Protected(directives'[j]) /\ body'[j] = body[j]
            /\ directives'[j].lane = directives[j].lane
    BY DEF RowsStay, Protected
  <1> QED BY <1>1, <1>2 DEF KeyNamesOneDirective

LEMMA TargetsStay ==
    ASSUME TypeOK, Targets, RowsStay, call' = call
    PROVE  Targets'
  <1>1. \A p \in Procs : call[p].op \in {"set_status", "defer", "unpark"} => call[p].id \in Ids
    BY DEF TypeOK, Calls, TableCalls, RowCalls, Idle
  <1>2. \A j \in Ids : Exists(directives[j]) /\ ~Protected(directives[j]) =>
                Exists(directives'[j]) /\ ~Protected(directives'[j])
    BY DEF RowsStay, Protected
  <1> QED BY <1>1, <1>2 DEF Targets

(***************************************************************************)
(* The steps of the queue.                                                 *)
(***************************************************************************)
LEMMA QueueStepStays ==
    ASSUME HandoffInv, [Next]_vars,
           \/ body' = body
           \/ \E b \in Bodies : body' = [i \in Ids |->
                    IF ~Exists(directives[i]) /\ Exists(directives'[i]) THEN b ELSE body[i]]
    PROVE  /\ TypeOK' /\ body' \in [Ids -> Bodies]
           /\ \E n \in 0..MaxId : FirstRows(directives', n)
           /\ RowsStay
           /\ TableMoves(directives, directives')
  <1>1. KeepsRows(directives, directives') \/ AddsRow(directives, directives')
    BY NextKeeps DEF HandoffInv
  <1>2. body' \in [Ids -> Bodies] /\ \A i \in Ids : Exists(directives[i]) => body'[i] = body[i]
    BY DEF HandoffInv, HandoffTypeOK
  <1>3. ASSUME NEW i \in Ids, Exists(directives[i])
        PROVE  /\ Exists(directives'[i])
               /\ directives'[i].policy = directives[i].policy
               /\ directives'[i].lane = directives[i].lane
    <2>1. CASE KeepsRows(directives, directives')
      BY <1>3, <2>1 DEF KeepsRows, Fixed
    <2>2. CASE AddsRow(directives, directives')
      <3>1. directives'[i] = directives[i]
        BY <1>3, <2>2 DEF AddsRow, IsNextId
      <3> QED BY <1>3, <3>1
    <2> QED BY <1>1, <2>1, <2>2
  <1>4. RowsStay
    BY <1>2, <1>3 DEF RowsStay
  <1>5. \E n \in 0..MaxId : FirstRows(directives', n)
    BY <1>1, FirstRowsNext DEF HandoffInv
  <1>6. TypeOK' /\ TableMoves(directives, directives')
    BY NextType, NextMoves DEF HandoffInv
  <1> QED BY <1>2, <1>4, <1>5, <1>6

LEMMA QueueTargets ==
    ASSUME TypeOK, Targets, KnownIds, [Next]_vars, RowsStay
    PROVE  Targets'
  <1>1. \A j \in Ids : Exists(directives[j]) /\ ~Protected(directives[j]) =>
                Exists(directives'[j]) /\ ~Protected(directives'[j])
    BY DEF RowsStay, Protected
  <1>2. ASSUME NEW p \in Procs, call'[p].op \in {"set_status", "defer", "unpark"}
        PROVE  Exists(directives'[call'[p].id]) /\ ~Protected(directives'[call'[p].id])
    <2>1. CASE call'[p].id = call[p].id /\ call'[p].op = call[p].op
      <3>1. call[p].id \in Ids
        BY <1>2, <2>1 DEF TypeOK, Calls, TableCalls, RowCalls, Idle
      <3> QED BY <1>1, <1>2, <2>1, <3>1 DEF Targets
    <2>2. CASE /\ call'[p].id \in Ids /\ directives' = directives
               /\ Exists(directives[call'[p].id])
               /\ ~Protected(directives[call'[p].id])
      BY <2>2
    <2> QED BY <1>2, <2>1, <2>2, CallTargets
  <1> QED BY <1>2 DEF Targets

\* What a step means to the invariant if it admits, seals and acknowledges
\* nothing: it is enough that rows stay and protected ones move as they may.
LEMMA RowsMoveInv ==
    ASSUME HandoffInv, TypeOK', body' \in [Ids -> Bodies], RowsStay, Targets',
           \E n \in 0..MaxId : FirstRows(directives', n),
           TableMoves(directives, directives'),
           UNCHANGED <<admissions, receipts, acks>>
    PROVE  HandoffInv'
  <1>1. HandoffTypeOK'
    BY DEF HandoffInv, HandoffTypeOK
  <1>2. ASSUME NEW i \in Ids
        PROVE  SettledRow(i)'
    <2>1. CASE Protected(directives[i])
      <3>1. SettledRow(i) /\ (i \in DOMAIN receipts' <=> i \in DOMAIN receipts)
        BY DEF HandoffInv
      <3>2. SoundRow(directives[i]) /\ RowMoves(directives[i], directives'[i])
        BY <2>1, <3>1 DEF SettledRow, SoundRow, TableMoves
      <3>3. CASE i \in DOMAIN receipts
        BY <2>1, <3>1, <3>2, <3>3 DEF SettledRow, RowMoves
      <3>4. CASE i \notin DOMAIN receipts
        <4>1. HeldRow(directives[i])
          BY <2>1, <3>1, <3>4 DEF SettledRow
        <4>2. HeldRow(directives'[i])
          BY <2>1, <3>2, <4>1 DEF HeldRow, RowMoves, Protected
        <4> QED BY <3>1, <3>4, <4>2 DEF SettledRow
      <3> QED BY <3>3, <3>4
    <2>2. CASE ~Protected(directives[i])
      <3>1. i \notin DOMAIN receipts'
        BY <2>2 DEF HandoffInv, SealedWhole
      <3>2. Protected(directives'[i]) => HeldRow(directives'[i])
        BY <2>2 DEF TableMoves
      <3> QED BY <3>1, <3>2 DEF SettledRow
    <2> QED BY <2>1, <2>2
  <1>3. ASSUME NEW i \in DOMAIN receipts
        PROVE  SealedWhole(i)'
    BY WholeStays DEF HandoffInv, KeysStay
  <1>4. KeyNamesOneDirective'
    BY NamesStay DEF HandoffInv
  <1>5. AcksAreSealed'
    BY DEF HandoffInv, AcksAreSealed
  <1>6. \A i \in DOMAIN receipts' : SealedWhole(i)'
    BY <1>3
  <1>7. \A i \in Ids : SettledRow(i)'
    BY <1>2
  <1> QED BY <1>1, <1>4, <1>5, <1>6, <1>7 DEF HandoffInv

LEMMA QueueStepInv ==
    ASSUME HandoffInv, KnownIds, [Next]_vars,
           \/ body' = body
           \/ \E b \in Bodies : body' = [i \in Ids |->
                    IF ~Exists(directives[i]) /\ Exists(directives'[i]) THEN b ELSE body[i]],
           UNCHANGED <<admissions, receipts, acks>>
    PROVE  HandoffInv'
  <1>1. /\ TypeOK' /\ body' \in [Ids -> Bodies] /\ RowsStay
        /\ \E n \in 0..MaxId : FirstRows(directives', n)
        /\ TableMoves(directives, directives')
    BY QueueStepStays
  <1>2. Targets'
    BY <1>1, QueueTargets DEF HandoffInv
  <1> QED BY <1>1, <1>2, RowsMoveInv

(***************************************************************************)
(* The steps that insert tasks.                                            *)
(***************************************************************************)
LEMMA InsertStays ==
    ASSUME HandoffInv, NEW s, WellFormed(s), Fits(s), InsertTasks(s),
           NEW parent \in Ids \cup {Null},
           \A j \in Ids : Fixed(DirectivesWith(s, parent)[j], directives'[j])
    PROVE  /\ RowsStay /\ KeysStay
           /\ KeyNamesOneDirective'
           /\ \A a \in NewTasks(s) :
                IdOf(s, a) \in Ids /\ Protected(directives'[IdOf(s, a)])
  <1> DEFINE e == DirectivesWith(s, parent)
  <1>0. TypeOK /\ HandoffTypeOK /\ KeyNamesOneDirective
    BY DEF HandoffInv
  <1>1. PICK n \in 0..MaxId : FirstRows(directives, n)
    BY DEF HandoffInv
  <1>2. /\ Inserted(s) \subseteq Ids
        /\ \A i \in Inserted(s) : ~Exists(directives[i])
        /\ \A a \in NewTasks(s) : IdOf(s, a) \in Inserted(s)
        /\ \A a, b \in NewTasks(s) : IdOf(s, a) = IdOf(s, b) => a = b
    BY <1>1, InsertedIds
  <1>3. /\ \A i \in Ids : i \notin Inserted(s) => e[i] = directives[i]
        /\ \A i \in Inserted(s) : Protected(e[i])
        /\ \A a \in NewTasks(s) :
                e[IdOf(s, a)] = Pending("hold", s[a].lane, s[a].priority, parent)
    <2>1. \A i \in Ids : i \notin Inserted(s) => e[i] = directives[i]
      BY DEF DirectivesWith
    <2>2. \A i \in Inserted(s) : Protected(e[i])
      BY <1>0, <1>1, InsertedRows
    <2>3. \A a \in NewTasks(s) :
                e[IdOf(s, a)] = Pending("hold", s[a].lane, s[a].priority, parent)
      BY <1>0, <1>1, InsertedRows
    <2> HIDE DEF e
    <2> QED BY <2>1, <2>2, <2>3
  <1>4. /\ \A i \in Ids : i \notin Inserted(s) => body'[i] = body[i]
        /\ DOMAIN admissions' = DOMAIN admissions \cup {s[a].key : a \in NewTasks(s)}
        /\ \A key \in DOMAIN admissions : admissions'[key] = admissions[key]
        /\ \A a \in NewTasks(s) :
                /\ s[a].key \notin DOMAIN admissions
                /\ admissions'[s[a].key] =
                        [id |-> IdOf(s, a), body |-> s[a].body,
                         lane |-> s[a].lane, priority |-> s[a].priority]
                /\ body'[IdOf(s, a)] = s[a].body
    <2>1. \A i \in Ids : i \notin Inserted(s) => body'[i] = body[i]
      BY <1>0, <1>1, InsertedKeys
    <2>2. DOMAIN admissions' = DOMAIN admissions \cup {s[a].key : a \in NewTasks(s)}
      BY DEF InsertTasks
    <2>3. \A key \in DOMAIN admissions : admissions'[key] = admissions[key]
      BY <1>0, <1>1, InsertedKeys
    <2>4. \A a \in NewTasks(s) : s[a].key \notin DOMAIN admissions
      BY <1>0, <1>1, InsertedKeys
    <2>5. \A a \in NewTasks(s) : admissions'[s[a].key] =
                        [id |-> IdOf(s, a), body |-> s[a].body,
                         lane |-> s[a].lane, priority |-> s[a].priority]
      BY <1>0, <1>1, InsertedKeys
    <2>6. \A a \in NewTasks(s) : body'[IdOf(s, a)] = s[a].body
      BY <1>0, <1>1, InsertedKeys
    <2> QED BY <2>1, <2>2, <2>3, <2>4, <2>5, <2>6
  <1>5. \A j \in Ids : Fixed(e[j], directives'[j])
    OBVIOUS
  <1> HIDE DEF e
  <1>6. RowsStay
    <2> SUFFICES ASSUME NEW i \in Ids, Exists(directives[i])
                 PROVE  /\ Exists(directives'[i])
                        /\ directives'[i].policy = directives[i].policy
                        /\ directives'[i].lane = directives[i].lane
                        /\ body'[i] = body[i]
      BY DEF RowsStay
    <2>1. i \notin Inserted(s)
      BY <1>2
    <2>2. e[i] = directives[i] /\ body'[i] = body[i]
      BY <1>3, <1>4, <2>1
    <2>3. Fixed(directives[i], directives'[i])
      BY <1>5, <2>2
    <2> QED BY <2>2, <2>3 DEF Fixed
  <1>7. KeysStay
    BY <1>4 DEF KeysStay
  <1>8. ASSUME NEW a \in NewTasks(s)
        PROVE  /\ IdOf(s, a) \in Ids /\ Protected(directives'[IdOf(s, a)])
               /\ directives'[IdOf(s, a)].lane = s[a].lane
    <2>1. IdOf(s, a) \in Ids /\ Fixed(e[IdOf(s, a)], directives'[IdOf(s, a)])
      BY <1>2, <1>5
    <2>2. Protected(e[IdOf(s, a)]) /\ e[IdOf(s, a)].lane = s[a].lane
      <3>1. Protected(e[IdOf(s, a)])
        BY <1>2, <1>3
      <3>2. e[IdOf(s, a)] = Pending("hold", s[a].lane, s[a].priority, parent)
        BY <1>3
      <3>3. Pending("hold", s[a].lane, s[a].priority, parent).lane = s[a].lane
        BY DEF Pending
      <3> QED BY <3>1, <3>2, <3>3
    <2> QED BY <2>1, <2>2 DEF Fixed, Protected
  <1>9. ASSUME NEW key \in DOMAIN admissions
        PROVE  /\ admissions[key].id \in Ids /\ Exists(directives[admissions[key].id])
               /\ Protected(directives'[admissions[key].id])
               /\ body'[admissions[key].id] = admissions[key].body
               /\ directives'[admissions[key].id].lane = admissions[key].lane
               /\ \A other \in DOMAIN admissions \ {key} :
                        admissions[other].id # admissions[key].id
    <2>1. admissions[key].id \in Ids
      BY <1>0 DEF HandoffTypeOK, Admission
    <2> QED BY <1>0, <1>6, <2>1 DEF KeyNamesOneDirective, RowsStay, Protected
  <1>13. ASSUME NEW a \in NewTasks(s)
         PROVE  /\ admissions'[s[a].key].id = IdOf(s, a)
                /\ admissions'[s[a].key].body = s[a].body
                /\ admissions'[s[a].key].lane = s[a].lane
    <2>1. admissions'[s[a].key] = [id |-> IdOf(s, a), body |-> s[a].body,
                                   lane |-> s[a].lane, priority |-> s[a].priority]
      BY <1>4
    <2> QED BY <2>1
  <1>14. \A a \in NewTasks(s) : ~Exists(directives[IdOf(s, a)])
    BY <1>2
  <1>10. ASSUME NEW key \in DOMAIN admissions'
         PROVE  LET r == admissions'[key]
                IN  /\ Protected(directives'[r.id])
                    /\ body'[r.id] = r.body
                    /\ directives'[r.id].lane = r.lane
                    /\ \A other \in DOMAIN admissions' \ {key} : admissions'[other].id # r.id
    <2>1. CASE key \in DOMAIN admissions
      <3>1. ASSUME NEW other \in DOMAIN admissions' \ {key}
            PROVE  admissions'[other].id # admissions[key].id
        <4>1. CASE other \in DOMAIN admissions
          <5>1. admissions[other].id # admissions[key].id
            BY <1>9, <2>1, <4>1
          <5> QED BY <1>4, <4>1, <5>1
        <4>2. CASE other \notin DOMAIN admissions
          <5>1. PICK b \in NewTasks(s) : other = s[b].key
            BY <1>4, <4>2
          <5>2. Exists(directives[admissions[key].id]) /\ ~Exists(directives[IdOf(s, b)])
            BY <1>9, <1>14, <2>1
          <5> QED BY <1>13, <5>1, <5>2
        <4> QED BY <4>1, <4>2
      <3> QED BY <1>4, <1>9, <2>1, <3>1
    <2>2. CASE key \notin DOMAIN admissions
      <3>1. PICK a \in NewTasks(s) : key = s[a].key
        BY <1>4, <2>2
      <3>2. ASSUME NEW other \in DOMAIN admissions' \ {key}
            PROVE  admissions'[other].id # IdOf(s, a)
        <4>1. CASE other \in DOMAIN admissions
          <5>1. Exists(directives[admissions[other].id]) /\ ~Exists(directives[IdOf(s, a)])
            BY <1>9, <1>14, <4>1
          <5> QED BY <1>4, <4>1, <5>1
        <4>2. CASE other \notin DOMAIN admissions
          <5>1. PICK b \in NewTasks(s) : other = s[b].key
            BY <1>4, <4>2
          <5>2. a # b
            BY <3>1, <5>1
          <5>3. IdOf(s, b) # IdOf(s, a)
            BY <1>2, <5>2
          <5> QED BY <1>13, <5>1, <5>3
        <4> QED BY <4>1, <4>2
      <3>3. /\ admissions'[key].id = IdOf(s, a)
            /\ admissions'[key].body = s[a].body
            /\ admissions'[key].lane = s[a].lane
        BY <1>13, <3>1
      <3>4. body'[IdOf(s, a)] = s[a].body
        BY <1>4
      <3> QED BY <1>8, <3>2, <3>3, <3>4
    <2> QED BY <2>1, <2>2
  <1>11. KeyNamesOneDirective'
    BY <1>10 DEF KeyNamesOneDirective
  <1> QED BY <1>6, <1>7, <1>8, <1>11

LEMMA SingleTask ==
    ASSUME NEW t \in Tasks
    PROVE  WellFormed(<<t>>) /\ DOMAIN <<t>> = {1} /\ <<t>>[1] = t
  BY DEF WellFormed

LEMMA InsertRootInv ==
    ASSUME HandoffInv, NEW t \in Tasks, Fits(<<t>>), InsertTasks(<<t>>),
           Commit(DirectivesWith(<<t>>, Null)),
           UNCHANGED <<issued, call, granted, receipts, acks>>
    PROVE  HandoffInv'
  <1> DEFINE s == <<t>>
             e == DirectivesWith(s, Null)
  <1>1. WellFormed(s)
    BY SingleTask
  <1>2. Fits(s) /\ InsertTasks(s) /\ Commit(e)
        /\ UNCHANGED <<issued, call, granted, receipts, acks>>
    OBVIOUS
  <1>0. TypeOK /\ HandoffTypeOK /\ Targets
    BY DEF HandoffInv
  <1>3. PICK n \in 0..MaxId : FirstRows(directives, n)
    BY DEF HandoffInv
  <1> HIDE DEF s
  <1>4. /\ e \in Table
        /\ \A i \in Ids : i \notin Inserted(s) => e[i] = directives[i]
        /\ \A i \in Inserted(s) : e[i].status = "pending" /\ e[i].token = Null
        /\ \E m \in 0..MaxId : FirstRows(e, m)
    BY <1>0, <1>1, <1>2, <1>3, InsertedRows
  <1>5. \A i \in Inserted(s) : ~Exists(directives[i])
    BY <1>1, <1>2, <1>3, InsertedIds
  <1>6. /\ body' \in [Ids -> Bodies]
        /\ DOMAIN admissions' \subseteq Keys
        /\ \A key \in DOMAIN admissions' : admissions'[key] \in Admission
    BY <1>0, <1>1, <1>2, <1>3, InsertedKeys
  <1>7. directives' = e
    BY <1>2 DEF Commit
  <1> HIDE DEF e
  <1>8. RowsStay /\ KeysStay /\ KeyNamesOneDirective'
    <2>1. \A j \in Ids : Fixed(e[j], directives'[j])
      BY <1>7 DEF Fixed
    <2> QED BY <1>1, <1>2, <2>1, InsertStays DEF e
  <1>9. TypeOK'
    BY <1>0, <1>2, <1>4, CommitType DEF TypeOK
  <1>10. HandoffTypeOK'
    BY <1>0, <1>2, <1>6 DEF HandoffTypeOK
  <1>11. Targets'
    BY <1>0, <1>2, <1>8, TargetsStay
  <1>12. ASSUME NEW i \in Ids
         PROVE  SettledRow(i)'
    <2>1. CASE i \in Inserted(s)
      <3>1. i \notin DOMAIN receipts
        BY <1>5, <2>1 DEF HandoffInv, SealedWhole, Protected
      <3> QED BY <1>2, <1>4, <1>7, <2>1, <3>1 DEF SettledRow, HeldRow
    <2>2. CASE i \notin Inserted(s)
      BY <1>2, <1>4, <1>7, <2>2 DEF HandoffInv, SettledRow
    <2> QED BY <2>1, <2>2
  <1>13. \A i \in DOMAIN receipts' : SealedWhole(i)'
    <2>1. ASSUME NEW i \in DOMAIN receipts
          PROVE  SealedWhole(i)'
      BY <1>0, <1>2, <1>8, WholeStays DEF HandoffInv
    <2> QED BY <1>2, <2>1
  <1>14. AcksAreSealed'
    BY <1>2 DEF HandoffInv, AcksAreSealed
  <1>15. \A i \in Ids : SettledRow(i)'
    BY <1>12
  <1>16. \E m \in 0..MaxId : FirstRows(directives', m)
    BY <1>4, <1>7
  <1> QED BY <1>8, <1>9, <1>10, <1>11, <1>13, <1>14, <1>15, <1>16 DEF HandoffInv

LEMMA AdmitRootInv ==
    ASSUME HandoffInv, NEW t \in Roots, AdmitRoot(t)
    PROVE  HandoffInv'
  BY InsertRootInv, HandoffAssumption DEF AdmitRoot

\* A repeated handoff, answered from its receipt.
LEMMA ReplayInv ==
    ASSUME HandoffInv, NEW i \in Ids, NEW k \in 1..issued, NEW m \in Manifests,
           Replay(i, k, m)
    PROVE  HandoffInv'
  <1>0. TypeOK /\ HandoffTypeOK /\ Targets
    BY DEF HandoffInv
  <1>1. /\ i \in DOMAIN receipts /\ receipts[i].token = k /\ receipts[i].manifest = m
        /\ acks' \in {acks, acks \cup {[id |-> i, token |-> k, manifest |-> m]}}
        /\ Commit(directives)
        /\ UNCHANGED <<issued, call, granted, body, admissions, receipts>>
    BY DEF Replay, Sealed, Reply
  <1>2. directives' = directives
    BY <1>1 DEF Commit
  <1>3. TypeOK'
    BY <1>0, <1>1, CommitType, ReadingType DEF TypeOK
  <1>4. k \in Tokens
    BY <1>0, QueueAssumption DEF TypeOK, Tokens
  <1>5. [id |-> i, token |-> k, manifest |-> m] \in [id : Ids, token : Tokens, manifest : Manifests]
    BY <1>4
  <1>6. HandoffTypeOK'
    BY <1>0, <1>1, <1>5 DEF HandoffTypeOK
  <1>7. AcksAreSealed'
    BY <1>1 DEF HandoffInv, AcksAreSealed
  <1>8. Targets'
    BY <1>0, <1>1, <1>2 DEF Targets
  <1>9. receipts' = receipts /\ body' = body /\ admissions' = admissions
    BY <1>1
  <1>10. (\A j \in Ids : SettledRow(j))'
    BY <1>2, <1>9 DEF HandoffInv, SettledRow, HeldRow
  <1>11. ASSUME NEW j \in DOMAIN receipts
         PROVE  SealedWhole(j)'
    <2>1. SealedWhole(j)
      BY DEF HandoffInv
    <2> QED BY <1>2, <1>9, <2>1 DEF SealedWhole, Recorded
  <1>12. KeyNamesOneDirective'
    BY <1>2, <1>9 DEF HandoffInv, KeyNamesOneDirective
  <1>13. (\E n \in 0..MaxId : FirstRows(directives, n))'
    BY <1>2 DEF HandoffInv, FirstRows
  <1> QED BY <1>3, <1>6, <1>7, <1>8, <1>9, <1>10, <1>11, <1>12,
         <1>13 DEF HandoffInv

LEMMA CompletedRow ==
    ASSUME NEW r \in Directive, Exists(r)
    PROVE  /\ Completed(r) \in Directive
           /\ Fixed(r, Completed(r))
           /\ Completed(r).status = "done"
  BY DEF Completed, Directive, Fixed, Exists, Null, Statuses, Terminal

\* The transaction of a handoff, taken apart.
LEMMA CompleteFacts ==
    ASSUME HandoffInv, NEW i \in Ids, NEW k \in 1..issued, NEW m \in Manifests,
           Complete(i, k, m)
    PROVE  LET s == m.successors
               e == DirectivesWith(s, i)
           IN  /\ WellFormed(s) /\ Fits(s) /\ InsertTasks(s) /\ Agrees(s)
               /\ i \notin DOMAIN receipts /\ i \notin Inserted(s)
               /\ Protected(directives[i]) /\ body[i] = m.input
               /\ directives[i].token = k /\ k \in Tokens
               /\ Commit([e EXCEPT ![i] = Completed(e[i])])
               /\ e[i] = directives[i]
               /\ receipts' = [j \in DOMAIN receipts \cup {i} |->
                    IF j = i THEN [token |-> k, manifest |-> m,
                                   successor_ids |-> [n \in DOMAIN s |-> IdOf(s, n)]]
                    ELSE receipts[j]]
               /\ Reply(i, k, m)
               /\ granted' = [granted EXCEPT ![k] = Null]
               /\ UNCHANGED <<issued, call>>
  <1> DEFINE s == m.successors
             e == DirectivesWith(s, i)
  <1>1. PICK u \in LockedReading :
            /\ Agrees(s) /\ Fits(s) /\ InsertTasks(s)
            /\ HoldsClaim(directives[i], k, u)
            /\ Commit(Finished(e, i, k, u))
            /\ receipts' = [j \in DOMAIN receipts \cup {i} |->
                    IF j = i THEN [token |-> k, manifest |-> m,
                                   successor_ids |-> [n \in DOMAIN s |-> IdOf(s, n)]]
                    ELSE receipts[j]]
    BY Zenon DEF Complete, Finishable
  <1>2. WellFormed(s)
    BY HandoffAssumption DEF Parses, WellFormed
  <1>3. PICK n \in 0..MaxId : FirstRows(directives, n)
    BY DEF HandoffInv
  <1>4. i \notin Inserted(s)
    <2>1. Exists(directives[i])
      BY <1>1 DEF HoldsClaim, Exists
    <2>2. \A j \in Inserted(s) : ~Exists(directives[j])
      BY <1>1, <1>2, <1>3, InsertedIds
    <2> QED BY <2>1, <2>2
  <1>5. e[i] = directives[i]
    BY <1>4 DEF DirectivesWith
  <1>6. k \in Tokens /\ directives[i].token = k
    BY <1>1, QueueAssumption DEF HandoffInv, TypeOK, Tokens, HoldsClaim
  <1>7. Commit([e EXCEPT ![i] = Completed(e[i])])
    <2> HIDE DEF e
    <2> QED BY <1>1, <1>5 DEF Finished
  <1>8. /\ i \notin DOMAIN receipts /\ Protected(directives[i]) /\ body[i] = m.input
        /\ Reply(i, k, m) /\ granted' = [granted EXCEPT ![k] = Null]
        /\ UNCHANGED <<issued, call>>
    BY DEF Complete, ExactInput
  <1> HIDE DEF e, s
  <1>9. QED
    BY <1>1, <1>2, <1>4, <1>5, <1>6, <1>7, <1>8 DEF e, s

LEMMA IdOfType ==
    ASSUME HandoffInv, NEW s, WellFormed(s), Fits(s)
    PROVE  [n \in DOMAIN s |-> IdOf(s, n)] \in Seq(Ids)
  <1>1. DOMAIN s = 1..Len(s) /\ Len(s) \in Nat
    BY DEF WellFormed
  <1>2. PICK n \in 0..MaxId : FirstRows(directives, n)
    BY DEF HandoffInv
  <1>3. ASSUME NEW a \in DOMAIN s
        PROVE  IdOf(s, a) \in Ids
    <2>1. CASE a \in NewTasks(s)
      BY <1>2, <2>1, InsertedIds
    <2>2. CASE a \notin NewTasks(s)
      <3>1. s[a].key \in DOMAIN admissions /\ IdOf(s, a) = admissions[s[a].key].id
        BY <2>2 DEF NewTasks, IdOf
      <3> QED BY <3>1 DEF HandoffInv, HandoffTypeOK, Admission
    <2> QED BY <2>1, <2>2
  <1> DEFINE f == [a \in 1..Len(s) |-> IdOf(s, a)]
  <1>4. f \in [1..Len(s) -> Ids]
    BY <1>1, <1>3
  <1>5. f \in Seq(Ids)
    <2> HIDE DEF f
    <2> QED BY <1>1, <1>4, SeqDef
  <1> QED BY <1>1, <1>5

LEMMA CompleteInv ==
    ASSUME HandoffInv, NEW i \in Ids, NEW k \in 1..issued, NEW m \in Manifests,
           Complete(i, k, m)
    PROVE  HandoffInv'
  <1> DEFINE s == m.successors
             e == DirectivesWith(s, i)
             ids == [n \in DOMAIN s |-> IdOf(s, n)]
  <1>0. TypeOK /\ HandoffTypeOK /\ Targets /\ AcksAreSealed
    BY DEF HandoffInv
  <1>1. /\ WellFormed(s) /\ Fits(s) /\ InsertTasks(s) /\ Agrees(s)
        /\ i \notin DOMAIN receipts /\ i \notin Inserted(s)
        /\ Protected(directives[i]) /\ body[i] = m.input
        /\ k \in Tokens
        /\ Commit([e EXCEPT ![i] = Completed(e[i])])
        /\ e[i] = directives[i]
    BY CompleteFacts
  <1>2. /\ DOMAIN receipts' = DOMAIN receipts \cup {i}
        /\ \A j \in DOMAIN receipts : receipts'[j] = receipts[j]
        /\ receipts'[i] = [token |-> k, manifest |-> m, successor_ids |-> ids]
    <2>1. receipts' = [j \in DOMAIN receipts \cup {i} |->
                    IF j = i THEN [token |-> k, manifest |-> m, successor_ids |-> ids]
                    ELSE receipts[j]]
      BY Zenon DEF Complete
    <2> HIDE DEF ids
    <2> QED BY <1>1, <2>1
  <1>3. /\ acks' \in {acks, acks \cup {[id |-> i, token |-> k, manifest |-> m]}}
        /\ granted' = [granted EXCEPT ![k] = Null]
        /\ UNCHANGED <<issued, call>>
    BY CompleteFacts DEF Reply
  <1>4. ids \in Seq(Ids)
    BY <1>1, IdOfType
  <1>5. PICK n \in 0..MaxId : FirstRows(directives, n)
    BY DEF HandoffInv
  <1>6. \A a \in DOMAIN s : ids[a] = IdOf(s, a)
    OBVIOUS
  <1> HIDE DEF s, ids
  <1>7. /\ e \in Table
        /\ \A j \in Ids : j \notin Inserted(s) => e[j] = directives[j]
        /\ \A j \in Inserted(s) : e[j].status = "pending" /\ e[j].token = Null
        /\ \E q \in 0..MaxId : FirstRows(e, q)
    BY <1>0, <1>1, <1>5, InsertedRows
  <1>8. \A j \in Inserted(s) : ~Exists(directives[j])
    BY <1>1, <1>5, InsertedIds
  <1>9. /\ body' \in [Ids -> Bodies]
        /\ DOMAIN admissions' \subseteq Keys
        /\ \A key \in DOMAIN admissions' : admissions'[key] \in Admission
    BY <1>0, <1>1, <1>5, InsertedKeys
  <1> HIDE DEF e
  <1>10. directives' = [e EXCEPT ![i] = Completed(e[i])]
    BY <1>1 DEF Commit
  <1>11. /\ Completed(e[i]) \in Directive /\ Fixed(e[i], Completed(e[i]))
         /\ Completed(e[i]).status = "done"
    <2>1. e[i] \in Directive /\ Exists(e[i])
      BY <1>1, <1>7 DEF Table, Protected
    <2> QED BY <2>1, CompletedRow
  <1>12. /\ directives'[i] = Completed(e[i])
         /\ \A j \in Ids \ {i} : directives'[j] = e[j]
    BY <1>7, <1>10 DEF Table
  <1>13. \A j \in Ids : Fixed(e[j], directives'[j])
    <2>1. \A r : Fixed(r, r)
      BY DEF Fixed
    <2> QED BY <1>11, <1>12, <2>1
  <1>14. /\ RowsStay /\ KeysStay /\ KeyNamesOneDirective'
         /\ \A a \in NewTasks(s) :
                IdOf(s, a) \in Ids /\ Protected(directives'[IdOf(s, a)])
    BY <1>1, <1>13, InsertStays DEF e
  <1>15. TypeOK'
    <2>1. [e EXCEPT ![i] = Completed(e[i])] \in Table
      BY <1>7, <1>11, WriteType
    <2> QED BY <1>0, <1>1, <1>3, <2>1, CommitType DEF TypeOK, Null
  <1>16. HandoffTypeOK'
    <2>1. [token |-> k, manifest |-> m, successor_ids |-> ids] \in Receipt
      BY <1>1, <1>4 DEF Receipt
    <2>2. \A j \in DOMAIN receipts' : receipts'[j] \in Receipt
      BY <1>0, <1>2, <2>1 DEF HandoffTypeOK
    <2>3. [id |-> i, token |-> k, manifest |-> m]
                \in [id : Ids, token : Tokens, manifest : Manifests]
      BY <1>1
    <2> QED BY <1>0, <1>2, <1>3, <1>9, <2>2, <2>3 DEF HandoffTypeOK
  <1>17. Targets'
    BY <1>0, <1>3, <1>14, TargetsStay
  <1>18. ASSUME NEW j \in Ids
         PROVE  SettledRow(j)'
    <2>1. CASE j = i
      BY <1>2, <1>11, <1>12, <2>1 DEF SettledRow
    <2>2. CASE j \in Inserted(s)
      <3>1. j \notin DOMAIN receipts /\ j # i
        BY <1>1, <1>8, <2>2 DEF HandoffInv, SealedWhole, Protected
      <3>2. HeldRow(directives'[j])
        BY <1>7, <1>12, <2>2, <3>1 DEF HeldRow
      <3> QED BY <1>2, <3>1, <3>2 DEF SettledRow
    <2>3. CASE j # i /\ j \notin Inserted(s)
      <3>1. directives'[j] = directives[j] /\ (j \in DOMAIN receipts' <=> j \in DOMAIN receipts)
        BY <1>2, <1>7, <1>12, <2>3
      <3> QED BY <3>1 DEF HandoffInv, SettledRow
    <2> QED BY <2>1, <2>2, <2>3
  <1>19. ASSUME NEW j \in DOMAIN receipts
         PROVE  SealedWhole(j)'
    BY <1>0, <1>2, <1>14, WholeStays DEF HandoffInv
  <1>20. ASSUME NEW a \in DOMAIN s
         PROVE  /\ s[a].key \in DOMAIN admissions'
                /\ admissions'[s[a].key].id = ids[a]
                /\ Recorded(s[a].key)' = Fingerprint(s[a])
                /\ Protected(directives'[ids[a]])
    <2>1. CASE a \in NewTasks(s)
      <3>1. /\ s[a].key \in DOMAIN admissions'
            /\ admissions'[s[a].key] =
                    [id |-> IdOf(s, a), body |-> s[a].body,
                     lane |-> s[a].lane, priority |-> s[a].priority]
        <4>1. s[a].key \in DOMAIN admissions'
          BY <1>1, <2>1 DEF InsertTasks
        <4>2. admissions'[s[a].key] =
                    [id |-> IdOf(s, a), body |-> s[a].body,
                     lane |-> s[a].lane, priority |-> s[a].priority]
          BY <1>0, <1>1, <1>5, <2>1, InsertedKeys
        <4> QED BY <4>1, <4>2
      <3>2. Recorded(s[a].key)' = Fingerprint(s[a])
        BY <3>1 DEF Recorded, Fingerprint
      <3> QED BY <1>6, <1>14, <2>1, <3>1, <3>2
    <2>2. CASE a \notin NewTasks(s)
      <3>1. s[a].key \in DOMAIN admissions /\ IdOf(s, a) = admissions[s[a].key].id
        BY <2>2 DEF NewTasks, IdOf
      <3>2. s[a].key \in DOMAIN admissions' /\ admissions'[s[a].key] = admissions[s[a].key]
        BY <1>14, <3>1 DEF KeysStay
      <3>3. Recorded(s[a].key)' = Fingerprint(s[a])
        BY <1>1, <3>1, <3>2 DEF Agrees, Recorded
      <3>4. admissions'[s[a].key].id = ids[a]
        BY <1>6, <3>1, <3>2
      <3>5. Protected(directives'[admissions'[s[a].key].id])
        BY <1>14, <3>2 DEF KeyNamesOneDirective
      <3> QED BY <3>2, <3>3, <3>4, <3>5
    <2> QED BY <2>1, <2>2
  <1>21. SealedWhole(i)'
    <2>1. receipts'[i].manifest = m /\ receipts'[i].successor_ids = ids
      BY <1>2
    <2>2. Protected(directives'[i])
      BY <1>1, <1>11, <1>12 DEF Fixed, Protected
    <2>3. m.input = body'[i]
      BY <1>1, <1>14 DEF RowsStay, Protected
    <2>4. m.successors = s
      BY DEF s
    <2> QED BY <1>20, <2>1, <2>2, <2>3, <2>4 DEF SealedWhole
  <1>22. \A j \in DOMAIN receipts' : SealedWhole(j)'
    BY <1>2, <1>19, <1>21
  <1>23. AcksAreSealed'
    <2>1. ASSUME NEW a \in acks'
          PROVE  /\ a.id \in DOMAIN receipts'
                 /\ receipts'[a.id].token = a.token
                 /\ receipts'[a.id].manifest = a.manifest
      <3>1. CASE a \in acks
        BY <1>0, <1>2, <3>1 DEF AcksAreSealed
      <3>2. CASE a = [id |-> i, token |-> k, manifest |-> m]
        BY <1>2, <3>2
      <3> QED BY <1>3, <3>1, <3>2
    <2> QED BY <2>1 DEF AcksAreSealed
  <1>24. \A j \in Ids : SettledRow(j)'
    BY <1>18
  <1>25. \E q \in 0..MaxId : FirstRows(directives', q)
    <2>1. \A j \in Ids : Exists(directives'[j]) <=> Exists(e[j])
      BY <1>13 DEF Fixed
    <2> QED BY <1>7, <2>1 DEF FirstRows
  <1> QED BY <1>14, <1>15, <1>16, <1>17, <1>22, <1>23, <1>24, <1>25 DEF HandoffInv

LEMMA HandoffInductive ==
    ASSUME HandoffInv, KnownIds, [HandoffNext]_hvars
    PROVE  HandoffInv'
  <1>1. ASSUME NEW t \in Roots, AdmitRoot(t)
        PROVE  HandoffInv'
    BY <1>1, AdmitRootInv
  <1>2. ASSUME NEW i \in Ids, NEW k \in 1..issued, NEW m \in Manifests,
               Replay(i, k, m) \/ Complete(i, k, m)
        PROVE  HandoffInv'
    BY <1>2, ReplayInv, CompleteInv
  <1>3. CASE QueueStep
    <2>1. [Next]_vars /\ UNCHANGED <<admissions, receipts, acks>>
      BY <1>3 DEF QueueStep
    <2>2. \/ body' = body
          \/ \E b \in Bodies : body' = [i \in Ids |->
                IF ~Exists(directives[i]) /\ Exists(directives'[i]) THEN b ELSE body[i]]
      <3> DEFINE new == {i \in Ids : ~Exists(directives[i]) /\ Exists(directives'[i])}
      <3>1. \/ body' = body
            \/ \E b \in Bodies : body' = [i \in Ids |-> IF i \in new THEN b ELSE body[i]]
        BY <1>3, Zenon DEF QueueStep
      <3>2. ASSUME NEW b
            PROVE  [i \in Ids |-> IF i \in new THEN b ELSE body[i]] =
                   [i \in Ids |-> IF ~Exists(directives[i]) /\ Exists(directives'[i])
                                  THEN b ELSE body[i]]
        OBVIOUS
      <3> HIDE DEF new
      <3> QED BY <3>1, <3>2
    <2> QED BY <2>1, <2>2, QueueStepInv
  <1>4. CASE UNCHANGED hvars
    BY <1>4, QueueStepInv DEF hvars, own
  <1> QED BY <1>1, <1>2, <1>3, <1>4 DEF HandoffNext

LEMMA HandoffInvariant == KnownIds => (HandoffSpec => []HandoffInv)
  <1> SUFFICES ASSUME KnownIds PROVE HandoffSpec => []HandoffInv
    OBVIOUS
  <1>1. HandoffInv /\ [HandoffNext]_hvars => HandoffInv'
    BY HandoffInductive
  <1> QED BY <1>1, HandoffInitInv, PTL DEF HandoffSpec

-----------------------------------------------------------------------------
(***************************************************************************)
(* What a step leaves of the rest, for the properties of steps.            *)
(***************************************************************************)
\* At most a row without a claim is inserted.
OnlyInserts(i) ==
    \/ directives'[i] = directives[i]
    \/ ~Exists(directives[i]) /\ directives'[i].token = Null

LEMMA InsertEffect ==
    ASSUME HandoffInv, NEW s, WellFormed(s), Fits(s), InsertTasks(s),
           NEW parent \in Ids \cup {Null}
    PROVE  /\ KeysStay
           /\ \A i \in Ids : \/ DirectivesWith(s, parent)[i] = directives[i]
                             \/ /\ ~Exists(directives[i])
                                /\ DirectivesWith(s, parent)[i].token = Null
  <1>1. PICK n \in 0..MaxId : FirstRows(directives, n)
    BY DEF HandoffInv
  <1>2. HandoffTypeOK /\ TypeOK
    BY DEF HandoffInv
  <1>3. KeysStay
    <2>1. DOMAIN admissions' = DOMAIN admissions \cup {s[a].key : a \in NewTasks(s)}
      BY DEF InsertTasks
    <2>2. \A key \in DOMAIN admissions : admissions'[key] = admissions[key]
      BY <1>1, <1>2, InsertedKeys
    <2> QED BY <2>1, <2>2 DEF KeysStay
  <1>4. \A i \in Inserted(s) : ~Exists(directives[i])
    BY <1>1, InsertedIds
  <1>5. /\ \A i \in Ids : i \notin Inserted(s) => DirectivesWith(s, parent)[i] = directives[i]
        /\ \A i \in Inserted(s) : DirectivesWith(s, parent)[i].token = Null
    <2> DEFINE e == DirectivesWith(s, parent)
    <2>1. /\ \A i \in Ids : i \notin Inserted(s) => e[i] = directives[i]
          /\ \A i \in Inserted(s) : e[i].token = Null
      BY <1>1, <1>2, InsertedRows
    <2> QED BY <2>1
  <1> QED BY <1>3, <1>4, <1>5

LEMMA AdmitEffect ==
    ASSUME HandoffInv, NEW t \in Roots, AdmitRoot(t)
    PROVE  /\ KeysStay /\ \A i \in Ids : OnlyInserts(i)
           /\ now' = now /\ UNCHANGED <<issued, granted, receipts>>
  <1> DEFINE s == <<t>>
  <1>1. WellFormed(s)
    BY SingleTask, HandoffAssumption
  <1>2. /\ Fits(s) /\ InsertTasks(s) /\ Commit(DirectivesWith(s, Null))
        /\ UNCHANGED <<issued, granted, receipts>>
    BY DEF AdmitRoot
  <1> HIDE DEF s
  <1>3. /\ KeysStay
        /\ \A i \in Ids : \/ DirectivesWith(s, Null)[i] = directives[i]
                          \/ /\ ~Exists(directives[i])
                             /\ DirectivesWith(s, Null)[i].token = Null
    BY <1>1, <1>2, InsertEffect
  <1> QED BY <1>2, <1>3 DEF Commit, OnlyInserts

LEMMA CompleteEffect ==
    ASSUME HandoffInv, NEW j \in Ids, NEW k \in 1..issued, NEW m \in Manifests,
           Complete(j, k, m)
    PROVE  /\ KeysStay
           /\ \A i \in Ids \ {j} : OnlyInserts(i)
           /\ directives[j].token = k /\ directives'[j].token = Null
           /\ j \notin DOMAIN receipts /\ DOMAIN receipts' = DOMAIN receipts \cup {j}
           /\ receipts'[j].token = k
           /\ \A i \in DOMAIN receipts : receipts'[i] = receipts[i]
           /\ now' = now /\ issued' = issued /\ granted' = [granted EXCEPT ![k] = Null]
  <1> DEFINE s == m.successors
             e == DirectivesWith(s, j)
  <1>1. /\ WellFormed(s) /\ Fits(s) /\ InsertTasks(s)
        /\ j \notin DOMAIN receipts /\ directives[j].token = k
        /\ Protected(directives[j]) /\ e[j] = directives[j]
        /\ Commit([e EXCEPT ![j] = Completed(e[j])])
        /\ granted' = [granted EXCEPT ![k] = Null] /\ issued' = issued
    BY CompleteFacts
  <1>2. receipts' = [q \in DOMAIN receipts \cup {j} |->
                IF q = j THEN [token |-> k, manifest |-> m,
                               successor_ids |-> [n \in DOMAIN s |-> IdOf(s, n)]]
                ELSE receipts[q]]
    BY Zenon DEF Complete
  <1> HIDE DEF s
  <1>3. /\ KeysStay
        /\ \A i \in Ids : \/ e[i] = directives[i]
                          \/ ~Exists(directives[i]) /\ e[i].token = Null
    BY <1>1, InsertEffect
  <1>4. DOMAIN e = Ids
    BY DEF DirectivesWith
  <1> HIDE DEF e
  <1>5. /\ \A i \in Ids \ {j} : directives'[i] = e[i]
        /\ directives'[j] = Completed(directives[j]) /\ now' = now
    BY <1>1, <1>4 DEF Commit
  <1>6. \A x, y : [token |-> k, manifest |-> x, successor_ids |-> y].token = k
    OBVIOUS
  <1>7. directives'[j].token = Null
    <2>1. directives[j] \in Directive
      BY DEF HandoffInv, TypeOK
    <2> QED BY <1>5, <2>1 DEF Completed, Directive
  <1>8. \A i \in Ids \ {j} : OnlyInserts(i)
    BY <1>3, <1>5 DEF OnlyInserts
  <1>9. /\ DOMAIN receipts' = DOMAIN receipts \cup {j} /\ receipts'[j].token = k
        /\ \A i \in DOMAIN receipts : receipts'[i] = receipts[i]
    BY <1>1, <1>2, <1>6
  <1> QED BY <1>1, <1>3, <1>5, <1>7, <1>8, <1>9

Seals ==
    \A i \in Ids :
        /\ Protected(directives[i]) /\ directives[i].token # Null =>
            \/ directives'[i].token = directives[i].token
            \/ /\ i \in DOMAIN receipts' \ DOMAIN receipts
               /\ receipts'[i].token = directives[i].token
        /\ i \in DOMAIN receipts =>
            /\ i \in DOMAIN receipts' /\ receipts'[i] = receipts[i]
            /\ directives'[i].status = "done"

LEMMA StepSeals ==
    ASSUME HandoffInv, HandoffInv', [HandoffNext]_hvars
    PROVE  Seals
  <1> SUFFICES ASSUME NEW i \in Ids
               PROVE  /\ Protected(directives[i]) /\ directives[i].token # Null =>
                          \/ directives'[i].token = directives[i].token
                          \/ /\ i \in DOMAIN receipts' \ DOMAIN receipts
                             /\ receipts'[i].token = directives[i].token
                      /\ i \in DOMAIN receipts =>
                          i \in DOMAIN receipts' /\ receipts'[i] = receipts[i]
    <2>1. ASSUME NEW i \in DOMAIN receipts'
          PROVE  directives'[i].status = "done"
      <3>1. i \in Ids /\ SealedWhole(i)' /\ SettledRow(i)'
        BY DEF HandoffInv, HandoffTypeOK
      <3> QED BY <3>1 DEF SealedWhole, SettledRow
    <2> QED BY <2>1 DEF Seals
  <1>1. CASE [Next]_vars /\ UNCHANGED receipts
    <2>1. TableMoves(directives, directives') /\ SettledRow(i)
      BY <1>1, NextMoves DEF HandoffInv
    <2>2. Protected(directives[i]) => RowMoves(directives[i], directives'[i])
      BY <2>1 DEF TableMoves, SettledRow, SoundRow
    <2> QED BY <1>1, <2>1, <2>2 DEF RowMoves, SettledRow, HeldRow, Protected
  <1>2. ASSUME NEW t \in Roots, AdmitRoot(t)
        PROVE  UNCHANGED receipts /\ (Exists(directives[i]) => directives'[i] = directives[i])
    BY <1>2, AdmitEffect DEF OnlyInserts
  <1>3. ASSUME NEW j \in Ids, NEW k \in 1..issued, NEW m \in Manifests, Complete(j, k, m)
        PROVE  /\ j \notin DOMAIN receipts /\ directives[j].token = k
               /\ DOMAIN receipts' = DOMAIN receipts \cup {j}
               /\ receipts'[j].token = k
               /\ i \in DOMAIN receipts => receipts'[i] = receipts[i]
               /\ i # j /\ Exists(directives[i]) => directives'[i] = directives[i]
    BY <1>3, CompleteEffect DEF OnlyInserts
  <1>4. ASSUME NEW j \in Ids, NEW k \in 1..issued, NEW m \in Manifests, Replay(j, k, m)
        PROVE  UNCHANGED <<directives, receipts>>
    BY <1>4 DEF Replay, Commit
  <1>5. CASE UNCHANGED hvars
    BY <1>1, <1>5 DEF hvars, own
  <1>6. CASE QueueStep
    BY <1>1, <1>6 DEF QueueStep
  <1>7. Protected(directives[i]) => Exists(directives[i])
    BY DEF Protected
  <1> QED BY <1>2, <1>3, <1>4, <1>5, <1>6, <1>7 DEF HandoffNext

-----------------------------------------------------------------------------
(***************************************************************************)
(* How a forest of directives grows: what is there stays where it is, and  *)
(* a new directive is put below one that was there.                        *)
(***************************************************************************)
Grown(d, e) ==
    \A i \in Ids :
        /\ Exists(d[i]) => Exists(e[i]) /\ e[i].parent = d[i].parent
        /\ ~Exists(d[i]) /\ Exists(e[i]) /\ e[i].parent # Null => Exists(d[e[i].parent])

ParentsThere(d) ==
    \A i \in Ids : Exists(d[i]) /\ d[i].parent # Null => Exists(d[d[i].parent])

LEMMA KeptIsGrown ==
    ASSUME NEW d, NEW e, KeepsRows(d, e)
    PROVE  Grown(d, e)
  BY DEF KeepsRows, Fixed, Grown

LEMMA AddedIsGrown ==
    ASSUME NEW d, NEW e, AddsRow(d, e)
    PROVE  Grown(d, e)
  <1>1. PICK k \in Ids :
          /\ IsNextId(d, k) /\ Exists(e[k]) /\ e[k].parent # k
          /\ e[k].parent # Null => Exists(d[e[k].parent])
          /\ \A j \in Ids \ {k} : e[j] = d[j]
    BY DEF AddsRow
  <1>2. ~Exists(d[k])
    BY <1>1 DEF IsNextId
  <1>3. ASSUME NEW i \in Ids
        PROVE  /\ Exists(d[i]) => Exists(e[i]) /\ e[i].parent = d[i].parent
               /\ ~Exists(d[i]) /\ Exists(e[i]) /\ e[i].parent # Null =>
                    Exists(d[e[i].parent])
    <2>1. CASE i = k
      BY <1>1, <1>2, <2>1
    <2>2. CASE i # k
      BY <1>1, <2>2
    <2> QED BY <2>1, <2>2
  <1> QED BY <1>3 DEF Grown

LEMMA ParentsStay ==
    ASSUME NEW d \in Table, NEW e \in Table, ParentsThere(d), Grown(d, e)
    PROVE  ParentsThere(e)
  <1> SUFFICES ASSUME NEW i \in Ids, Exists(e[i]), e[i].parent # Null
               PROVE  Exists(e[e[i].parent])
    BY DEF ParentsThere
  <1>1. e[i].parent \in Ids
    BY DEF Table, Directive
  <1>2. Exists(d[e[i].parent])
    BY DEF Grown, ParentsThere
  <1> QED BY <1>1, <1>2 DEF Grown

\* Tasks are inserted as roots, or below the directive that is handed over.
LEMMA InsertGrows ==
    ASSUME HandoffInv, NEW s, WellFormed(s), Fits(s), NEW parent \in Ids \cup {Null},
           parent # Null => Exists(directives[parent])
    PROVE  Grown(directives, DirectivesWith(s, parent))
  <1> DEFINE e == DirectivesWith(s, parent)
  <1>1. PICK n \in 0..MaxId : FirstRows(directives, n)
    BY DEF HandoffInv
  <1>2. /\ \A i \in Ids : i \notin Inserted(s) => e[i] = directives[i]
        /\ \A i \in Inserted(s) : e[i].parent = parent
    BY <1>1, InsertedRows DEF HandoffInv
  <1>3. \A i \in Inserted(s) : ~Exists(directives[i])
    BY <1>1, InsertedIds
  <1> HIDE DEF e
  <1>4. Grown(directives, e)
    BY <1>2, <1>3 DEF Grown
  <1> QED BY <1>4 DEF e

LEMMA CompleteGrows ==
    ASSUME HandoffInv, NEW i \in Ids, NEW k \in 1..issued, NEW m \in Manifests,
           Complete(i, k, m)
    PROVE  Grown(directives, directives')
  <1> DEFINE s == m.successors
             e == DirectivesWith(s, i)
  <1>1. /\ WellFormed(s) /\ Fits(s) /\ Protected(directives[i])
        /\ Commit([e EXCEPT ![i] = Completed(e[i])])
        /\ e[i] = directives[i]
    BY CompleteFacts
  <1>2. Exists(directives[i])
    BY <1>1 DEF Protected
  <1>3. Grown(directives, e)
    BY <1>1, <1>2, InsertGrows
  <1>4. directives[i] \in Directive
    BY DEF HandoffInv, TypeOK
  <1>5. Fixed(directives[i], Completed(directives[i]))
    BY <1>2, <1>4, CompletedRow
  <1>6. directives' = [j \in Ids |-> IF j = i THEN Completed(directives[i]) ELSE e[j]]
    BY <1>1 DEF Commit, DirectivesWith
  <1> HIDE DEF e
  <1>7. \A j \in Ids : j # i => directives'[j] = e[j]
    BY <1>6
  <1>8. directives'[i] = Completed(directives[i])
    BY <1>6
  <1> QED BY <1>1, <1>2, <1>3, <1>5, <1>7, <1>8 DEF Grown, Fixed

LEMMA HandoffGrows ==
    ASSUME HandoffInv, HandoffNext
    PROVE  Grown(directives, directives')
  <1>1. CASE QueueStep
    <2>1. KeepsRows(directives, directives') \/ AddsRow(directives, directives')
      BY <1>1, NextKeeps DEF QueueStep, HandoffInv
    <2> QED BY <2>1, KeptIsGrown, AddedIsGrown
  <1>2. ASSUME NEW t \in Roots, AdmitRoot(t)
        PROVE  Grown(directives, directives')
    <2>1. t \in Tasks /\ WellFormed(<<t>>)
      BY HandoffAssumption, SingleTask
    <2>2. Fits(<<t>>) /\ directives' = DirectivesWith(<<t>>, Null)
      BY <1>2 DEF AdmitRoot, Commit
    <2> QED BY <2>1, <2>2, InsertGrows
  <1>3. ASSUME NEW i \in Ids, NEW k \in 1..issued, NEW m \in Manifests, Replay(i, k, m)
        PROVE  Grown(directives, directives')
    <2>1. directives' = directives
      BY <1>3 DEF Replay, Commit
    <2> QED BY <2>1, KeepsNothing, KeptIsGrown
  <1> QED BY <1>1, <1>2, <1>3, CompleteGrows DEF HandoffNext

\* A directive is older than those below it.
ParentsBelow(d) ==
    \A i \in Ids : Exists(d[i]) /\ d[i].parent # Null => d[i].parent < i

LEMMA ParentsStayBelow ==
    ASSUME NEW d, NEW e \in Table, NEW n \in 0..MaxId, FirstRows(d, n),
           Grown(d, e), ParentsBelow(d)
    PROVE  ParentsBelow(e)
  <1> SUFFICES ASSUME NEW i \in Ids, Exists(e[i]), e[i].parent # Null
               PROVE  e[i].parent < i
    BY DEF ParentsBelow
  <1>1. e[i].parent \in Ids
    BY DEF Table, Directive
  <1>2. CASE Exists(d[i])
    BY <1>2 DEF Grown, ParentsBelow
  <1>3. CASE ~Exists(d[i])
    <2>1. Exists(d[e[i].parent])
      BY <1>3 DEF Grown
    <2>2. e[i].parent <= n /\ ~(i <= n)
      BY <1>1, <1>3, <2>1 DEF FirstRows
    <2> QED BY <1>1, <2>2, DirectivesAssumption DEF Ids
  <1> QED BY <1>2, <1>3

-----------------------------------------------------------------------------
(***************************************************************************)
(* The queue's promises in company.  What the steps beside those of Queue  *)
(* do to its table: a transaction inserts rows that wait or settles one    *)
(* that is taken, and ends no promise but of the row it settles; a read    *)
(* only reclaims.                                                          *)
(***************************************************************************)
NewlyWaits(r, s) ==
    /\ ~Exists(r)
    /\ \E lane \in Lanes, n \in Priorities, p \in Ids \cup {Null} :
        /\ s = Pending("hold", lane, n, p)
        /\ p # Null => Exists(directives[p])

BesideRow(r, s) ==
    \/ s = r
    \/ NewlyWaits(r, s)
    \/ r.status = "taken" /\ s = Completed(r)

Transacts ==
    /\ \A i \in Ids : BesideRow(directives[i], directives'[i])
    /\ issued' = issued /\ now' = now
    /\ \A k \in Tokens : granted'[k] > now' =>
        /\ granted'[k] = granted[k]
        /\ \A i \in Ids : LiveUnder(i, k) => directives'[i] = directives[i]
    /\ \A k \in Tokens : granted'[k] # granted[k] =>
        \E i \in Ids : /\ directives[i].status = "taken" /\ directives[i].token = k
                       /\ directives'[i].status # "taken"

CompanyStep == [Next]_vars \/ Transacts \/ Reclaims

LEMMA BesideRowKeeps ==
    ASSUME NEW r \in Directive, NEW s, BesideRow(r, s)
    PROVE  /\ Falls(r, s)
           /\ Exists(r) => Fixed(r, s)
           /\ Sits(r) => Counts(r, s)
           /\ r.status \in Terminal \cup {"deferred"} => s = r
  <1>1. CASE s = r
    <2>1. r.token \in Nat /\ r.requeue_count \in Nat
      BY DEF Directive
    <2>2. Falls(r, r) /\ Fixed(r, r)
      BY DEF Falls, Fixed
    <2>3. Sits(r) => Counts(r, r)
      BY <2>1 DEF Counts, CountsAtMost, Sits
    <2> QED BY <1>1, <2>2, <2>3
  <1>2. CASE NewlyWaits(r, s)
    <2>1. PICK lane \in Lanes, n \in Priorities, p \in Ids \cup {Null} :
              s = Pending("hold", lane, n, p)
      BY <1>2 DEF NewlyWaits
    <2>2. s.status = "pending" /\ s.token = Null /\ s.requeue_count = 0
      BY <2>1 DEF Pending
    <2>3. r.status = "absent"
      BY <1>2 DEF NewlyWaits, Exists
    <2>4. Columns(s)
      BY <2>1 DEF Columns, Pending
    <2>5. Falls(r, s)
      BY <2>2, <2>4 DEF Falls
    <2>6. Sits(r) => Counts(r, s)
      BY <2>2, <2>3 DEF Sits, Counts, CountsAtMost, Null
    <2> QED BY <2>3, <2>5, <2>6 DEF Exists, Terminal
  <1>3. CASE r.status = "taken" /\ s = Completed(r)
    <2>1. Fixed(r, s)
      BY <1>3, CompletedRow DEF Exists
    <2>2. s.status = "done" /\ s.token = Null /\ s.requeue_count = r.requeue_count
      BY <1>3 DEF Completed, Directive
    <2>3. Columns(r) => Columns(s)
      BY <2>2 DEF Columns
    <2> QED BY <1>3, <2>1, <2>2, <2>3 DEF Falls, Sits, Counts, CountsAtMost, ClaimEnds, Directive, Terminal
  <1> QED BY <1>1, <1>2, <1>3 DEF BesideRow

LEMMA TransactsKeeps ==
    ASSUME HandoffInv, HandoffInv', QueueHolds, Transacts
    PROVE  QueueHolds' /\ QueueSteps
  <1>0. /\ TypeOK /\ LeaseHonoured /\ LeasePromised /\ TokensNameOneDirective
        /\ ParentsPrecede /\ RowsSit /\ now \in Nat /\ issued \in Nat
        /\ \A i \in Ids : directives[i] \in Directive
    BY ReadingType DEF HandoffInv, QueueHolds, TypeOK
  <1>1. \A i \in Ids : BesideRow(directives[i], directives'[i])
    BY DEF Transacts
  <1>2. TableFalls(directives, directives')
    BY <1>0, <1>1, BesideRowKeeps DEF TableFalls
  <1>3. CountsRows(directives')
    BY <1>0, <1>1, BesideRowKeeps DEF CountsRows, RowsSit
  <1>4. RowsSit' /\ CountedOnce
    <2>1. FreshTokens(directives')
      BY <1>2 DEF TableFalls, Falls, FreshTokens
    <2> QED BY <1>3, <2>1, CountedRows
  <1>5. HeadTaken
    BY <1>0, <1>2, NothingTaken
  <1>6. StaysFinished /\ PromotedReady
    BY <1>0, <1>1, BesideRowKeeps DEF StaysFinished, PromotedReady, Terminal
  <1>7. TokensNameOneDirective'
    <2>1. \A i \in Ids : directives'[i].token \in {directives[i].token, Null}
      BY <1>2 DEF TableFalls, Falls
    <2> QED BY <1>0, <2>1 DEF Transacts, TokensNameOneDirective, Null
  <1>8. LeaseHonoured' /\ LeasePromised'
    <2>1. LeaseHonoured'
      BY <1>0, PromisesKept DEF Transacts
    <2>2. ASSUME NEW i \in Ids, directives'[i].status = "taken", directives'[i].token # Null
          PROVE  granted'[directives'[i].token] = directives'[i].lease
      <3>1. directives'[i] = directives[i]
        <4>1. directives'[i] # Completed(directives[i])
          BY <1>0, <2>2 DEF Completed, Directive
        <4>2. \A r, s : NewlyWaits(r, s) => s.status = "pending"
          BY DEF NewlyWaits, Pending
        <4> QED BY <1>1, <2>2, <4>1, <4>2 DEF BesideRow
      <3>2. directives[i].token \in Tokens
        BY <1>0, <2>2, <3>1, QueueAssumption
           DEF TokensNameOneDirective, Tokens, TypeOK, Directive, Null
      <3>3. granted'[directives[i].token] = granted[directives[i].token]
        BY <1>0, <2>2, <3>1, <3>2 DEF Transacts, TokensNameOneDirective
      <3> QED BY <1>0, <2>2, <3>1, <3>3 DEF LeasePromised, Promised
    <2> QED BY <2>1, <2>2 DEF LeasePromised, Promised
  <1>9. PlainStatuses => \A i \in Ids : Columns(directives'[i])
    BY <1>2 DEF QueueHolds, TableFalls, Falls
  <1>10. ParentsPrecede'
    <2> SUFFICES ASSUME NEW i \in Ids, directives'[i].parent # Null
                 PROVE  /\ directives'[i].parent < i
                        /\ Exists(directives'[directives'[i].parent])
      BY DEF ParentsPrecede
    <2> DEFINE p == directives'[i].parent
    <2>1. \A j \in Ids : Exists(directives[j]) => Exists(directives'[j])
      BY <1>0, <1>1, BesideRowKeeps DEF Fixed
    <2>2. p \in Ids
      BY DEF HandoffInv, TypeOK, Directive
    <2>3. CASE Exists(directives[i]) \/ directives'[i] = directives[i]
      <3>1. directives'[i].parent = directives[i].parent
        BY <1>0, <1>1, <2>3, BesideRowKeeps DEF Fixed
      <3> QED BY <1>0, <2>1, <2>2, <3>1 DEF ParentsPrecede
    <2>4. CASE NewlyWaits(directives[i], directives'[i])
      <3>1. PICK n \in 0..MaxId : FirstRows(directives, n)
        BY DEF HandoffInv
      <3>2. ~Exists(directives[i]) /\ Exists(directives[p])
        BY <2>4 DEF NewlyWaits, Pending
      <3>3. p <= n /\ ~(i <= n)
        BY <2>2, <3>1, <3>2 DEF FirstRows
      <3> QED BY <2>1, <2>2, <3>2, <3>3, DirectivesAssumption DEF Ids
    <2> QED BY <1>1, <2>3, <2>4 DEF BesideRow, Exists
  <1> QED BY <1>4, <1>5, <1>6, <1>7, <1>8, <1>9, <1>10 DEF QueueHolds, QueueSteps

LEMMA CompanyKeeps ==
    ASSUME HandoffInv, HandoffInv', QueueHolds, CompanyStep
    PROVE  QueueHolds' /\ QueueSteps
  BY NextHolds, TransactsKeeps, ReclaimsKeeps DEF CompanyStep, HandoffInv

(***************************************************************************)
(* Admission and handoff are such steps.                                   *)
(***************************************************************************)
LEMMA InsertBeside ==
    ASSUME HandoffInv, NEW s, WellFormed(s), Fits(s), NEW parent \in Ids \cup {Null},
           parent # Null => Exists(directives[parent])
    PROVE  \A i \in Ids : \/ DirectivesWith(s, parent)[i] = directives[i]
                           \/ NewlyWaits(directives[i], DirectivesWith(s, parent)[i])
  <1> DEFINE e == DirectivesWith(s, parent)
  <1>1. PICK n \in 0..MaxId : FirstRows(directives, n)
    BY DEF HandoffInv
  <1>2. /\ \A i \in Ids : i \notin Inserted(s) => e[i] = directives[i]
        /\ \A a \in NewTasks(s) :
              e[IdOf(s, a)] = Pending("hold", s[a].lane, s[a].priority, parent)
    BY <1>1, InsertedRows DEF HandoffInv
  <1>3. \A i \in Inserted(s) : ~Exists(directives[i])
    BY <1>1, InsertedIds
  <1>4. \A a \in NewTasks(s) : s[a].lane \in Lanes /\ s[a].priority \in Priorities
    <2> SUFFICES ASSUME NEW a \in NewTasks(s)
                 PROVE  s[a].lane \in Lanes /\ s[a].priority \in Priorities
      OBVIOUS
    <2>1. s[a] \in Tasks
      BY DEF NewTasks, WellFormed
    <2> QED BY <2>1 DEF Tasks
  <1> HIDE DEF e
  <1>5. ASSUME NEW i \in Inserted(s)
        PROVE  NewlyWaits(directives[i], e[i])
    <2>1. PICK a \in NewTasks(s) : i = IdOf(s, a)
      BY DEF Inserted
    <2> QED BY <1>2, <1>3, <1>4, <2>1 DEF NewlyWaits
  <1>6. \A i \in Ids : e[i] = directives[i] \/ NewlyWaits(directives[i], e[i])
    BY <1>2, <1>5
  <1> QED BY <1>6 DEF e

\* A root that is admitted, by whatever transaction.
LEMMA RootTransacts ==
    ASSUME HandoffInv, NEW t \in Tasks, Fits(<<t>>), Commit(DirectivesWith(<<t>>, Null)),
           UNCHANGED <<issued, granted>>
    PROVE  Transacts
  <1>1. WellFormed(<<t>>)
    BY SingleTask
  <1>2. \A i \in Ids : \/ directives'[i] = directives[i]
                        \/ NewlyWaits(directives[i], directives'[i])
    BY <1>1, InsertBeside DEF Commit
  <1>3. \A i \in Ids, k \in Tokens : LiveUnder(i, k) => directives'[i] = directives[i]
    BY <1>2 DEF NewlyWaits, LiveUnder, Exists
  <1> QED BY <1>2, <1>3 DEF Transacts, BesideRow, Commit

LEMMA CompleteTransacts ==
    ASSUME HandoffInv, NEW j \in Ids, NEW k \in 1..issued, NEW m \in Manifests,
           Complete(j, k, m)
    PROVE  Transacts
  <1> DEFINE s == m.successors
             e == DirectivesWith(s, j)
  <1>1. /\ WellFormed(s) /\ Fits(s) /\ Protected(directives[j])
        /\ directives[j].token = k /\ k \in Tokens /\ e[j] = directives[j]
        /\ Commit([e EXCEPT ![j] = Completed(e[j])])
        /\ granted' = [granted EXCEPT ![k] = Null] /\ issued' = issued
    BY CompleteFacts
  <1>2. Exists(directives[j]) /\ DOMAIN e = Ids
    BY <1>1 DEF Protected, DirectivesWith
  <1>3. \A i \in Ids : e[i] = directives[i] \/ NewlyWaits(directives[i], e[i])
    BY <1>1, <1>2, InsertBeside
  <1>4. directives[j].status = "taken"
    BY DEF Complete, HoldsClaim
  <1> HIDE DEF e, s
  <1>5. /\ \A i \in Ids \ {j} : directives'[i] = e[i]
        /\ directives'[j] = Completed(directives[j]) /\ now' = now
    BY <1>1, <1>2 DEF Commit
  <1>6. \A i \in Ids : BesideRow(directives[i], directives'[i])
    BY <1>3, <1>4, <1>5 DEF BesideRow
  <1>7. ASSUME NEW n \in Tokens, granted'[n] > now'
        PROVE  /\ granted'[n] = granted[n]
               /\ \A i \in Ids : LiveUnder(i, n) => directives'[i] = directives[i]
    <2>1. granted \in [Tokens -> Nat] /\ now \in Nat
      BY ReadingType DEF HandoffInv, TypeOK
    <2>2. n # k
      BY <1>1, <1>5, <1>7, <2>1 DEF Null
    <2>3. \A i \in Ids : LiveUnder(i, n) => i # j /\ Exists(directives[i])
      BY <1>1, <2>2 DEF LiveUnder, Exists
    <2> QED BY <1>1, <1>3, <1>5, <2>1, <2>2, <2>3 DEF NewlyWaits
  <1>8. ASSUME NEW n \in Tokens, granted'[n] # granted[n]
        PROVE  /\ directives[j].status = "taken" /\ directives[j].token = n
               /\ directives'[j].status # "taken"
    <2>1. n = k
      BY <1>1, <1>8 DEF HandoffInv, TypeOK
    <2>2. Completed(directives[j]).status = "done"
      BY DEF HandoffInv, TypeOK, Completed, Directive
    <2> QED BY <1>1, <1>4, <1>5, <2>1, <2>2
  <1> QED BY <1>1, <1>5, <1>6, <1>7, <1>8 DEF Transacts

LEMMA NothingTransacts ==
    ASSUME directives' = directives, now' = now, UNCHANGED <<issued, granted>>
    PROVE  Transacts
  BY DEF Transacts, BesideRow

LEMMA HandoffInCompany ==
    ASSUME HandoffInv, [HandoffNext]_hvars
    PROVE  CompanyStep
  <1>1. ASSUME NEW t \in Roots, AdmitRoot(t)
        PROVE  Transacts
    BY <1>1, HandoffAssumption, RootTransacts DEF AdmitRoot
  <1>2. ASSUME NEW i \in Ids, NEW k \in 1..issued, NEW m \in Manifests, Replay(i, k, m)
        PROVE  Transacts
    BY <1>2, NothingTransacts DEF Replay, Commit
  <1>3. QueueStep \/ UNCHANGED hvars => [Next]_vars
    BY DEF QueueStep, hvars
  <1> QED BY <1>1, <1>2, <1>3, CompleteTransacts DEF HandoffNext, CompanyStep

LEMMA QueueHoldsInHandoff == KnownIds => (HandoffSpec => [](HandoffInv /\ QueueHolds))
  <1> SUFFICES ASSUME KnownIds PROVE HandoffSpec => [](HandoffInv /\ QueueHolds)
    OBVIOUS
  <1>1. HandoffInv /\ QueueHolds /\ [HandoffNext]_hvars => HandoffInv' /\ QueueHolds'
    BY HandoffInductive, HandoffInCompany, CompanyKeeps
  <1>2. HandoffInit => HandoffInv /\ QueueHolds
    BY HandoffInitInv, QueueHoldsInit DEF HandoffInit
  <1> QED BY <1>1, <1>2, PTL DEF HandoffSpec

-----------------------------------------------------------------------------
(***************************************************************************)
(* What follows, for any number of stages, keys, producers and workers     *)
(* whose calls name directives that exist.                                 *)
(***************************************************************************)
\* Types: rows, admissions, receipts and acknowledgements keep theirs.
THEOREM HandoffTypesHold == KnownIds => (HandoffSpec => []HandoffTypeOK)
  <1>1. HandoffInv => HandoffTypeOK
    BY DEF HandoffInv
  <1> QED BY <1>1, HandoffInvariant, PTL

\* However many producers and handoffs race for a key, it names one protected
\* directive, which has the content it was admitted with, and no other key
\* names it (admit_in_transaction).
THEOREM KeysNameOneDirective == KnownIds => (HandoffSpec => []KeyNamesOneDirective)
  <1>1. HandoffInv => KeyNamesOneDirective
    BY DEF HandoffInv
  <1> QED BY <1>1, HandoffInvariant, PTL

\* Only what is sealed was ever acknowledged, to retries and stale workers
\* too (sealed_receipt).
THEOREM AcksAlwaysSealed == KnownIds => (HandoffSpec => []AcksAreSealed)
  <1>1. HandoffInv => AcksAreSealed
    BY DEF HandoffInv
  <1> QED BY <1>1, HandoffInvariant, PTL

LEMMA WholeSettlement == HandoffInv => SettledCompletely
  <1> SUFFICES ASSUME HandoffInv PROVE SettledCompletely
    OBVIOUS
  <1>1. ASSUME NEW i \in Ids, Protected(directives[i])
        PROVE  directives[i].status \in Terminal <=> i \in DOMAIN receipts
    BY <1>1 DEF HandoffInv, SettledRow, HeldRow, Terminal
  <1>2. ASSUME NEW i \in DOMAIN receipts
        PROVE  SealedWhole(i)
    BY DEF HandoffInv
  <1> QED BY <1>1, <1>2 DEF SettledCompletely, SealedWhole

\* A protected directive is done exactly when it has a receipt, and then its
\* input and every successor are there (commit_handoff): neither a forced
\* call nor an expiry between two statements leaves half a settlement.
THEOREM SettlementIsWhole == KnownIds => (HandoffSpec => []SettledCompletely)
  BY WholeSettlement, HandoffInvariant, PTL

\* The token of its first claim stays on a protected directive until a handoff
\* under that token seals it, and what is sealed does not change.
THEOREM SettledByTheOnlyClaim == KnownIds => (HandoffSpec => SettledByItsOnlyClaim)
  <1> SUFFICES ASSUME KnownIds PROVE HandoffSpec => SettledByItsOnlyClaim
    OBVIOUS
  <1>1. HandoffInv /\ HandoffInv' /\ [HandoffNext]_hvars => [Seals]_hvars
    BY StepSeals
  <1>2. HandoffSpec => []HandoffInv
    BY HandoffInvariant
  <1>3. [][Seals]_hvars => SettledByItsOnlyClaim
    BY PTL DEF SettledByItsOnlyClaim, Seals
  <1> QED BY <1>1, <1>2, <1>3, PTL DEF HandoffSpec

\* The queue keeps its promises where stages are admitted and handed over:
\* leases are honoured, tokens and parents name what they named, and where
\* statuses are plain the columns of every claim agree (commit_handoff writes
\* rows that no operation of core.py writes).
THEOREM HandoffsKeepThePromises ==
    KnownIds => (HandoffSpec => [](/\ LeaseHonoured /\ TokensNameOneDirective /\ ParentsPrecede
                                   /\ PlainStatuses => ClaimColumnsAgree))
  <1>1. QueueHolds => /\ LeaseHonoured /\ TokensNameOneDirective /\ ParentsPrecede
                      /\ PlainStatuses => ClaimColumnsAgree
    BY DEF QueueHolds, Columns, ClaimColumnsAgree
  <1> QED BY <1>1, QueueHoldsInHandoff, PTL

\* ... and of its steps: a handoff overtakes nobody, reopens and promotes
\* nothing, and is not counted as a lost claim.
THEOREM HandoffsKeepTheSteps ==
    KnownIds => (HandoffSpec => /\ LostClaimCountedOnce /\ TakesTheHead
                                /\ FinishedStaysFinished /\ PromotedOnlyWhenReady)
  <1> SUFFICES ASSUME KnownIds
               PROVE  HandoffSpec => /\ LostClaimCountedOnce /\ TakesTheHead
                                     /\ FinishedStaysFinished /\ PromotedOnlyWhenReady
    OBVIOUS
  <1>1. /\ HandoffInv /\ QueueHolds /\ HandoffInv' /\ [HandoffNext]_hvars
        => [QueueSteps]_vars
    BY HandoffInCompany, CompanyKeeps
  <1>2. [][QueueSteps]_vars => /\ LostClaimCountedOnce /\ TakesTheHead
                               /\ FinishedStaysFinished /\ PromotedOnlyWhenReady
    BY StepsArePromised
  <1> QED BY <1>1, <1>2, QueueHoldsInHandoff, PTL DEF HandoffSpec

-----------------------------------------------------------------------------
(***************************************************************************)
(* Refinement of the ledger.                                               *)
(***************************************************************************)
Admitted ==
    [key \in DOMAIN admissions |->
        [key |-> key, body |-> admissions[key].body,
         lane |-> admissions[key].lane, priority |-> admissions[key].priority]]

Settled == [i \in DOMAIN receipts |-> receipts[i].manifest]

LEMMA TaskIsRecord ==
    ASSUME NEW t \in Tasks
    PROVE  t = [key |-> t.key, body |-> t.body, lane |-> t.lane, priority |-> t.priority]
  BY DEF Tasks

\* A sequence of tasks is inserted as the set of its tasks.
LEMMA InsertedAsSet ==
    ASSUME HandoffInv, NEW s, WellFormed(s), Fits(s), Agrees(s), InsertTasks(s)
    PROVE  /\ Ledger!Agrees({s[n] : n \in DOMAIN s})
           /\ Admitted' = Ledger!WithTasks({s[n] : n \in DOMAIN s})
  <1> DEFINE T == {s[n] : n \in DOMAIN s}
  <1>0. HandoffTypeOK
    BY DEF HandoffInv
  <1>1. PICK n \in 0..MaxId : FirstRows(directives, n)
    BY DEF HandoffInv
  <1>2. /\ \A key \in DOMAIN admissions : admissions'[key] = admissions[key]
        /\ \A a \in NewTasks(s) : admissions'[s[a].key] =
                        [id |-> IdOf(s, a), body |-> s[a].body,
                         lane |-> s[a].lane, priority |-> s[a].priority]
    BY <1>0, <1>1, InsertedKeys
  <1>3. DOMAIN admissions' = DOMAIN admissions \cup {s[a].key : a \in NewTasks(s)}
    BY DEF InsertTasks
  <1>4. /\ \A a \in DOMAIN s : s[a] \in Tasks
        /\ \A t \in T : t \in Tasks
        /\ \A t, u \in T : t.key = u.key => t = u
    BY DEF WellFormed
  <1>5. DOMAIN Admitted = DOMAIN admissions
    BY DEF Admitted
  <1>6. ASSUME NEW t \in T, t.key \in DOMAIN admissions
        PROVE  Admitted[t.key] = t
    <2>1. PICK a \in DOMAIN s : t = s[a]
      OBVIOUS
    <2>2. Recorded(t.key) = Fingerprint(t)
      BY <1>6, <2>1 DEF Agrees
    <2>3. /\ admissions[t.key].body = t.body /\ admissions[t.key].lane = t.lane
          /\ admissions[t.key].priority = t.priority
      BY <2>2 DEF Recorded, Fingerprint
    <2>4. Admitted[t.key] = [key |-> t.key, body |-> t.body, lane |-> t.lane,
                             priority |-> t.priority]
      BY <1>6, <2>3 DEF Admitted
    <2> QED BY <1>4, <2>4, TaskIsRecord
  <1>7. Ledger!Agrees(T)
    BY <1>5, <1>6 DEF Ledger!Agrees, Admitted
  <1>8. DOMAIN admissions' = DOMAIN admissions \cup {t.key : t \in T}
    <2>1. \A a \in DOMAIN s : a \in NewTasks(s) \/ s[a].key \in DOMAIN admissions
      BY DEF NewTasks
    <2>2. \A a \in NewTasks(s) : a \in DOMAIN s
      BY DEF NewTasks
    <2>3. \A key \in DOMAIN admissions' : key \in DOMAIN admissions \cup {t.key : t \in T}
      BY <1>3, <2>2
    <2>4. \A key \in DOMAIN admissions \cup {t.key : t \in T} : key \in DOMAIN admissions'
      BY <1>3, <2>1
    <2> QED BY <2>3, <2>4
  <1>9. ASSUME NEW key \in DOMAIN admissions'
        PROVE  Admitted'[key] =
                 IF key \in DOMAIN admissions THEN Admitted[key]
                 ELSE CHOOSE t \in T : t.key = key
    <2>0. Admitted'[key] =
            [key |-> key, body |-> admissions'[key].body,
             lane |-> admissions'[key].lane, priority |-> admissions'[key].priority]
      BY <1>9 DEF Admitted
    <2>1. CASE key \in DOMAIN admissions
      BY <1>2, <2>0, <2>1 DEF Admitted
    <2>2. CASE key \notin DOMAIN admissions
      <3>1. PICK a \in NewTasks(s) : key = s[a].key
        BY <1>3, <1>9, <2>2
      <3>2. s[a] \in T /\ s[a] \in Tasks
        BY <1>4 DEF NewTasks
      <3>3. (CHOOSE t \in T : t.key = key) = s[a]
        BY <1>4, <3>1, <3>2
      <3>4. /\ admissions'[key].body = s[a].body
            /\ admissions'[key].lane = s[a].lane
            /\ admissions'[key].priority = s[a].priority
        <4>1. admissions'[key] = [id |-> IdOf(s, a), body |-> s[a].body,
                                  lane |-> s[a].lane, priority |-> s[a].priority]
          BY <1>2, <3>1
        <4> QED BY <4>1
      <3>5. Admitted'[key] = s[a]
        BY <2>0, <3>1, <3>2, <3>4, TaskIsRecord
      <3> QED BY <2>2, <3>3, <3>5
    <2> QED BY <2>1, <2>2
  <1>10. Admitted' = Ledger!WithTasks(T)
    <2>1. Ledger!WithTasks(T) =
            [key \in DOMAIN admissions \cup {t.key : t \in T} |->
                IF key \in DOMAIN admissions THEN Admitted[key]
                ELSE CHOOSE t \in T : t.key = key]
      BY <1>5 DEF Ledger!WithTasks, Admitted
    <2>2. Admitted' = [key \in DOMAIN admissions' |-> Admitted'[key]]
      BY DEF Admitted
    <2> HIDE DEF T
    <2> QED BY <1>8, <1>9, <2>1, <2>2
  <1> QED BY <1>7, <1>10

LEMMA AdmitIsAdmit ==
    ASSUME HandoffInv, NEW t \in Tasks, Agrees(<<t>>), Fits(<<t>>), InsertTasks(<<t>>),
           UNCHANGED receipts
    PROVE  Ledger!Next
  <1> DEFINE s == <<t>>
  <1>1. WellFormed(s)
    BY SingleTask
  <1>2. Agrees(s) /\ Fits(s) /\ InsertTasks(s)
    OBVIOUS
  <1>3. {s[n] : n \in DOMAIN s} = {t}
    OBVIOUS
  <1>4. Ledger!Agrees({t}) /\ Admitted' = Ledger!WithTasks({t})
    <2> HIDE DEF s
    <2> QED BY <1>1, <1>2, <1>3, InsertedAsSet
  <1>5. Settled' = Settled
    BY DEF Settled
  <1>6. Ledger!Admit(t)
    BY <1>4, <1>5 DEF Ledger!Admit, Admitted, Settled
  <1> QED BY <1>6 DEF Ledger!Next

LEMMA CompleteIsSettle ==
    ASSUME HandoffInv, NEW i \in Ids, NEW k \in 1..issued, NEW m \in Manifests,
           Complete(i, k, m)
    PROVE  Ledger!Next
  <1> DEFINE s == m.successors
  <1>1. WellFormed(s) /\ Fits(s) /\ InsertTasks(s) /\ Agrees(s) /\ i \notin DOMAIN receipts
    BY CompleteFacts
  <1>2. Ledger!Range(s) = {s[n] : n \in DOMAIN s}
    BY DEF Ledger!Range
  <1>3. Ledger!Agrees(Ledger!Range(s)) /\ Admitted' = Ledger!WithTasks(Ledger!Range(s))
    <2> HIDE DEF s
    <2> QED BY <1>1, <1>2, InsertedAsSet
  <1>4. Settled' = [j \in DOMAIN Settled \cup {i} |-> IF j = i THEN m ELSE Settled[j]]
    <2>1. receipts' = [j \in DOMAIN receipts \cup {i} |->
                    IF j = i THEN [token |-> k, manifest |-> m,
                                   successor_ids |-> [n \in DOMAIN s |-> IdOf(s, n)]]
                    ELSE receipts[j]]
      BY Zenon DEF Complete
    <2>2. \A x : [token |-> k, manifest |-> m, successor_ids |-> x].manifest = m
      OBVIOUS
    <2> HIDE DEF s
    <2>3. /\ DOMAIN receipts' = DOMAIN receipts \cup {i}
          /\ receipts'[i].manifest = m
          /\ \A j \in DOMAIN receipts : receipts'[j] = receipts[j]
      BY <1>1, <2>1, <2>2
    <2>4. DOMAIN Settled = DOMAIN receipts
          /\ \A j \in DOMAIN receipts : Settled[j] = receipts[j].manifest
      BY DEF Settled
    <2>5. \A j \in DOMAIN receipts' :
            receipts'[j].manifest = IF j = i THEN m ELSE Settled[j]
      BY <1>1, <2>3, <2>4
    <2> QED BY <2>3, <2>4, <2>5 DEF Settled
  <1>5. Ledger!Settle(i, m)
    BY <1>1, <1>3, <1>4 DEF Ledger!Settle, Admitted, Settled
  <1> QED BY <1>5 DEF Ledger!Next

LEMMA HandoffInitLedger == HandoffInit => Ledger!Init
  <1> SUFFICES ASSUME HandoffInit PROVE Ledger!Init
    OBVIOUS
  <1>1. DOMAIN admissions = {} /\ DOMAIN receipts = {}
    BY DEF HandoffInit
  <1> QED BY <1>1 DEF Ledger!Init

LEMMA LedgerStutters ==
    ASSUME UNCHANGED <<admissions, receipts>>
    PROVE  UNCHANGED Ledger!ledger
  BY DEF Ledger!ledger

LEMMA HandoffStepsLedger ==
    ASSUME HandoffInv, [HandoffNext]_hvars
    PROVE  [Ledger!Next]_(Ledger!ledger)
  <1>1. ASSUME NEW i \in Ids, NEW k \in 1..issued, NEW m \in Manifests, Replay(i, k, m)
        PROVE  UNCHANGED <<admissions, receipts>>
    BY <1>1 DEF Replay
  <1>2. CASE QueueStep \/ UNCHANGED hvars
    BY <1>2, LedgerStutters DEF QueueStep, hvars, own
  <1>3. ASSUME NEW t \in Roots, AdmitRoot(t)
        PROVE  Ledger!Next
    BY <1>3, HandoffAssumption, AdmitIsAdmit DEF AdmitRoot
  <1> QED BY <1>1, <1>2, <1>3, LedgerStutters, CompleteIsSettle DEF HandoffNext

LEMMA LedgerSteps ==
    Ledger!Init /\ [][Ledger!Next]_(Ledger!ledger) => ImplementsLedger
  BY PTL DEF ImplementsLedger, Ledger!Spec

\* Admission and handoff implement the ledger: whatever is claimed, expires,
\* is retried, reclaimed or forced in between, a key keeps the task it was
\* admitted with, a stage is settled once, and its successors appear in that
\* very step (admit, complete).
THEOREM HandoffImplementsLedger == KnownIds => (HandoffSpec => ImplementsLedger)
  <1> SUFFICES ASSUME KnownIds PROVE HandoffSpec => ImplementsLedger
    OBVIOUS
  <1>1. HandoffInv /\ [HandoffNext]_hvars => [Ledger!Next]_(Ledger!ledger)
    BY HandoffStepsLedger
  <1>2. HandoffSpec => []HandoffInv
    BY HandoffInvariant
  <1> QED BY <1>1, <1>2, HandoffInitLedger, LedgerSteps, PTL DEF HandoffSpec
=============================================================================
