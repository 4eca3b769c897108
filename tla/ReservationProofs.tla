------------------------- MODULE ReservationProofs --------------------------
(***************************************************************************)
(* Root reservations, proved for any number of grants, paths, works and    *)
(* producers: writers exclude each other, dependencies stay delivered,     *)
(* what an inspection said stays said, and paths are released only, and    *)
(* can always be, once a lineage of any length is settled.                 *)
(***************************************************************************)
EXTENDS ReservationProperties, HandoffProofs

LEMMA OverlapSymmetric ==
    ASSUME NEW p, NEW q, Len(p) \in Nat, Len(q) \in Nat, Overlap(p, q)
    PROVE  Overlap(q, p)
  <1>1. (IF Len(p) <= Len(q) THEN Len(p) ELSE Len(q)) =
        (IF Len(q) <= Len(p) THEN Len(q) ELSE Len(p))
    OBVIOUS
  <1> QED BY <1>1 DEF Overlap

(***************************************************************************)
(* The steps of the reservations keep the invariant of admission and       *)
(* handoff: a reservation inserts a root, the others only commit.          *)
(***************************************************************************)
LEMMA CommitOnlyInv ==
    ASSUME HandoffInv, Commit(directives), UNCHANGED <<issued, call, granted, own>>
    PROVE  HandoffInv'
  <1>1. directives' = directives
    BY DEF Commit
  <1>2. TypeOK'
    BY CommitType, ReadingType DEF HandoffInv, TypeOK
  <1>3. HandoffTypeOK' /\ Targets'
    BY <1>1 DEF HandoffInv, HandoffTypeOK, Targets, own
  <1>4. \A i \in Ids : SettledRow(i)'
    BY <1>1 DEF HandoffInv, SettledRow, own
  <1>5. ASSUME NEW i \in DOMAIN receipts
        PROVE  SealedWhole(i)'
    <2>1. SealedWhole(i)
      BY DEF HandoffInv
    <2> QED BY <1>1, <2>1 DEF SealedWhole, Recorded, own
  <1>6. receipts' = receipts
    BY DEF own
  <1>7. KeyNamesOneDirective' /\ AcksAreSealed' /\ \E n \in 0..MaxId : FirstRows(directives', n)
    BY <1>1 DEF HandoffInv, KeyNamesOneDirective, AcksAreSealed, own
  <1> QED BY <1>2, <1>3, <1>4, <1>5, <1>6, <1>7 DEF HandoffInv

LEMMA ReserveInv ==
    ASSUME HandoffInv, NEW g \in Grants, Reserve(g)
    PROVE  HandoffInv'
  <1>1. g.task \in Tasks
    BY ReservationsAssumption DEF Parsed
  <1> QED BY <1>1, InsertRootInv DEF Reserve

LEMMA ReservedId ==
    ASSUME HandoffInv, NEW g \in Grants, Fits(<<g.task>>)
    PROVE  IdOf(<<g.task>>, 1) \in Ids
  <1> DEFINE s == <<g.task>>
             f == [n \in DOMAIN s |-> IdOf(s, n)]
  <1>1. WellFormed(s)
    BY ReservationsAssumption, SingleTask DEF Parsed
  <1>2. f \in Seq(Ids)
    BY <1>1, IdOfType
  <1>3. DOMAIN f = {1} /\ f[1] = IdOf(s, 1)
    OBVIOUS
  <1> HIDE DEF f
  <1> QED BY <1>2, <1>3

(***************************************************************************)
(* The inductive invariant is the conjunction of the properties: each new  *)
(* reservation is checked against those that are there.                    *)
(***************************************************************************)
ReservationsInv ==
    /\ HandoffInv
    /\ ReservationsTypeOK
    /\ WritersExclude
    /\ DependenciesDelivered

LEMMA ReservationsInitInv == ReservationsInit => ReservationsInv
  <1> SUFFICES ASSUME ReservationsInit PROVE ReservationsInv
    OBVIOUS
  <1>1. DOMAIN reserved = {} /\ DOMAIN delivered = {}
    BY DEF ReservationsInit
  <1>2. HandoffInv
    BY HandoffInitInv DEF ReservationsInit
  <1> QED BY <1>1, <1>2 DEF ReservationsInv, ReservationsTypeOK, WritersExclude,
                            DependenciesDelivered, Active

LEMMA ReserveKeeps ==
    ASSUME ReservationsInv, NEW g \in Grants, Reserve(g)
    PROVE  ReservationsInv'
  <1> DEFINE k == g.task.key
             new == [grant |-> g, id |-> IdOf(<<g.task>>, 1)]
  <1>1. k \notin DOMAIN reserved /\ DependenciesMet(g) /\ ResourcesFree(g) /\ delivered' = delivered
    BY DEF Reserve
  <1>2. /\ DOMAIN reserved' = DOMAIN reserved \cup {k}
        /\ reserved'[k] = new
        /\ \A key \in DOMAIN reserved : reserved'[key] = reserved[key]
    <2>1. reserved' = [key \in DOMAIN reserved \cup {k} |->
                        IF key = k THEN new ELSE reserved[key]]
      BY DEF Reserve
    <2> HIDE DEF new, k
    <2> QED BY <1>1, <2>1
  <1>3. k \in Keys /\ new \in [grant : Grants, id : Ids] /\ new.grant = g
    <2>1. IdOf(<<g.task>>, 1) \in Ids
      BY ReservedId DEF ReservationsInv, Reserve
    <2>2. g.task \in Tasks
      BY ReservationsAssumption DEF Parsed
    <2> QED BY <2>1, <2>2 DEF Tasks
  <1> HIDE DEF k, new
  <1>4. HandoffInv'
    BY ReserveInv DEF ReservationsInv
  <1>5. ReservationsTypeOK'
    BY <1>1, <1>2, <1>3 DEF ReservationsInv, ReservationsTypeOK
  <1>6. Active' = Active \cup {k} /\ k \notin Active /\ Active \subseteq DOMAIN reserved
    BY <1>1, <1>2 DEF Active, ReservationsInv, ReservationsTypeOK
  <1>7. ASSUME NEW other \in Active
        PROVE  LET h == reserved[other].grant
               IN  /\ g.work # h.work
                   /\ g.namespace = h.namespace =>
                        \A p \in g.paths, q \in h.paths : ~Overlap(p, q) /\ ~Overlap(q, p)
    <2> DEFINE h == reserved[other].grant
    <2>1. h \in Grants
      BY <1>6 DEF ReservationsInv, ReservationsTypeOK
    <2>2. \A f \in Grants : \A p \in f.paths : Len(p) \in Nat
      BY ReservationsAssumption DEF Parsed
    <2>3. /\ h.work # g.work
          /\ h.namespace = g.namespace => \A p \in h.paths, q \in g.paths : ~Overlap(p, q)
      BY <1>1 DEF ResourcesFree
    <2> HIDE DEF h
    <2>4. \A p \in g.paths, q \in h.paths : Overlap(p, q) => Overlap(q, p)
      BY <2>1, <2>2, OverlapSymmetric
    <2>5. QED
      BY <2>3, <2>4 DEF h
  <1>8. WritersExclude'
    <2> SUFFICES ASSUME NEW key \in Active', NEW other \in Active' \ {key}
                 PROVE  LET f == reserved'[key].grant
                            h == reserved'[other].grant
                        IN  /\ f.work # h.work
                            /\ f.namespace = h.namespace =>
                                \A p \in f.paths, q \in h.paths :
                                    ~Overlap(p, q) /\ ~Overlap(q, p)
      BY DEF WritersExclude
    <2>1. CASE key = k
      BY <1>2, <1>3, <1>6, <1>7, <2>1
    <2>2. CASE other = k
      BY <1>2, <1>3, <1>6, <1>7, <2>2
    <2>3. CASE key # k /\ other # k
      BY <1>2, <1>6, <2>3 DEF ReservationsInv, WritersExclude
    <2> QED BY <2>1, <2>2, <2>3
  <1>9. DependenciesDelivered'
    <2>1. DOMAIN delivered \subseteq DOMAIN reserved
      BY DEF ReservationsInv, ReservationsTypeOK
    <2>2. ASSUME NEW key \in DOMAIN reserved', NEW d \in reserved'[key].grant.dependencies
          PROVE  \E j \in DOMAIN delivered :
                    reserved[j].grant.work = d.work /\ delivered[j].digest = d.digest
      <3>1. CASE key = k
        BY <1>1, <1>2, <1>3, <2>2, <3>1 DEF DependenciesMet
      <3>2. CASE key # k
        BY <1>2, <2>2, <3>2 DEF ReservationsInv, DependenciesDelivered
      <3> QED BY <3>1, <3>2
    <2> QED BY <1>1, <1>2, <2>1, <2>2 DEF DependenciesDelivered
  <1> QED BY <1>4, <1>5, <1>8, <1>9 DEF ReservationsInv

LEMMA DeliverKeeps ==
    ASSUME ReservationsInv, NEW key \in Keys, NEW final \in Keys, NEW m \in Manifests,
           RecordDelivery(key, final, m.evidence)
    PROVE  ReservationsInv'
  <1> DEFINE new == [final |-> final, digest |-> m.evidence]
  <1>1. /\ key \in DOMAIN reserved /\ key \notin DOMAIN delivered /\ reserved' = reserved
        /\ Commit(directives) /\ UNCHANGED <<issued, call, granted, own>>
    BY DEF RecordDelivery, Active
  <1>2. /\ DOMAIN delivered' = DOMAIN delivered \cup {key}
        /\ delivered'[key] = new
        /\ \A k \in DOMAIN delivered : delivered'[k] = delivered[k]
    <2>1. delivered' = [k \in DOMAIN delivered \cup {key} |->
                            IF k = key THEN new ELSE delivered[k]]
      BY DEF RecordDelivery
    <2> HIDE DEF new
    <2> QED BY <1>1, <2>1
  <1>3. new \in [final : Keys, digest : Nat]
    <2>1. m.evidence \in Nat
      BY HandoffAssumption DEF Parses
    <2> QED BY <2>1
  <1> HIDE DEF new
  <1>4. HandoffInv'
    BY <1>1, CommitOnlyInv DEF ReservationsInv
  <1>5. ReservationsTypeOK'
    BY <1>1, <1>2, <1>3 DEF ReservationsInv, ReservationsTypeOK
  <1>6. Active' \subseteq Active
    BY <1>1, <1>2 DEF Active
  <1>7. WritersExclude'
    BY <1>1, <1>6 DEF ReservationsInv, WritersExclude
  <1>8. DependenciesDelivered'
    BY <1>1, <1>2 DEF ReservationsInv, DependenciesDelivered
  <1> QED BY <1>4, <1>5, <1>7, <1>8 DEF ReservationsInv

LEMMA OthersKeep ==
    ASSUME ReservationsInv, HandoffInv', UNCHANGED <<reserved, delivered>>
    PROVE  ReservationsInv'
  BY DEF ReservationsInv, ReservationsTypeOK, WritersExclude, DependenciesDelivered, Active

LEMMA ReservationsInductive ==
    ASSUME KnownIds, ReservationsInv, [ReservationsNext]_rvars
    PROVE  ReservationsInv'
  <1>1. CASE HandoffNext /\ UNCHANGED <<reserved, delivered>>
    BY <1>1, HandoffInductive, OthersKeep DEF ReservationsInv
  <1>2. ASSUME NEW g \in Grants, Reserve(g)
        PROVE  ReservationsInv'
    BY <1>2, ReserveKeeps
  <1>3. ASSUME NEW key \in Keys, NEW final \in Keys, NEW m \in Manifests,
               RecordDelivery(key, final, m.evidence)
        PROVE  ReservationsInv'
    BY <1>3, DeliverKeeps
  <1>4. CASE Repeat
    BY <1>4, CommitOnlyInv, OthersKeep DEF ReservationsInv, Repeat
  <1>5. CASE UNCHANGED rvars
    BY <1>5, HandoffInductive, OthersKeep DEF ReservationsInv, rvars
  <1> QED BY <1>1, <1>2, <1>3, <1>4, <1>5 DEF ReservationsNext

LEMMA ReservationsInvariant == KnownIds => (ReservationsSpec => []ReservationsInv)
  <1> SUFFICES ASSUME KnownIds PROVE ReservationsSpec => []ReservationsInv
    OBVIOUS
  <1>1. ReservationsInv /\ [ReservationsNext]_rvars => ReservationsInv'
    BY ReservationsInductive
  <1> QED BY <1>1, ReservationsInitInv, PTL DEF ReservationsSpec

-----------------------------------------------------------------------------
\* Types: reservations name grants and directives, deliveries name keys, and
\* only what is reserved is delivered.
THEOREM ReservationTypesHold == KnownIds => (ReservationsSpec => []ReservationsTypeOK)
  <1>1. ReservationsInv => ReservationsTypeOK
    BY DEF ReservationsInv
  <1> QED BY <1>1, ReservationsInvariant, PTL

\* Two reservations that are not released never hold overlapping paths or the
\* same work, whatever became of their stages (require_resources).
THEOREM WritersAlwaysExclude == KnownIds => (ReservationsSpec => []WritersExclude)
  <1>1. ReservationsInv => WritersExclude
    BY DEF ReservationsInv
  <1> QED BY <1>1, ReservationsInvariant, PTL

\* What a reservation depends on was delivered before it, with that digest,
\* and stays delivered (require_dependencies, record_delivery).
THEOREM DependenciesStayDelivered ==
    KnownIds => (ReservationsSpec => []DependenciesDelivered)
  <1>1. ReservationsInv => DependenciesDelivered
    BY DEF ReservationsInv
  <1> QED BY <1>1, ReservationsInvariant, PTL

LEMMA KeysGrow ==
    ASSUME [HandoffNext]_hvars
    PROVE  DOMAIN admissions \subseteq DOMAIN admissions'
  <1>1. \A s : InsertTasks(s) => DOMAIN admissions \subseteq DOMAIN admissions'
    BY DEF InsertTasks
  <1>2. ASSUME NEW t \in Roots, AdmitRoot(t)
        PROVE  DOMAIN admissions \subseteq DOMAIN admissions'
    BY <1>1, <1>2 DEF AdmitRoot
  <1>3. ASSUME NEW i \in Ids, NEW k \in 1..issued, NEW m \in Manifests, Complete(i, k, m)
        PROVE  DOMAIN admissions \subseteq DOMAIN admissions'
    <2>1. InsertTasks(m.successors)
      BY <1>3, Zenon DEF Complete
    <2> QED BY <1>1, <2>1
  <1>4. ASSUME NEW i \in Ids, NEW k \in 1..issued, NEW m \in Manifests, Replay(i, k, m)
        PROVE  admissions' = admissions
    BY <1>4 DEF Replay
  <1> QED BY <1>2, <1>3, <1>4 DEF HandoffNext, QueueStep, hvars, own

\* Of what inspect answers only "absent" may change: receipts, conflicts and
\* unreserved identities are final, and so is a delivery (root_inspection).
THEOREM InspectionsAreFinal == ReservationsSpec => InspectionIsFinal
  <1> DEFINE Final ==
        \A g \in Grants :
            Inspection(g) # "absent" =>
                /\ Inspection(g)' = Inspection(g)
                /\ Inspection(g) = "receipt" =>
                    /\ reserved'[g.task.key] = reserved[g.task.key]
                    /\ g.task.key \in DOMAIN delivered =>
                        delivered'[g.task.key] = delivered[g.task.key]
  <1>1. ASSUME [ReservationsNext]_rvars
        PROVE  /\ DOMAIN admissions \subseteq DOMAIN admissions'
               /\ \A key \in DOMAIN reserved :
                    key \in DOMAIN reserved' /\ reserved'[key] = reserved[key]
               /\ \A key \in DOMAIN reserved' :
                    key \in DOMAIN reserved \/ key \notin DOMAIN admissions
               /\ \A key \in DOMAIN delivered : delivered'[key] = delivered[key]
    <2>1. CASE HandoffNext /\ UNCHANGED <<reserved, delivered>>
      BY <2>1, KeysGrow
    <2>2. ASSUME NEW g \in Grants, Reserve(g)
          PROVE  /\ DOMAIN admissions \subseteq DOMAIN admissions'
                 /\ \A key \in DOMAIN reserved :
                      key \in DOMAIN reserved' /\ reserved'[key] = reserved[key]
                 /\ \A key \in DOMAIN reserved' :
                      key \in DOMAIN reserved \/ key \notin DOMAIN admissions
                 /\ delivered' = delivered
      <3> DEFINE k == g.task.key
                 new == [grant |-> g, id |-> IdOf(<<g.task>>, 1)]
      <3>1. /\ k \notin DOMAIN reserved /\ k \notin DOMAIN admissions
            /\ reserved' = [key \in DOMAIN reserved \cup {k} |->
                                IF key = k THEN new ELSE reserved[key]]
            /\ InsertTasks(<<g.task>>) /\ delivered' = delivered
        BY <2>2 DEF Reserve
      <3>2. DOMAIN admissions \subseteq DOMAIN admissions'
        BY <3>1 DEF InsertTasks
      <3> HIDE DEF k, new
      <3> QED BY <3>1, <3>2
    <2>3. ASSUME NEW key \in Keys, NEW final \in Keys, NEW m \in Manifests,
                 RecordDelivery(key, final, m.evidence)
          PROVE  /\ admissions' = admissions /\ reserved' = reserved
                 /\ \A k \in DOMAIN delivered : delivered'[k] = delivered[k]
      <3>1. key \notin DOMAIN delivered
        BY <2>3 DEF RecordDelivery, Active
      <3> QED BY <2>3, <3>1 DEF RecordDelivery, own
    <2>4. CASE Repeat \/ UNCHANGED rvars
      BY <2>4 DEF Repeat, rvars, hvars, own
    <2> QED BY <1>1, <2>1, <2>2, <2>3, <2>4 DEF ReservationsNext
  <1>2. [ReservationsNext]_rvars => Final
    BY <1>1 DEF Inspection
  <1>3. [][Final]_rvars => InspectionIsFinal
    BY PTL DEF InspectionIsFinal
  <1> QED BY <1>2, <1>3, PTL DEF ReservationsSpec

(***************************************************************************)
(* A reservation admits a root, whoever may admit roots, and nothing else  *)
(* is done to queue, admissions and receipts: what holds of them where     *)
(* stages are handed over holds where roots are reserved.                  *)
(***************************************************************************)
LEMMA ReservationsInCompany ==
    ASSUME HandoffInv, [ReservationsNext]_rvars
    PROVE  CompanyStep /\ [Ledger!Next]_(Ledger!ledger)
  <1>1. CASE [HandoffNext]_hvars
    BY <1>1, HandoffInCompany, HandoffStepsLedger
  <1>2. ASSUME NEW g \in Grants, Reserve(g)
        PROVE  CompanyStep /\ [Ledger!Next]_(Ledger!ledger)
    <2>1. g.task \in Tasks
      BY ReservationsAssumption DEF Parsed
    <2>2. Transacts
      BY <1>2, <2>1, RootTransacts DEF Reserve
    <2>3. Agrees(<<g.task>>)
      BY <1>2, <2>1, SingleTask DEF Reserve, Agrees
    <2>4. Ledger!Next
      BY <1>2, <2>1, <2>3, AdmitIsAdmit DEF Reserve
    <2> QED BY <2>2, <2>4 DEF CompanyStep
  <1>3. CASE Commit(directives) /\ UNCHANGED <<issued, granted, own>>
    <2>1. UNCHANGED <<admissions, receipts>>
      BY <1>3 DEF own
    <2> QED BY <1>3, <2>1, NothingTransacts, LedgerStutters DEF Commit, CompanyStep
  <1>4. UNCHANGED rvars => UNCHANGED hvars
    BY DEF rvars
  <1> QED BY <1>1, <1>2, <1>3, <1>4 DEF ReservationsNext, RecordDelivery, Repeat

LEMMA QueueHoldsInReservations ==
    KnownIds => (ReservationsSpec => [](ReservationsInv /\ QueueHolds))
  <1> SUFFICES ASSUME KnownIds PROVE ReservationsSpec => [](ReservationsInv /\ QueueHolds)
    OBVIOUS
  <1>1. ReservationsInv /\ QueueHolds /\ [ReservationsNext]_rvars
        => ReservationsInv' /\ QueueHolds'
    BY ReservationsInductive, ReservationsInCompany, CompanyKeeps DEF ReservationsInv
  <1>2. ReservationsInit => ReservationsInv /\ QueueHolds
    BY ReservationsInitInv, QueueHoldsInit DEF ReservationsInit, HandoffInit
  <1> QED BY <1>1, <1>2, PTL DEF ReservationsSpec

\* Where roots are reserved a key still names one directive for ever, a
\* settlement is whole and its acknowledgement true, leases are honoured and
\* tokens and parents name what they named (insert_root admits a root in a
\* transaction of its own kind).
THEOREM ReservationsKeepTheRest ==
    KnownIds => (ReservationsSpec =>
        [](/\ SettledCompletely /\ KeyNamesOneDirective /\ AcksAreSealed
           /\ LeaseHonoured /\ TokensNameOneDirective /\ ParentsPrecede))
  <1>1. ReservationsInv /\ QueueHolds =>
            /\ SettledCompletely /\ KeyNamesOneDirective /\ AcksAreSealed
            /\ LeaseHonoured /\ TokensNameOneDirective /\ ParentsPrecede
    BY WholeSettlement DEF ReservationsInv, HandoffInv, QueueHolds
  <1> QED BY <1>1, QueueHoldsInReservations, PTL

\* ... and each lost claim is counted in the step that ends it and in no other,
\* nobody is overtaken, nothing that is finished reopens and nothing is promoted
\* before it is ready.
THEOREM ReservationsKeepTheSteps ==
    KnownIds => (ReservationsSpec => /\ LostClaimCountedOnce /\ TakesTheHead
                                     /\ FinishedStaysFinished /\ PromotedOnlyWhenReady)
  <1> SUFFICES ASSUME KnownIds
               PROVE  ReservationsSpec => /\ LostClaimCountedOnce /\ TakesTheHead
                                          /\ FinishedStaysFinished /\ PromotedOnlyWhenReady
    OBVIOUS
  <1>1. /\ ReservationsInv /\ QueueHolds /\ ReservationsInv' /\ [ReservationsNext]_rvars
        => [QueueSteps]_vars
    BY ReservationsInCompany, CompanyKeeps DEF ReservationsInv
  <1> QED BY <1>1, StepsArePromised, QueueHoldsInReservations, PTL DEF ReservationsSpec

\* Reservations implement the ledger of stages too: a reserved root is one
\* more task that is admitted, under a key that was new (insert_root).
THEOREM ReservationsImplementLedger == KnownIds => (ReservationsSpec => ImplementsLedger)
  <1> SUFFICES ASSUME KnownIds PROVE ReservationsSpec => ImplementsLedger
    OBVIOUS
  <1>1. ReservationsInv /\ [ReservationsNext]_rvars => [Ledger!Next]_(Ledger!ledger)
    BY ReservationsInCompany DEF ReservationsInv
  <1>2. ReservationsInit => Ledger!Init
    BY HandoffInitLedger DEF ReservationsInit
  <1> QED BY <1>1, <1>2, ReservationsInvariant, LedgerSteps, PTL DEF ReservationsSpec

(***************************************************************************)
(* Induction.  The library's theorem takes a predicate; this one a set.    *)
(***************************************************************************)
\* A set of numbers has a least one: the intervals 0..n of its members are
\* finite sets, and their inclusion is well founded.
LEMMA LeastNumber ==
    ASSUME NEW T \in SUBSET Nat, T # {}
    PROVE  \E m \in T : \A n \in T : m <= n
  <1> DEFINE F == {0..n : n \in T}
             R == StrictSubsetOrdering(Nat)
             S == FiniteSubsetsOf(Nat)
  <1>1. F \subseteq S /\ F # {}
    <2>1. \A n \in T : 0..n \in SUBSET Nat /\ IsFiniteSet(0..n)
      BY FS_Interval
    <2> QED BY <2>1 DEF FiniteSubsetsOf
  <1>2. PICK f \in F : \A g \in F : ~(<<g, f>> \in R)
    <2>1. IsWellFoundedOn(R, S)
      BY FS_StrictSubsetOrderingWellFounded
    <2> HIDE DEF F, R, S
    <2> QED BY <1>1, <2>1, WFMin
  <1>3. PICK m \in T : f = 0..m
    OBVIOUS
  <1>4. ASSUME NEW n \in T, n < m
        PROVE  FALSE
    <2>1. 0..n \in F /\ 0..n \in SUBSET Nat /\ 0..m \in SUBSET Nat
      OBVIOUS
    <2>2. 0..n \subseteq 0..m /\ 0..n # 0..m
      <3>1. m \in 0..m /\ m \notin 0..n
        BY <1>4
      <3> QED BY <1>4, <3>1
    <2>3. <<0..n, 0..m>> \in R
      BY <2>1, <2>2 DEF StrictSubsetOrdering
    <2> QED BY <1>2, <1>3, <2>1, <2>3
  <1> QED BY <1>4

LEMMA NatSets ==
    ASSUME NEW T, 0 \in T, \A n \in Nat : n \in T => n + 1 \in T
    PROVE  Nat \subseteq T
  <1> DEFINE U == Nat \ T
  <1> SUFFICES ASSUME U # {} PROVE FALSE
    OBVIOUS
  <1>1. PICK m \in U : \A n \in U : m <= n
    <2>1. U \in SUBSET Nat
      OBVIOUS
    <2> HIDE DEF U
    <2> QED BY <2>1, LeastNumber
  <1>2. m \in Nat \ {0} /\ m - 1 \in Nat /\ (m - 1) + 1 = m
    OBVIOUS
  <1> QED BY <1>1, <1>2

(***************************************************************************)
(* The walk of require_lineage.                                            *)
(***************************************************************************)
ReachOf(reach, n, start, final, account) ==
    reach = [m \in 1..n |->
                IF m = 1 THEN {final}
                ELSE UNION {StagesAbove(key, account) : key \in reach[m - 1] \ {start}}]

LEMMA ReachExists ==
    ASSUME NEW n \in Nat, NEW start, NEW final, NEW account
    PROVE  \E reach : ReachOf(reach, n, start, final, account)
  <1> DEFINE Up(X) == UNION {StagesAbove(key, account) : key \in X \ {start}}
             Is(r, k) == r = [m \in 1..k |-> IF m = 1 THEN {final} ELSE Up(r[m - 1])]
             T == {k \in Nat : \E r : Is(r, k)}
  <1>1. \A r, k : ReachOf(r, k, start, final, account) <=> Is(r, k)
    BY DEF ReachOf
  <1> HIDE DEF Up
  <1>2. 0 \in T
    <2>1. Is([m \in 1..0 |-> {final}], 0)
      OBVIOUS
    <2> QED BY <2>1
  <1>3. ASSUME NEW k \in Nat, k \in T
        PROVE  k + 1 \in T
    <2>1. PICK r : Is(r, k)
      BY <1>3
    <2> DEFINE s == [m \in 1..(k + 1) |->
                        IF m <= k THEN r[m]
                        ELSE IF m = 1 THEN {final} ELSE Up(r[m - 1])]
    <2>2. ASSUME NEW m \in 1..(k + 1)
          PROVE  s[m] = IF m = 1 THEN {final} ELSE Up(s[m - 1])
      <3>1. m # 1 => m - 1 \in 1..k /\ m - 1 \in 1..(k + 1) /\ m - 1 <= k
        OBVIOUS
      <3>2. m # 1 => s[m - 1] = r[m - 1]
        BY <3>1
      <3>3. CASE m <= k
        <4>1. m \in 1..k
          BY <3>3
        <4>2. r[m] = IF m = 1 THEN {final} ELSE Up(r[m - 1])
          BY <2>1, <4>1
        <4> QED BY <3>2, <3>3, <4>2
      <3>4. CASE ~(m <= k)
        BY <3>2, <3>4
      <3> QED BY <3>3, <3>4
    <2>3. DOMAIN s = 1..(k + 1) /\ s = [m \in 1..(k + 1) |-> s[m]]
      OBVIOUS
    <2> HIDE DEF s
    <2>4. Is(s, k + 1)
      BY <2>2, <2>3
    <2> QED BY <2>4
  <1>4. n \in T
    <2> HIDE DEF T
    <2> QED BY <1>2, <1>3, NatSets
  <1> QED BY <1>1, <1>4

LEMMA ReachUnfolds ==
    ASSUME NEW n \in Nat, NEW start, NEW final
    PROVE  \E reach :
            /\ ReachOf(reach, n, start, final, Account(admissions[start].lane))
            /\ ReachedWithin(n, start, final) <=> \E m \in 1..n : start \in reach[m]
  <1> DEFINE account == Account(admissions[start].lane)
             reach == CHOOSE r : ReachOf(r, n, start, final, account)
  <1>1. ReachOf(reach, n, start, final, account)
    BY ReachExists
  <1>2. ReachedWithin(n, start, final) <=> \E m \in 1..n : start \in reach[m]
    BY Zenon DEF ReachedWithin, ReachOf
  <1> QED BY <1>1, <1>2

(***************************************************************************)
(* What the invariant needs beside the properties: every receipt lists as  *)
(* many directives as its manifest has successors, parents are older, and  *)
(* reservations and deliveries name keys that were admitted.               *)
(***************************************************************************)
CountsSuccessors ==
    \A i \in DOMAIN receipts :
        Len(receipts[i].successor_ids) = Len(receipts[i].manifest.successors)

NamesAdmitted ==
    /\ \A key \in DOMAIN reserved :
        key \in DOMAIN admissions /\ reserved[key].id = admissions[key].id
    /\ \A key \in DOMAIN delivered : delivered[key].final \in DOMAIN admissions

LEMMA ReceiptTypes ==
    ASSUME HandoffInv, NEW i \in DOMAIN receipts
    PROVE  /\ i \in Ids /\ Protected(directives[i]) /\ Exists(directives[i])
           /\ receipts[i].successor_ids \in Seq(Ids)
           /\ receipts[i].manifest.successors \in Seq(Tasks)
  <1>1. i \in Ids /\ receipts[i] \in Receipt /\ SealedWhole(i)
    BY DEF HandoffInv, HandoffTypeOK
  <1>2. receipts[i].successor_ids \in Seq(Ids) /\ receipts[i].manifest \in Manifests
    BY <1>1 DEF Receipt
  <1>3. receipts[i].manifest.successors \in Seq(Tasks)
    BY <1>2, HandoffAssumption DEF Parses
  <1> QED BY <1>1, <1>2, <1>3 DEF SealedWhole, Protected

\* A stage with a settled lineage of its own, or without any below.
LEMMA Prepended ==
    ASSUME HandoffInv, CountsSuccessors, NEW start, NEW key, NEW above, NEW account, NEW last,
           above \in StagesAbove(key, account), key \in DOMAIN admissions,
           NEW S \in SUBSET Ids, admissions[key].id \in S, ClosedLineage(S, account, last),
           last \in DOMAIN receipts, receipts[last].manifest.successors = <<>>
    PROVE  /\ above \in DOMAIN admissions
           /\ S \cup {admissions[above].id} \in SUBSET Ids
           /\ ClosedLineage(S \cup {admissions[above].id}, account, last)
  <1> DEFINE i == admissions[above].id
             j == admissions[key].id
             t == [key |-> key, body |-> body[j], lane |-> directives[j].lane,
                   priority |-> directives[j].priority]
  <1>1. /\ above \in DOMAIN admissions /\ SettledStage(above)
        /\ admissions[above].lane = <<account, Previous[Stage(directives[j].lane)]>>
        /\ Linked(above, key)
    BY DEF StagesAbove
  <1>2. /\ directives[i].status = "done" /\ i \in DOMAIN receipts
        /\ directives[i].lane = admissions[above].lane
    BY <1>1 DEF SettledStage
  <1>3. receipts[i].manifest.successors = <<t>>
    BY <1>1 DEF Linked, Sealing
  <1>4. i \in Ids /\ receipts[i].successor_ids \in Seq(Ids) /\ SealedWhole(i)
    BY <1>2, ReceiptTypes DEF HandoffInv
  <1>5. t.key = key
    OBVIOUS
  <1> HIDE DEF t
  <1>6. Len(receipts[i].successor_ids) = 1
    BY <1>2, <1>3 DEF CountsSuccessors
  <1>7. receipts[i].successor_ids[1] = j
    <2>1. 1 \in DOMAIN receipts[i].manifest.successors /\ receipts[i].manifest.successors[1] = t
      BY <1>3
    <2> QED BY <1>4, <1>5, <2>1 DEF SealedWhole
  <1>8. i # last
    <2>1. <<t>> # <<>>
      OBVIOUS
    <2> QED BY <1>3, <2>1
  <1>9. Stage(directives[i].lane) = Previous[Stage(directives[j].lane)]
        /\ directives[i].lane = <<account, Stage(directives[i].lane)>>
    BY <1>1, <1>2 DEF Stage
  <1> HIDE DEF i, j
  <1>10. ClosedLineage(S \cup {i}, account, last)
    <2>1. last \in S
      BY DEF ClosedLineage
    <2>2. ASSUME NEW x \in S
          PROVE  /\ directives[x].status = "done" /\ x \in DOMAIN receipts
                 /\ directives[x].lane = <<account, Stage(directives[x].lane)>>
                 /\ x = last =>
                    /\ Stage(directives[x].lane) = "publication"
                    /\ receipts[x].successor_ids = <<>>
                 /\ x # last =>
                    /\ Len(receipts[x].successor_ids) = 1
                    /\ receipts[x].successor_ids[1] \in S
                    /\ Stage(directives[x].lane) =
                            Previous[Stage(directives[receipts[x].successor_ids[1]].lane)]
      BY DEF ClosedLineage
    <2> QED BY <1>2, <1>6, <1>7, <1>8, <1>9, <2>1, <2>2 DEF ClosedLineage, j
  <1> QED BY <1>1, <1>4, <1>10 DEF i

\* By induction along the walk: from every stage it comes to, a closed lineage
\* leads to the publication.
LEMMA WalkIsClosed ==
    ASSUME HandoffInv, CountsSuccessors, NEW n \in Nat, NEW start, NEW final, NEW reach,
           NEW account, ReachOf(reach, n, start, final, account),
           SettledStage(final), admissions[final].lane = <<account, "publication">>,
           Sealing(final).successors = <<>>
    PROVE  \A m \in 1..n : \A key \in reach[m] :
                /\ key \in DOMAIN admissions
                /\ \E S \in SUBSET Ids :
                    admissions[key].id \in S /\ ClosedLineage(S, account, admissions[final].id)
  <1> DEFINE last == admissions[final].id
             Good(key) == /\ key \in DOMAIN admissions
                          /\ \E S \in SUBSET Ids :
                                admissions[key].id \in S /\ ClosedLineage(S, account, last)
             T == {k \in Nat : \A m \in 1..n : m <= k => \A key \in reach[m] : Good(key)}
  <1>1. /\ final \in DOMAIN admissions /\ last \in DOMAIN receipts
        /\ directives[last].status = "done" /\ directives[last].lane = <<account, "publication">>
        /\ receipts[last].manifest.successors = <<>>
    BY DEF SettledStage, Sealing
  <1>2. \A m \in 1..n : reach[m] =
            IF m = 1 THEN {final}
            ELSE UNION {StagesAbove(key, account) : key \in reach[m - 1] \ {start}}
    BY DEF ReachOf
  <1> HIDE DEF last
  <1>3. Good(final)
    <2>1. receipts[last].successor_ids = <<>> /\ last \in Ids
      <3>1. receipts[last].successor_ids \in Seq(Ids) /\ last \in Ids
        BY <1>1, ReceiptTypes
      <3>2. Len(receipts[last].successor_ids) = 0
        BY <1>1 DEF CountsSuccessors
      <3> QED BY <3>1, <3>2
    <2>2. ClosedLineage({last}, account, last)
      BY <1>1, <2>1 DEF ClosedLineage, Stage
    <2> QED BY <1>1, <2>1, <2>2 DEF last
  <1>4. ASSUME NEW key, Good(key), NEW above \in StagesAbove(key, account)
        PROVE  Good(above)
    <2>1. PICK S \in SUBSET Ids : admissions[key].id \in S /\ ClosedLineage(S, account, last)
      BY <1>4
    <2>2. /\ above \in DOMAIN admissions
          /\ S \cup {admissions[above].id} \in SUBSET Ids
          /\ ClosedLineage(S \cup {admissions[above].id}, account, last)
      BY <1>1, <1>4, <2>1, Prepended
    <2> QED BY <2>2
  <1> HIDE DEF Good
  <1>5. 0 \in T
    OBVIOUS
  <1>6. ASSUME NEW k \in Nat, k \in T
        PROVE  k + 1 \in T
    <2> SUFFICES ASSUME NEW m \in 1..n, m = k + 1, NEW key \in reach[m]
                 PROVE  Good(key)
      BY <1>6
    <2>1. CASE m = 1
      BY <1>2, <1>3, <2>1
    <2>2. CASE m # 1
      <3>1. m - 1 \in 1..n /\ m - 1 <= k
        BY <2>2
      <3>2. PICK below \in reach[m - 1] : key \in StagesAbove(below, account)
        <4>1. reach[m] = UNION {StagesAbove(b, account) : b \in reach[m - 1] \ {start}}
          BY <1>2, <2>2
        <4> QED BY <4>1
      <3>3. Good(below)
        BY <1>6, <3>1, <3>2
      <3> QED BY <1>4, <3>2, <3>3
    <2> QED BY <2>1, <2>2
  <1>7. n \in T
    <2> HIDE DEF T
    <2> QED BY <1>5, <1>6, NatSets
  <1> QED BY <1>7 DEF Good, last

\* require_lineage accepts only a reservation whose stages are all settled.
LEMMA AcceptedIsClosed ==
    ASSUME HandoffInv, CountsSuccessors, NEW start, NEW final, NEW digest,
           RequireLineage(start, final, digest)
    PROVE  \E S \in SUBSET Ids :
                /\ admissions[start].id \in S
                /\ ClosedLineage(S, Account(admissions[start].lane), admissions[final].id)
  <1> DEFINE account == Account(admissions[start].lane)
  <1>1. /\ SettledStage(final) /\ admissions[final].lane = <<account, "publication">>
        /\ Sealing(final).successors = <<>> /\ ReachedWithin(LineageDepth, start, final)
    BY DEF RequireLineage, LineageReaches
  <1>2. LineageDepth \in Nat
    BY ReservationsAssumption
  <1>3. PICK reach : /\ ReachOf(reach, LineageDepth, start, final, account)
                     /\ \E m \in 1..LineageDepth : start \in reach[m]
    BY <1>1, <1>2, ReachUnfolds
  <1> HIDE DEF account
  <1>4. \A m \in 1..LineageDepth : \A key \in reach[m] :
            \E S \in SUBSET Ids :
                admissions[key].id \in S /\ ClosedLineage(S, account, admissions[final].id)
    BY <1>1, <1>2, <1>3, WalkIsClosed
  <1> QED BY <1>3, <1>4 DEF account

(***************************************************************************)
(* A lineage that is closed stays closed: receipts, keys and lanes of what *)
(* is there are never written again.                                       *)
(***************************************************************************)
RecordsKept ==
    /\ \A i \in Ids : Exists(directives[i]) => directives'[i].lane = directives[i].lane
    /\ KeysStay
    /\ \A i \in DOMAIN receipts : i \in DOMAIN receipts' /\ receipts'[i] = receipts[i]
    /\ \A i \in DOMAIN receipts' \ DOMAIN receipts :
        Len(receipts'[i].successor_ids) = Len(receipts'[i].manifest.successors)
    /\ Grown(directives, directives')

LEMMA QueueKeepsRecords ==
    ASSUME HandoffInv, QueueStep
    PROVE  RecordsKept
  <1>1. KeepsRows(directives, directives') \/ AddsRow(directives, directives')
    BY NextKeeps DEF QueueStep, HandoffInv
  <1>2. ASSUME NEW i \in Ids, Exists(directives[i])
        PROVE  directives'[i].lane = directives[i].lane
    <2>1. CASE KeepsRows(directives, directives')
      BY <2>1 DEF KeepsRows, Fixed
    <2>2. CASE AddsRow(directives, directives')
      BY <1>2, <2>2 DEF AddsRow, IsNextId
    <2> QED BY <1>1, <2>1, <2>2
  <1>3. Grown(directives, directives')
    BY <1>1, KeptIsGrown, AddedIsGrown
  <1> QED BY <1>2, <1>3 DEF QueueStep, RecordsKept, KeysStay

LEMMA RootKeepsRecords ==
    ASSUME HandoffInv, NEW t \in Tasks, Fits(<<t>>), InsertTasks(<<t>>),
           Commit(DirectivesWith(<<t>>, Null)), receipts' = receipts
    PROVE  RecordsKept
  <1> DEFINE s == <<t>>
  <1>1. WellFormed(s)
    BY SingleTask
  <1>2. Fits(s) /\ InsertTasks(s) /\ directives' = DirectivesWith(s, Null)
    BY DEF Commit
  <1> HIDE DEF s
  <1>3. Grown(directives, directives')
    BY <1>1, <1>2, InsertGrows
  <1>4. KeysStay
    BY <1>1, <1>2, InsertEffect
  <1>5. ASSUME NEW i \in Ids, Exists(directives[i])
        PROVE  directives'[i] = directives[i]
    BY <1>1, <1>2, <1>5, InsertEffect
  <1> QED BY <1>3, <1>4, <1>5 DEF RecordsKept

LEMMA CompleteKeepsRecords ==
    ASSUME HandoffInv, NEW j \in Ids, NEW k \in 1..issued, NEW m \in Manifests,
           Complete(j, k, m)
    PROVE  RecordsKept
  <1> DEFINE s == m.successors
             e == DirectivesWith(s, j)
             ids == [n \in DOMAIN s |-> IdOf(s, n)]
             new == [token |-> k, manifest |-> m, successor_ids |-> ids]
  <1>1. /\ KeysStay /\ \A i \in Ids \ {j} : OnlyInserts(i)
        /\ j \notin DOMAIN receipts /\ DOMAIN receipts' = DOMAIN receipts \cup {j}
        /\ \A i \in DOMAIN receipts : receipts'[i] = receipts[i]
    BY CompleteEffect
  <1>2. receipts'[j] = new
    <2>1. receipts' = [i \in DOMAIN receipts \cup {j} |-> IF i = j THEN new ELSE receipts[i]]
      BY Zenon DEF Complete
    <2> HIDE DEF new
    <2> QED BY <2>1
  <1>3. Len(new.successor_ids) = Len(new.manifest.successors)
    <2>1. s \in Seq(Tasks)
      BY HandoffAssumption DEF Parses
    <2>2. Len(ids) = Len(s)
      BY <2>1
    <2> HIDE DEF ids
    <2> QED BY <2>2
  <1>4. directives'[j].lane = directives[j].lane
    <2>1. /\ Protected(directives[j]) /\ e[j] = directives[j]
          /\ Commit([e EXCEPT ![j] = Completed(e[j])])
      BY CompleteFacts
    <2>2. DOMAIN e = Ids
      BY DEF DirectivesWith
    <2> HIDE DEF e
    <2>3. directives'[j] = Completed(directives[j])
      BY <2>1, <2>2 DEF Commit
    <2>4. directives[j] \in Directive /\ Exists(directives[j])
      BY <2>1 DEF HandoffInv, TypeOK, Protected
    <2> QED BY <2>3, <2>4, CompletedRow DEF Fixed
  <1> HIDE DEF new
  <1>5. Grown(directives, directives')
    BY CompleteGrows
  <1>6. ASSUME NEW i \in Ids, Exists(directives[i])
        PROVE  directives'[i].lane = directives[i].lane
    BY <1>1, <1>4, <1>6 DEF OnlyInserts
  <1>7. \A i \in DOMAIN receipts' \ DOMAIN receipts :
            Len(receipts'[i].successor_ids) = Len(receipts'[i].manifest.successors)
    BY <1>1, <1>2, <1>3
  <1> QED BY <1>1, <1>5, <1>6, <1>7 DEF RecordsKept

LEMMA HandoffKeepsRecords ==
    ASSUME HandoffInv, HandoffNext
    PROVE  RecordsKept
  <1>1. ASSUME NEW t \in Roots, AdmitRoot(t)
        PROVE  RecordsKept
    BY <1>1, RootKeepsRecords, HandoffAssumption DEF AdmitRoot
  <1>2. ASSUME NEW i \in Ids, NEW k \in 1..issued, NEW m \in Manifests, Replay(i, k, m)
        PROVE  RecordsKept
    <2>1. directives' = directives /\ admissions' = admissions /\ receipts' = receipts
      BY <1>2 DEF Replay, Commit
    <2> QED BY <2>1 DEF RecordsKept, KeysStay, Grown
  <1> QED BY <1>1, <1>2, QueueKeepsRecords, CompleteKeepsRecords DEF HandoffNext

\* A closed lineage of the rows d and the receipts r.
ClosedIn(d, r, S, account, final) ==
    /\ final \in S
    /\ \A i \in S :
        /\ d[i].status = "done" /\ i \in DOMAIN r
        /\ d[i].lane = <<account, Stage(d[i].lane)>>
        /\ i = final => Stage(d[i].lane) = "publication" /\ r[i].successor_ids = <<>>
        /\ i # final =>
            /\ Len(r[i].successor_ids) = 1
            /\ LET j == r[i].successor_ids[1]
               IN  j \in S /\ Stage(d[i].lane) = Previous[Stage(d[j].lane)]

\* Whoever steps, a closed lineage stays one.
LEMMA ClosedStays ==
    ASSUME HandoffInv, HandoffInv', RecordsKept, NEW S \in SUBSET Ids, NEW account, NEW last,
           ClosedIn(directives, receipts, S, account, last)
    PROVE  ClosedIn(directives', receipts', S, account, last)
  <1>1. \A i \in S : i \in DOMAIN receipts
    BY DEF ClosedIn
  <1>2. \A i \in S : directives'[i].lane = directives[i].lane
    BY <1>1, ReceiptTypes DEF RecordsKept
  <1>3. \A i \in S : i \in DOMAIN receipts' /\ receipts'[i] = receipts[i]
    BY <1>1 DEF RecordsKept
  <1>4. \A i \in S : directives'[i].status = "done"
    <2>1. \A i \in DOMAIN receipts' : i \in Ids /\ SealedWhole(i)' /\ SettledRow(i)'
      BY DEF HandoffInv, HandoffTypeOK
    <2> QED BY <1>3, <2>1 DEF SealedWhole, SettledRow
  <1> QED BY <1>2, <1>3, <1>4 DEF ClosedIn

LineageInv ==
    /\ ReservationsInv
    /\ CountsSuccessors
    /\ NamesAdmitted
    /\ ParentsBelow(directives)
    /\ ReleasedIsFinished

\* The steps that leave reservations and deliveries alone.
LEMMA RecordsKeepLineage ==
    ASSUME LineageInv, ReservationsInv', RecordsKept, UNCHANGED <<reserved, delivered>>
    PROVE  LineageInv'
  <1>1. HandoffInv /\ HandoffInv' /\ HandoffTypeOK /\ ReservationsTypeOK
    BY DEF LineageInv, ReservationsInv, HandoffInv
  <1>2. CountsSuccessors'
    BY DEF LineageInv, CountsSuccessors, RecordsKept
  <1>3. NamesAdmitted'
    BY DEF LineageInv, NamesAdmitted, RecordsKept, KeysStay
  <1>4. ParentsBelow(directives')
    <2>1. PICK n \in 0..MaxId : FirstRows(directives, n)
      BY <1>1 DEF HandoffInv
    <2>2. directives' \in Table
      BY <1>1 DEF HandoffInv, TypeOK, Table
    <2> QED BY <2>1, <2>2, ParentsStayBelow DEF LineageInv, RecordsKept
  <1>5. ASSUME NEW key \in DOMAIN delivered
        PROVE  \E S \in SUBSET Ids :
                    /\ reserved'[key].id \in S
                    /\ ClosedIn(directives', receipts', S,
                                Account(directives'[reserved'[key].id].lane),
                                admissions'[delivered'[key].final].id)
    <2> DEFINE account == Account(directives[reserved[key].id].lane)
               last == admissions[delivered[key].final].id
    <2>1. PICK S \in SUBSET Ids :
            reserved[key].id \in S /\ ClosedIn(directives, receipts, S, account, last)
      BY DEF LineageInv, ReleasedIsFinished, ClosedLineage, ClosedIn
    <2>2. admissions'[delivered'[key].final].id = last
      BY DEF LineageInv, NamesAdmitted, RecordsKept, KeysStay
    <2>3. Account(directives'[reserved'[key].id].lane) = account
      <3>1. reserved[key].id \in DOMAIN receipts
        BY <2>1 DEF ClosedIn
      <3> QED BY <1>1, <3>1, ReceiptTypes DEF RecordsKept
    <2> HIDE DEF account, last
    <2>4. ClosedIn(directives', receipts', S, account, last)
      BY <1>1, <2>1, ClosedStays
    <2> QED BY <2>1, <2>2, <2>3, <2>4
  <1>6. ReleasedIsFinished'
    BY <1>5 DEF ReleasedIsFinished, ClosedLineage, ClosedIn
  <1> QED BY <1>2, <1>3, <1>4, <1>6 DEF LineageInv

LEMMA NothingRecorded ==
    ASSUME Commit(directives), UNCHANGED own
    PROVE  RecordsKept
  BY DEF Commit, own, RecordsKept, KeysStay, Grown

LEMMA ReserveKeepsLineage ==
    ASSUME LineageInv, ReservationsInv', NEW g \in Grants, Reserve(g)
    PROVE  LineageInv'
  <1> DEFINE t == g.task
             k == g.task.key
             new == [grant |-> g, id |-> IdOf(<<g.task>>, 1)]
  <1>1. HandoffInv /\ HandoffInv' /\ HandoffTypeOK /\ ReservationsTypeOK
    BY DEF LineageInv, ReservationsInv, HandoffInv
  <1>2. t \in Tasks
    BY ReservationsAssumption DEF Parsed
  <1>3. /\ k \notin DOMAIN reserved /\ k \notin DOMAIN admissions
        /\ Fits(<<t>>) /\ InsertTasks(<<t>>) /\ Commit(DirectivesWith(<<t>>, Null))
        /\ receipts' = receipts /\ delivered' = delivered
    BY DEF Reserve
  <1>4. /\ DOMAIN reserved' = DOMAIN reserved \cup {k}
        /\ reserved'[k] = new
        /\ \A key \in DOMAIN reserved : reserved'[key] = reserved[key]
    <2>1. reserved' = [key \in DOMAIN reserved \cup {k} |->
                        IF key = k THEN new ELSE reserved[key]]
      BY DEF Reserve
    <2> HIDE DEF new, k
    <2> QED BY <1>3, <2>1
  <1>5. RecordsKept
    BY <1>1, <1>2, <1>3, RootKeepsRecords
  <1>6. k \in DOMAIN admissions' /\ admissions'[k].id = new.id
    <2> DEFINE s == <<t>>
    <2>1. WellFormed(s) /\ Fits(s) /\ InsertTasks(s) /\ s[1] = t /\ DOMAIN s = {1}
      BY <1>2, <1>3, SingleTask
    <2>2. 1 \in NewTasks(s) /\ s[1].key = k
      BY <1>3, <2>1 DEF NewTasks
    <2>3. PICK n \in 0..MaxId : FirstRows(directives, n)
      BY <1>1 DEF HandoffInv
    <2> HIDE DEF s
    <2>4. \A a \in NewTasks(s) :
            admissions'[s[a].key] = [id |-> IdOf(s, a), body |-> s[a].body,
                                     lane |-> s[a].lane, priority |-> s[a].priority]
      BY <1>1, <2>1, <2>3, InsertedKeys
    <2>5. DOMAIN admissions' = DOMAIN admissions \cup {s[a].key : a \in NewTasks(s)}
      BY <2>1 DEF InsertTasks
    <2>6. new.id = IdOf(s, 1)
      BY DEF s
    <2> HIDE DEF new, k
    <2>7. admissions'[k].id = IdOf(s, 1)
      <3>1. \A a \in NewTasks(s) : admissions'[s[a].key].id = IdOf(s, a)
        <4>1. ASSUME NEW a \in NewTasks(s), NEW r,
                     r = [id |-> IdOf(s, a), body |-> s[a].body,
                          lane |-> s[a].lane, priority |-> s[a].priority]
              PROVE  r.id = IdOf(s, a)
          BY <4>1
        <4> QED BY <2>4, <4>1, Zenon
      <3> QED BY <2>2, <3>1, Zenon
    <2> QED BY <2>2, <2>5, <2>6, <2>7
  <1>7. CountsSuccessors'
    BY <1>3 DEF LineageInv, CountsSuccessors
  <1>8. NamesAdmitted'
    <2> HIDE DEF new, k
    <2>1. ASSUME NEW key \in DOMAIN reserved'
          PROVE  key \in DOMAIN admissions' /\ reserved'[key].id = admissions'[key].id
      <3>1. CASE key = k
        BY <1>4, <1>6, <3>1
      <3>2. CASE key # k
        BY <1>4, <1>5, <3>2 DEF LineageInv, NamesAdmitted, RecordsKept, KeysStay
      <3> QED BY <3>1, <3>2
    <2>2. \A key \in DOMAIN delivered' : delivered'[key].final \in DOMAIN admissions'
      BY <1>3, <1>5 DEF LineageInv, NamesAdmitted, RecordsKept, KeysStay
    <2> QED BY <2>1, <2>2 DEF NamesAdmitted
  <1>9. ParentsBelow(directives')
    <2>1. PICK n \in 0..MaxId : FirstRows(directives, n)
      BY <1>1 DEF HandoffInv
    <2>2. directives' \in Table
      BY <1>1 DEF HandoffInv, TypeOK, Table
    <2> QED BY <1>5, <2>1, <2>2, ParentsStayBelow DEF LineageInv, RecordsKept
  <1> HIDE DEF k, new
  <1>10. ASSUME NEW key \in DOMAIN delivered
         PROVE  \E S \in SUBSET Ids :
                    /\ reserved'[key].id \in S
                    /\ ClosedIn(directives', receipts', S,
                                Account(directives'[reserved'[key].id].lane),
                                admissions'[delivered'[key].final].id)
    <2> DEFINE account == Account(directives[reserved[key].id].lane)
               last == admissions[delivered[key].final].id
    <2>1. PICK S \in SUBSET Ids :
            reserved[key].id \in S /\ ClosedIn(directives, receipts, S, account, last)
      BY DEF LineageInv, ReleasedIsFinished, ClosedLineage, ClosedIn
    <2>2. admissions'[delivered'[key].final].id = last
      BY <1>3, <1>5 DEF LineageInv, NamesAdmitted, RecordsKept, KeysStay
    <2>3. reserved'[key] = reserved[key]
      BY <1>1, <1>4 DEF ReservationsTypeOK
    <2>4. Account(directives'[reserved'[key].id].lane) = account
      <3>1. reserved[key].id \in DOMAIN receipts
        BY <2>1 DEF ClosedIn
      <3> QED BY <1>1, <1>5, <2>3, <3>1, ReceiptTypes DEF RecordsKept
    <2> HIDE DEF account, last
    <2>5. ClosedIn(directives', receipts', S, account, last)
      BY <1>1, <1>5, <2>1, ClosedStays
    <2> QED BY <2>1, <2>2, <2>3, <2>4, <2>5
  <1>11. ReleasedIsFinished'
    BY <1>3, <1>10 DEF ReleasedIsFinished, ClosedLineage, ClosedIn
  <1> QED BY <1>7, <1>8, <1>9, <1>11 DEF LineageInv

LEMMA DeliverKeepsLineage ==
    ASSUME LineageInv, ReservationsInv', NEW key \in Keys, NEW final \in Keys,
           NEW m \in Manifests, RecordDelivery(key, final, m.evidence)
    PROVE  LineageInv'
  <1> DEFINE new == [final |-> final, digest |-> m.evidence]
  <1>1. HandoffInv /\ HandoffTypeOK /\ ReservationsTypeOK
    BY DEF LineageInv, ReservationsInv, HandoffInv
  <1>2. /\ key \in DOMAIN reserved /\ key \notin DOMAIN delivered
        /\ RequireLineage(key, final, m.evidence)
        /\ directives' = directives /\ admissions' = admissions /\ receipts' = receipts
        /\ reserved' = reserved
    BY DEF RecordDelivery, Active, Commit, own
  <1>3. /\ DOMAIN delivered' = DOMAIN delivered \cup {key}
        /\ delivered'[key] = new
        /\ \A k \in DOMAIN delivered : delivered'[k] = delivered[k]
    <2>1. delivered' = [k \in DOMAIN delivered \cup {key} |->
                            IF k = key THEN new ELSE delivered[k]]
      BY DEF RecordDelivery
    <2> HIDE DEF new
    <2> QED BY <1>2, <2>1
  <1>4. new.final = final /\ final \in DOMAIN admissions
    BY <1>2 DEF RequireLineage, SettledStage
  <1> HIDE DEF new
  <1>5. CountsSuccessors'
    BY <1>2 DEF LineageInv, CountsSuccessors
  <1>6. NamesAdmitted'
    BY <1>2, <1>3, <1>4 DEF LineageInv, NamesAdmitted
  <1>7. ASSUME NEW k \in DOMAIN delivered'
        PROVE  \E S \in SUBSET Ids :
                    /\ reserved[k].id \in S
                    /\ ClosedLineage(S, Account(directives[reserved[k].id].lane),
                                     admissions[delivered'[k].final].id)
    <2>1. CASE k = key
      <3>1. reserved[key].id = admissions[key].id
        BY <1>2 DEF LineageInv, NamesAdmitted
      <3>2. directives[admissions[key].id].lane = admissions[key].lane
        BY <1>2 DEF RequireLineage, SettledStage
      <3>3. \E S \in SUBSET Ids :
                /\ admissions[key].id \in S
                /\ ClosedLineage(S, Account(admissions[key].lane), admissions[final].id)
        BY <1>1, <1>2, AcceptedIsClosed DEF LineageInv
      <3> QED BY <1>3, <1>4, <2>1, <3>1, <3>2, <3>3
    <2>2. CASE k # key
      <3>1. k \in DOMAIN delivered /\ delivered'[k] = delivered[k]
        BY <1>3, <2>2
      <3> QED BY <3>1 DEF LineageInv, ReleasedIsFinished
    <2> QED BY <2>1, <2>2
  <1>8. ReleasedIsFinished'
    BY <1>2, <1>7 DEF ReleasedIsFinished, ClosedLineage
  <1>9. ParentsBelow(directives')
    BY <1>2 DEF LineageInv
  <1> QED BY <1>5, <1>6, <1>8, <1>9 DEF LineageInv

LEMMA LineageInitInv == ReservationsInit => LineageInv
  <1> SUFFICES ASSUME ReservationsInit PROVE LineageInv
    OBVIOUS
  <1>1. ReservationsInv
    BY ReservationsInitInv
  <1>2. DOMAIN reserved = {} /\ DOMAIN delivered = {} /\ DOMAIN receipts = {}
    BY DEF ReservationsInit, HandoffInit
  <1>3. ParentsBelow(directives)
    <2>1. Absent.status = "absent"
      BY DEF Absent, Pending
    <2> QED BY <2>1 DEF ReservationsInit, HandoffInit, Init, ParentsBelow, Exists
  <1> QED BY <1>1, <1>2, <1>3 DEF LineageInv, CountsSuccessors, NamesAdmitted,
                                  ReleasedIsFinished

LEMMA LineageInductive ==
    ASSUME KnownIds, LineageInv, [ReservationsNext]_rvars
    PROVE  LineageInv'
  <1>1. HandoffInv /\ ReservationsInv'
    BY ReservationsInductive DEF LineageInv, ReservationsInv
  <1>2. CASE HandoffNext /\ UNCHANGED <<reserved, delivered>>
    BY <1>1, <1>2, HandoffKeepsRecords, RecordsKeepLineage
  <1>3. ASSUME NEW g \in Grants, Reserve(g)
        PROVE  LineageInv'
    BY <1>1, <1>3, ReserveKeepsLineage
  <1>4. ASSUME NEW key \in Keys, NEW final \in Keys, NEW m \in Manifests,
               RecordDelivery(key, final, m.evidence)
        PROVE  LineageInv'
    BY <1>1, <1>4, DeliverKeepsLineage
  <1>5. CASE Repeat
    BY <1>1, <1>5, NothingRecorded, RecordsKeepLineage DEF Repeat
  <1>6. CASE UNCHANGED rvars
    <2>1. RecordsKept
      BY <1>6 DEF rvars, hvars, vars, own, RecordsKept, KeysStay, Grown
    <2> QED BY <1>1, <1>6, <2>1, RecordsKeepLineage DEF rvars
  <1> QED BY <1>2, <1>3, <1>4, <1>5, <1>6 DEF ReservationsNext

LEMMA LineageInvariant == KnownIds => (ReservationsSpec => []LineageInv)
  <1> SUFFICES ASSUME KnownIds PROVE ReservationsSpec => []LineageInv
    OBVIOUS
  <1>1. LineageInv /\ [ReservationsNext]_rvars => LineageInv'
    BY LineageInductive
  <1> QED BY <1>1, LineageInitInv, PTL DEF ReservationsSpec

\* Paths are released only when everything the root led to is settled, by one
\* account, with no stage skipped and no sibling pending, however long the
\* lineage is; and it stays so (require_lineage, record_delivery).
THEOREM ReleasedStaysFinished == KnownIds => (ReservationsSpec => []ReleasedIsFinished)
  <1>1. LineageInv => ReleasedIsFinished
    BY DEF LineageInv
  <1> QED BY <1>1, LineageInvariant, PTL

(***************************************************************************)
(* The other direction: what is settled in order is found by the walk.     *)
(***************************************************************************)
\* The stages of a closed lineage pass stage_node and stage_manifest.
LEMMA ClosedIsSettled ==
    ASSUME HandoffInv, NEW S, NEW account, NEW last, ClosedLineage(S, account, last),
           NEW key \in DOMAIN admissions, admissions[key].id \in S
    PROVE  /\ SettledStage(key)
           /\ admissions[key].lane = directives[admissions[key].id].lane
           /\ admissions[key].lane = <<account, Stage(admissions[key].lane)>>
  <1> DEFINE i == admissions[key].id
  <1>1. /\ Protected(directives[i]) /\ body[i] = admissions[key].body
        /\ directives[i].lane = admissions[key].lane
    BY DEF HandoffInv, KeyNamesOneDirective
  <1>2. /\ directives[i].status = "done" /\ i \in DOMAIN receipts
        /\ directives[i].lane = <<account, Stage(directives[i].lane)>>
    BY DEF ClosedLineage
  <1>3. receipts[i].manifest.input = body[i]
    BY <1>2 DEF HandoffInv, SealedWhole
  <1> QED BY <1>1, <1>2, <1>3 DEF SettledStage

\* A stage of the lineage that is not the last is the one above its successor.
LEMMA SuccessorInLineage ==
    ASSUME HandoffInv, CountsSuccessors, ParentsBelow(directives),
           NEW S \in SUBSET Ids, NEW account, NEW last,
           ClosedLineage(S, account, last), AsPublished(S),
           NEW above \in DOMAIN admissions, admissions[above].id \in S,
           admissions[above].id # last
    PROVE  \E key \in DOMAIN admissions :
            /\ admissions[key].id \in S
            /\ admissions[above].id < admissions[key].id
            /\ above \in StagesAbove(key, account)
  <1> DEFINE i == admissions[above].id
             j == receipts[i].successor_ids[1]
             t == receipts[i].manifest.successors[1]
  <1>1. /\ SettledStage(above) /\ admissions[above].lane = directives[i].lane
        /\ admissions[above].lane = <<account, Stage(admissions[above].lane)>>
    BY ClosedIsSettled
  <1>2. /\ i \in DOMAIN receipts /\ Len(receipts[i].successor_ids) = 1 /\ j \in S
        /\ Stage(directives[i].lane) = Previous[Stage(directives[j].lane)]
    BY DEF ClosedLineage
  <1>3. /\ i \in Ids /\ receipts[i].successor_ids \in Seq(Ids)
        /\ receipts[i].manifest.successors \in Seq(Tasks) /\ SealedWhole(i)
    BY <1>2, ReceiptTypes DEF HandoffInv
  <1>4. Len(receipts[i].manifest.successors) = 1
    BY <1>2 DEF CountsSuccessors
  <1>5. /\ 1 \in DOMAIN receipts[i].manifest.successors /\ t \in Tasks
        /\ receipts[i].manifest.successors = <<t>>
    BY <1>3, <1>4
  <1>6. /\ t.key \in DOMAIN admissions /\ admissions[t.key].id = j
        /\ Recorded(t.key) = Fingerprint(t)
    BY <1>3, <1>5 DEF SealedWhole
  <1>7. directives[j].parent = i /\ directives[j].priority = t.priority
    <2>1. 1 \in DOMAIN receipts[i].successor_ids
      BY <1>2, <1>3
    <2> QED BY <2>1 DEF AsPublished
  <1>8. body[j] = t.body /\ directives[j].lane = t.lane
    <2>1. body[j] = admissions[t.key].body /\ directives[j].lane = admissions[t.key].lane
      BY <1>6 DEF HandoffInv, KeyNamesOneDirective
    <2>2. admissions[t.key].body = t.body /\ admissions[t.key].lane = t.lane
      BY <1>6 DEF Recorded, Fingerprint
    <2> QED BY <2>1, <2>2
  <1>9. i < j
    <2>1. j \in DOMAIN receipts
      BY <1>2 DEF ClosedLineage
    <2>2. j \in Ids /\ Exists(directives[j])
      BY <2>1, ReceiptTypes
    <2>3. i # Null
      BY <1>3 DEF Ids, Null
    <2> QED BY <1>7, <2>2, <2>3 DEF ParentsBelow
  <1>10. Linked(above, t.key)
    <2>1. t = [key |-> t.key, body |-> body[j], lane |-> directives[j].lane,
               priority |-> directives[j].priority]
      <3>1. t = [key |-> t.key, body |-> t.body, lane |-> t.lane, priority |-> t.priority]
        BY <1>5, TaskIsRecord
      <3> QED BY <1>7, <1>8, <3>1
    <2> HIDE DEF t
    <2> QED BY <1>5, <1>6, <2>1 DEF Linked, Sealing
  <1>11. admissions[above].lane = <<account, Previous[Stage(directives[j].lane)]>>
    BY <1>1, <1>2
  <1>12. above \in StagesAbove(t.key, account)
    BY <1>1, <1>6, <1>7, <1>10, <1>11 DEF StagesAbove
  <1> QED BY <1>2, <1>6, <1>9, <1>12

\* A stage is reached after no more steps than there are stages of the lineage
\* from it down: ids grow from a stage to its successor.
LEMMA WalkReaches ==
    ASSUME HandoffInv, CountsSuccessors, ParentsBelow(directives),
           NEW S \in SUBSET Ids, NEW account, NEW n \in Nat, NEW reach,
           NEW start \in DOMAIN admissions, NEW final \in DOMAIN admissions,
           ClosedLineage(S, account, admissions[final].id), AsPublished(S),
           ReachOf(reach, n, start, final, account)
    PROVE  \A k \in Nat : k <= n =>
            \A key \in DOMAIN admissions :
                /\ admissions[key].id \in S
                /\ admissions[start].id <= admissions[key].id
                /\ Cardinality({i \in S : admissions[key].id <= i}) <= k
                => \E m \in 1..k : key \in reach[m]
  <1> DEFINE From(i) == {j \in S : i <= j}
             Near(k) == {key \in DOMAIN admissions :
                            /\ admissions[key].id \in S
                            /\ admissions[start].id <= admissions[key].id
                            /\ Cardinality(From(admissions[key].id)) <= k}
             T == {k \in Nat : k <= n => \A key \in Near(k) : \E m \in 1..k : key \in reach[m]}
  <1>1. \A m \in 1..n : reach[m] =
            IF m = 1 THEN {final}
            ELSE UNION {StagesAbove(key, account) : key \in reach[m - 1] \ {start}}
    BY DEF ReachOf
  <1>2. IsFiniteSet(S) /\ Ids \subseteq Int /\ S \subseteq Int
    <2>1. IsFiniteSet(Ids)
      BY FS_Interval, DirectivesAssumption DEF Ids
    <2>2. IsFiniteSet(S)
      BY <2>1, FS_Subset
    <2>3. Ids \subseteq Int
      BY DirectivesAssumption DEF Ids
    <2> QED BY <2>2, <2>3
  <1>3. \A key \in DOMAIN admissions : admissions[key].id \in Ids
    BY DEF HandoffInv, HandoffTypeOK, Admission
  <1>4. ASSUME NEW i \in S
        PROVE  /\ IsFiniteSet(From(i)) /\ Cardinality(From(i)) \in Nat \ {0}
               /\ \A j \in S : i < j => Cardinality(From(j)) < Cardinality(From(i))
    <2>1. \A j \in S : IsFiniteSet(From(j)) /\ Cardinality(From(j)) \in Nat
      <3>1. \A j \in S : From(j) \in SUBSET S
        OBVIOUS
      <3> HIDE DEF From
      <3> QED BY <1>2, <3>1, FS_Subset, FS_CardinalityType
    <2>2. i \in From(i)
      BY <1>2
    <2>3. ASSUME NEW j \in S, i < j
          PROVE  Cardinality(From(j)) < Cardinality(From(i))
      <3>1. From(j) \in SUBSET From(i) /\ i \notin From(j)
        <4>1. i \in Int /\ j \in Int /\ \A m \in S : m \in Int
          BY <1>2
        <4>2. \A m \in S : j <= m => i <= m
          BY <2>3, <4>1
        <4>3. ~(j <= i)
          BY <2>3, <4>1
        <4> QED BY <4>2, <4>3
      <3> HIDE DEF From
      <3>2. /\ Cardinality(From(j)) <= Cardinality(From(i))
            /\ Cardinality(From(i)) # Cardinality(From(j))
        BY <2>1, <2>2, <3>1, FS_Subset
      <3> QED BY <2>1, <3>2
    <2>4. Cardinality(From(i)) # 0
      <3> HIDE DEF From
      <3> QED BY <2>1, <2>2, FS_EmptySet
    <2> QED BY <2>1, <2>3, <2>4
  <1> HIDE DEF From
  <1>5. 0 \in T
    BY <1>4
  <1>6. ASSUME NEW k \in Nat, k \in T
        PROVE  k + 1 \in T
    <2> SUFFICES ASSUME k + 1 <= n, NEW above \in Near(k + 1)
                 PROVE  \E m \in 1..(k + 1) : above \in reach[m]
      OBVIOUS
    <2>1. CASE admissions[above].id = admissions[final].id
      <3>1. above = final
        BY <2>1 DEF HandoffInv, KeyNamesOneDirective
      <3>2. 1 \in 1..n /\ 1 \in 1..(k + 1)
        OBVIOUS
      <3>3. reach[1] = {final}
        BY <1>1, <3>2
      <3> QED BY <3>1, <3>2, <3>3
    <2>2. CASE admissions[above].id # admissions[final].id
      <3>1. PICK key \in DOMAIN admissions :
                /\ admissions[key].id \in S
                /\ admissions[above].id < admissions[key].id
                /\ above \in StagesAbove(key, account)
        BY <2>2, SuccessorInLineage
      <3>2. Cardinality(From(admissions[key].id)) <= k
        BY <1>4, <3>1
      <3>3. admissions[start].id <= admissions[key].id /\ key # start
        <4>1. /\ admissions[start].id \in Int /\ admissions[above].id \in Int
              /\ admissions[key].id \in Int
          BY <1>2, <1>3
        <4>2. admissions[start].id <= admissions[above].id
          OBVIOUS
        <4>3. ~(admissions[key].id <= admissions[start].id)
          BY <3>1, <4>1, <4>2
        <4> QED BY <4>1, <4>3
      <3>4. PICK m \in 1..k : key \in reach[m]
        BY <1>6, <3>1, <3>2, <3>3
      <3>5. m + 1 \in 1..n /\ m + 1 \in 1..(k + 1) /\ m + 1 # 1 /\ (m + 1) - 1 = m
        OBVIOUS
      <3>6. reach[m + 1] = UNION {StagesAbove(x, account) : x \in reach[m] \ {start}}
        BY <1>1, <3>5
      <3> QED BY <3>1, <3>3, <3>4, <3>5, <3>6
    <2> QED BY <2>1, <2>2
  <1>7. Nat \subseteq T
    <2> HIDE DEF T
    <2> QED BY <1>5, <1>6, NatSets
  <1> QED BY <1>7 DEF From

LEMMA ClosedIsAccepted ==
    ASSUME LineageInv, NEW start \in DOMAIN admissions, NEW final \in DOMAIN admissions,
           NEW S \in SUBSET Ids, admissions[start].id \in S,
           ClosedLineage(S, Account(directives[admissions[start].id].lane), admissions[final].id),
           AsPublished(S), Cardinality(S) <= LineageDepth
    PROVE  RequireLineage(start, final, receipts[admissions[final].id].manifest.evidence)
  <1> DEFINE account == Account(directives[admissions[start].id].lane)
             last == admissions[final].id
  <1>1. HandoffInv /\ CountsSuccessors /\ ParentsBelow(directives)
    BY DEF LineageInv, ReservationsInv
  <1>2. last \in S /\ last \in DOMAIN receipts
        /\ Stage(directives[last].lane) = "publication" /\ receipts[last].successor_ids = <<>>
    BY DEF ClosedLineage
  <1>3. SettledStage(start) /\ admissions[start].lane = directives[admissions[start].id].lane
    BY <1>1, ClosedIsSettled
  <1>4. SettledStage(final) /\ admissions[final].lane = <<account, "publication">>
    BY <1>1, <1>2, ClosedIsSettled
  <1>5. Sealing(final).successors = <<>>
    <2>1. Len(receipts[last].manifest.successors) = 0
      BY <1>1, <1>2 DEF CountsSuccessors
    <2>2. receipts[last].manifest.successors \in Seq(Tasks)
      BY <1>1, <1>2, ReceiptTypes
    <2> QED BY <2>1, <2>2 DEF Sealing
  <1>6. account = Account(admissions[start].lane)
    BY <1>3
  <1> HIDE DEF account
  <1>7. LineageReaches(start, final)
    <2>0. LineageDepth \in Nat
      BY ReservationsAssumption
    <2>1. PICK reach :
            /\ ReachOf(reach, LineageDepth, start, final, account)
            /\ ReachedWithin(LineageDepth, start, final) <=>
                    \E m \in 1..LineageDepth : start \in reach[m]
      BY <1>6, <2>0, ReachUnfolds
    <2>2. Cardinality({i \in S : admissions[start].id <= i}) <= LineageDepth
      <3>1. IsFiniteSet(S)
        <4>1. IsFiniteSet(Ids)
          BY FS_Interval, DirectivesAssumption DEF Ids
        <4> QED BY <4>1, FS_Subset
      <3>2. {i \in S : admissions[start].id <= i} \in SUBSET S
        OBVIOUS
      <3>3. /\ Cardinality({i \in S : admissions[start].id <= i}) <= Cardinality(S)
            /\ IsFiniteSet({i \in S : admissions[start].id <= i})
        BY <3>1, <3>2, FS_Subset
      <3>4. /\ Cardinality(S) \in Nat
            /\ Cardinality({i \in S : admissions[start].id <= i}) \in Nat
        BY <3>1, <3>3, FS_CardinalityType
      <3> QED BY <2>0, <3>3, <3>4
    <2>3. admissions[start].id <= admissions[start].id
      BY <1>1, DirectivesAssumption DEF Ids
    <2>4. ClosedLineage(S, account, last)
      BY DEF account
    <2>5. \A k \in Nat : k <= LineageDepth =>
            \A key \in DOMAIN admissions :
                /\ admissions[key].id \in S
                /\ admissions[start].id <= admissions[key].id
                /\ Cardinality({i \in S : admissions[key].id <= i}) <= k
                => \E m \in 1..k : key \in reach[m]
      BY <1>1, <2>0, <2>1, <2>4, WalkReaches
    <2>6. \E m \in 1..LineageDepth : start \in reach[m]
      BY <2>0, <2>2, <2>3, <2>5
    <2> QED BY <2>1, <2>6 DEF LineageReaches
  <1> QED BY <1>3, <1>4, <1>5, <1>6, <1>7 DEF RequireLineage, Sealing

\* The paths of work whose stages are all settled in order, as they were
\* published, can be released: the loop of require_lineage finds the root.
THEOREM FinishedCanBeReleased == KnownIds => (ReservationsSpec => []FinishedIsReleasable)
  <1>1. LineageInv => FinishedIsReleasable
    <2> SUFFICES ASSUME LineageInv, NEW key \in Active, NEW final \in DOMAIN admissions,
                        NEW S \in SUBSET Ids, reserved[key].id \in S,
                        ClosedLineage(S, Account(directives[reserved[key].id].lane),
                                      admissions[final].id),
                        AsPublished(S), Cardinality(S) <= LineageDepth
                 PROVE  RequireLineage(key, final,
                                       receipts[admissions[final].id].manifest.evidence)
      BY DEF FinishedIsReleasable
    <2>1. key \in DOMAIN admissions /\ reserved[key].id = admissions[key].id
      BY DEF LineageInv, NamesAdmitted, Active
    <2> QED BY <2>1, ClosedIsAccepted
  <1> QED BY <1>1, LineageInvariant, PTL
=============================================================================
