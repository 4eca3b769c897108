---------------------------- MODULE BridgeProofs ----------------------------
(***************************************************************************)
(* What the bridge tells a client stays true of the stage.  The reply is   *)
(* read in one transaction, so nothing need be known of how the operation  *)
(* came to it; from then on it is the steps of everybody else that must    *)
(* not take it back.  They are steps of the queue and of the handoffs, as  *)
(* are those of the bridge, and what such steps keep is known: keys their  *)
(* directives (KeysStay), protected directives their only claim (Seals),   *)
(* tokens their one directive and promises their rows (QueueHolds).        *)
(***************************************************************************)
EXTENDS BridgeProperties, HandoffProofs

-----------------------------------------------------------------------------
(***************************************************************************)
(* A reply, and what a step leaves of it.                                  *)
(***************************************************************************)
Tells(b) ==
    /\ b.key \in DOMAIN admissions /\ admissions[b.key].id = b.id
    /\ IF b.id \in DOMAIN receipts THEN receipts[b.id].token = b.token
                                   ELSE directives[b.id].token = b.token

\* The lease told of runs, and is what the claim is promised.
TellsGranted(b) == b.lease > now /\ b.lease = granted[b.token]

StaysTold(b) ==
    /\ b.key \in DOMAIN admissions' /\ admissions'[b.key].id = b.id
    /\ IF b.id \in DOMAIN receipts' THEN receipts'[b.id].token = b.token
                                    ELSE directives'[b.id].token = b.token

LEMMA KeysAlwaysStay ==
    ASSUME HandoffInv, [HandoffNext]_hvars
    PROVE  KeysStay
  <1>1. CASE UNCHANGED admissions
    BY <1>1 DEF KeysStay
  <1>2. ASSUME NEW t \in Roots, AdmitRoot(t)
        PROVE  KeysStay
    BY <1>2, AdmitEffect
  <1>3. ASSUME NEW j \in Ids, NEW k \in 1..issued, NEW m \in Manifests,
               Complete(j, k, m) \/ Replay(j, k, m)
        PROVE  KeysStay
    BY <1>1, <1>3, CompleteEffect DEF Replay
  <1>4. QueueStep \/ UNCHANGED hvars => UNCHANGED admissions
    BY DEF QueueStep, hvars, own
  <1> QED BY <1>1, <1>2, <1>3, <1>4 DEF HandoffNext

LEMMA SealedUnderTheClaim ==
    ASSUME HandoffInv, [HandoffNext]_hvars, NEW i \in DOMAIN receipts' \ DOMAIN receipts
    PROVE  receipts'[i].token = directives[i].token
  <1>1. ASSUME NEW j \in Ids, NEW k \in 1..issued, NEW m \in Manifests, Complete(j, k, m)
        PROVE  receipts'[i].token = directives[i].token
    BY <1>1, CompleteEffect
  <1>2. ASSUME NEW t \in Roots, AdmitRoot(t)
        PROVE  UNCHANGED receipts
    BY <1>2, AdmitEffect
  <1>3. ASSUME NEW j \in Ids, NEW k \in 1..issued, NEW m \in Manifests, Replay(j, k, m)
        PROVE  UNCHANGED receipts
    BY <1>3 DEF Replay
  <1>4. QueueStep \/ UNCHANGED hvars => UNCHANGED receipts
    BY DEF QueueStep, hvars, own
  <1> QED BY <1>1, <1>2, <1>3, <1>4 DEF HandoffNext

LEMMA ReplyStays ==
    ASSUME HandoffInv, HandoffInv', [HandoffNext]_hvars, NEW b \in Bridge, Tells(b)
    PROVE  StaysTold(b)
  <1>1. KeysStay /\ Seals
    BY KeysAlwaysStay, StepSeals
  <1>2. /\ b.key \in DOMAIN admissions' /\ admissions'[b.key].id = b.id
        /\ b.id \in Ids /\ Protected(directives[b.id]) /\ b.token # Null
    <2>1. b.id \in Ids /\ b.token # Null
      BY QueueAssumption DEF Bridge, Tokens, Null
    <2> QED BY <1>1, <2>1 DEF Tells, KeysStay, HandoffInv, KeyNamesOneDirective
  <1>3. CASE b.id \in DOMAIN receipts
    <2>1. receipts[b.id].token = b.token
      BY <1>3 DEF Tells
    <2>2. b.id \in DOMAIN receipts' /\ receipts'[b.id] = receipts[b.id]
      BY <1>1, <1>2, <1>3 DEF Seals
    <2> QED BY <1>2, <2>1, <2>2 DEF StaysTold
  <1>4. CASE b.id \notin DOMAIN receipts
    <2>1. directives[b.id].token = b.token
      BY <1>4 DEF Tells
    <2>2. CASE b.id \in DOMAIN receipts'
      BY <1>2, <1>4, <2>1, <2>2, SealedUnderTheClaim DEF StaysTold
    <2>3. CASE b.id \notin DOMAIN receipts'
      <3>1. directives'[b.id].token = directives[b.id].token
        BY <1>1, <1>2, <2>1, <2>3 DEF Seals
      <3> QED BY <1>2, <2>1, <2>3, <3>1 DEF StaysTold
    <2> QED BY <2>2, <2>3
  <1> QED BY <1>3, <1>4

-----------------------------------------------------------------------------
(***************************************************************************)
(* The steps of the bridge.                                                *)
(***************************************************************************)
\* What a step of client c does beside the queue: it moves c, to a reply only
\* when the stage is as told, and to a touch only with a token given out.
Moved(c) ==
    /\ bridge' \in [Clients -> Bridge]
    /\ \A d \in Clients \ {c} : bridge'[d] = bridge[d]
    /\ bridge'[c].at = "touch" => bridge'[c].token <= issued'
    /\ bridge'[c].at = "told" =>
        UNCHANGED hvars /\ Tells(bridge'[c]) /\ TellsGranted(bridge'[c])

LEMMA MoveFacts ==
    ASSUME BridgeTypeOK, NEW c \in Clients, NEW b \in Bridge, Move(c, b),
           b.at = "touch" => b.token <= issued',
           b.at = "told" => UNCHANGED hvars /\ Tells(b) /\ TellsGranted(b)
    PROVE  Moved(c)
  <1>1. bridge' = [bridge EXCEPT ![c] = b] /\ bridge \in [Clients -> Bridge]
    BY DEF Move, BridgeTypeOK
  <1>2. bridge'[c] = b
    BY <1>1
  <1> QED BY <1>1, <1>2 DEF Moved

LEMMA RestType ==
    /\ AtRest \in Bridge /\ AtRest.at = "idle"
    /\ \A at \in {"idle", "identify", "touch", "inspect", "told"}, i \in Ids, k \in Tokens :
        /\ [AtRest EXCEPT !.at = at, !.id = i, !.token = k] \in Bridge
        /\ [AtRest EXCEPT !.at = at, !.id = i, !.token = k].at = at
  <1>1. /\ (CHOOSE key \in Keys : TRUE) \in Keys /\ 1 \in Ids /\ 1 \in Tokens /\ Null \in Nat
    BY BridgeAssumption, QueueAssumption, DirectivesAssumption DEF Ids, Tokens, Null
  <1> QED BY <1>1 DEF AtRest, Bridge

LEMMA CalledType ==
    ASSUME NEW key \in Keys, NEW i \in Ids, NEW k \in Tokens
    PROVE  [AtRest EXCEPT !.key = key, !.id = i, !.token = k] \in Bridge
  BY RestType DEF Bridge

LEMMA SnapshotMoves ==
    ASSUME HandoffInv, LeasePromised, BridgeTypeOK, NEW c \in Clients, NEW b \in Bridge,
           Snapshot(c, b)
    PROVE  Moved(c) /\ UNCHANGED hvars
  <1> DEFINE r == [b EXCEPT !.at = "told", !.lease = directives[b.id].lease]
  <1>1. /\ b.key \in DOMAIN admissions /\ admissions[b.key].id = b.id
        /\ Protected(directives[b.id])
        /\ directives[b.id].status = "taken" /\ directives[b.id].token = b.token
        /\ directives[b.id].lease > now
        /\ Move(c, r) /\ UNCHANGED hvars
    BY DEF Snapshot, Found, HoldsClaim
  <1>2. b.id \in Ids /\ directives[b.id].lease \in Nat
    BY DEF Bridge, HandoffInv, TypeOK, Directive
  <1>3. b.id \notin DOMAIN receipts
    BY <1>1, <1>2 DEF HandoffInv, SettledRow
  <1>4. /\ r \in Bridge /\ r.at = "told"
        /\ r.key = b.key /\ r.id = b.id /\ r.token = b.token
        /\ r.lease = directives[b.id].lease
    BY <1>2 DEF Bridge
  <1> HIDE DEF r
  <1>5. Tells(r)
    BY <1>1, <1>3, <1>4 DEF Tells
  <1>6. TellsGranted(r)
    <2>1. b.token # Null
      BY QueueAssumption DEF Bridge, Tokens, Null
    <2> QED BY <1>1, <1>2, <1>4, <2>1 DEF TellsGranted, LeasePromised, Promised
  <1> QED BY <1>1, <1>4, <1>5, <1>6, MoveFacts

TouchesGiven == \A c \in Clients : bridge[c].at = "touch" => bridge[c].token <= issued

AllTold == \A c \in Clients : bridge[c].at = "told" => Tells(bridge[c])

BridgeInv == HandoffInv /\ QueueHolds /\ BridgeTypeOK /\ TouchesGiven /\ AllTold

\* A worker's step inserts no row, so it leaves the bodies alone.
LEMMA WorkerIsQueueStep ==
    ASSUME HandoffInv, WorkerStep, UNCHANGED own
    PROVE  QueueStep
  <1>1. \A i \in Ids : Exists(directives'[i]) <=> Exists(directives[i])
    BY WorkerStepKeeps DEF HandoffInv, KeepsRows, Fixed
  <1>2. {i \in Ids : ~Exists(directives[i]) /\ Exists(directives'[i])} = {}
    BY <1>1
  <1>3. Next
    BY DEF Next
  <1> QED BY <1>2, <1>3 DEF QueueStep, own

LEMMA ClaimMoves ==
    ASSUME HandoffInv, BridgeTypeOK, NEW c \in Clients, Claim(c)
    PROVE  Moved(c) /\ QueueStep
  <1>1. Owner[c].lane \in Lanes /\ Owner[c].lease \in Leases /\ "hold" \in Policies
    BY BridgeAssumption DEF Policies
  <1>2. CASE /\ Take(Owner[c].lane, "hold", Owner[c].lease)
             /\ \E i \in Ids :
                    Move(c, [AtRest EXCEPT !.at = "identify", !.id = i, !.token = issued'])
    <2>1. issued' \in Tokens
      BY <1>2 DEF Take
    <2>2. PICK i \in Ids :
              Move(c, [AtRest EXCEPT !.at = "identify", !.id = i, !.token = issued'])
      BY <1>2
    <2> DEFINE b == [AtRest EXCEPT !.at = "identify", !.id = i, !.token = issued']
    <2>3. b \in Bridge /\ b.at = "identify"
      BY <2>1, RestType
    <2> HIDE DEF b
    <2>4. Moved(c)
      BY <2>2, <2>3, MoveFacts DEF b
    <2>5. WorkerStep
      BY <1>1, <1>2 DEF WorkerStep
    <2> QED BY <2>4, <2>5, WorkerIsQueueStep DEF Claim
  <1>3. CASE TakeNothing(Owner[c].lane, "hold") /\ Move(c, AtRest)
    <2>1. Moved(c)
      BY <1>3, RestType, MoveFacts
    <2>2. WorkerStep
      BY <1>1, <1>3 DEF WorkerStep
    <2> QED BY <2>1, <2>2, WorkerIsQueueStep DEF Claim
  <1> QED BY <1>2, <1>3 DEF Claim

LEMMA TouchMoves ==
    ASSUME HandoffInv, BridgeTypeOK, TouchesGiven, NEW c \in Clients, Touch(c)
    PROVE  Moved(c) /\ QueueStep
  <1> DEFINE i == bridge[c].id
             k == bridge[c].token
  <1>1. /\ bridge[c] \in Bridge /\ bridge[c].at = "touch" /\ k \in Tokens /\ k <= issued
        /\ i \in Ids /\ Owner[c].lease \in Leases
    BY BridgeAssumption DEF BridgeTypeOK, TouchesGiven, Bridge, Touch
  <1>2. TouchFenced(i, k, Owner[c].lease) /\ UNCHANGED own
    BY DEF Touch
  <1>3. k \in 1..issued
    BY <1>1, QueueAssumption, ReadingType DEF Tokens, HandoffInv
  <1> HIDE DEF i, k
  <1>4. WorkerStep
    BY <1>1, <1>2, <1>3 DEF WorkerStep
  <1>5. Moved(c)
    <2> DEFINE b == [bridge[c] EXCEPT !.at = "inspect"]
    <2>1. b \in Bridge /\ b.at = "inspect"
      BY <1>1 DEF Bridge
    <2>2. Move(c, b) \/ Move(c, AtRest)
      BY DEF Touch
    <2> HIDE DEF b
    <2> QED BY <2>1, <2>2, RestType, MoveFacts
  <1> QED BY <1>2, <1>4, <1>5, WorkerIsQueueStep

LEMMA BridgeStepMoves ==
    ASSUME HandoffInv, LeasePromised, BridgeTypeOK, TouchesGiven, NEW c \in Clients,
           BridgeStep(c)
    PROVE  Moved(c) /\ [HandoffNext]_hvars
  <1>0. \A k \in 1..issued : k \in Tokens
    BY QueueAssumption DEF HandoffInv, TypeOK, Tokens
  <1>1. UNCHANGED hvars => [HandoffNext]_hvars
    OBVIOUS
  <1>2. CASE Claim(c) \/ Touch(c)
    BY <1>2, ClaimMoves, TouchMoves DEF HandoffNext
  <1>3. CASE Identify(c)
    <2>1. PICK key \in DOMAIN admissions : Move(c, [bridge[c] EXCEPT !.at = "inspect", !.key = key])
      BY <1>3 DEF Identify
    <2> DEFINE b == [bridge[c] EXCEPT !.at = "inspect", !.key = key]
    <2>2. b \in Bridge /\ b.at = "inspect"
      BY DEF HandoffInv, HandoffTypeOK, BridgeTypeOK, Bridge
    <2> HIDE DEF b
    <2>3. Moved(c)
      BY <2>1, <2>2, MoveFacts DEF b
    <2> QED BY <1>1, <1>3, <2>3 DEF Identify
  <1>4. CASE InspectAfter(c)
    <2>1. bridge[c] \in Bridge
      BY DEF BridgeTypeOK
    <2> QED BY <1>1, <1>4, <2>1, SnapshotMoves DEF InspectAfter
  <1>5. CASE Leave(c)
    <2>1. Moved(c)
      BY <1>5, RestType, MoveFacts DEF Leave
    <2> QED BY <1>1, <1>5, <2>1 DEF Leave
  <1>6. ASSUME NEW key \in DOMAIN admissions, NEW i \in Ids, NEW k \in 1..issued,
               Inspect(c, key, i, k)
        PROVE  Moved(c) /\ [HandoffNext]_hvars
    <2> DEFINE b == [AtRest EXCEPT !.key = key, !.id = i, !.token = k]
    <2>1. b \in Bridge
      <3>1. key \in Keys /\ k \in Tokens
        BY <1>0 DEF HandoffInv, HandoffTypeOK
      <3> QED BY <3>1, CalledType
    <2>2. Snapshot(c, b)
      BY <1>6 DEF Inspect
    <2> HIDE DEF b
    <2> QED BY <1>1, <2>1, <2>2, SnapshotMoves
  <1>7. ASSUME NEW key \in DOMAIN admissions, NEW i \in Ids, NEW k \in 1..issued,
               Renew(c, key, i, k)
        PROVE  Moved(c) /\ [HandoffNext]_hvars
    <2> DEFINE b == [AtRest EXCEPT !.at = "touch", !.key = key, !.id = i, !.token = k]
    <2>1. b \in Bridge /\ b.at = "touch" /\ b.token = k
      <3>1. key \in Keys /\ k \in Tokens
        BY <1>0 DEF HandoffInv, HandoffTypeOK
      <3>2. AtRest \in Bridge
        BY RestType
      <3> QED BY <3>1, <3>2 DEF Bridge
    <2>2. Move(c, b) /\ UNCHANGED hvars
      BY <1>7 DEF Renew
    <2>3. issued' = issued /\ issued \in Nat
      BY <2>2, ReadingType DEF hvars, vars, HandoffInv
    <2>4. k <= issued'
      BY <2>3
    <2> HIDE DEF b
    <2>5. Moved(c)
      BY <2>1, <2>2, <2>4, MoveFacts
    <2> QED BY <1>1, <2>2, <2>5
  <1>8. ASSUME NEW key \in DOMAIN admissions, NEW i \in Ids, NEW k \in 1..issued,
               NEW m \in Manifests, CompleteFor(c, key, i, k, m)
        PROVE  Moved(c) /\ [HandoffNext]_hvars
    <2>1. Moved(c)
      BY <1>8, RestType, MoveFacts DEF CompleteFor
    <2>2. Replay(i, k, m) \/ Complete(i, k, m)
      BY <1>8 DEF CompleteFor
    <2> QED BY <2>1, <2>2 DEF HandoffNext
  <1> QED BY <1>2, <1>3, <1>4, <1>5, <1>6, <1>7, <1>8 DEF BridgeStep

LEMMA BridgeStepsMove ==
    ASSUME BridgeInv, [BridgeNext]_bvars
    PROVE  [HandoffNext]_hvars /\ (UNCHANGED bridge \/ \E c \in Clients : Moved(c))
  <1>1. HandoffInv /\ LeasePromised /\ BridgeTypeOK /\ TouchesGiven
    BY DEF BridgeInv, QueueHolds
  <1>2. CASE HandoffNext /\ UNCHANGED bridge
    BY <1>2
  <1>3. ASSUME NEW c \in Clients, BridgeStep(c)
        PROVE  Moved(c) /\ [HandoffNext]_hvars
    BY <1>1, <1>3, BridgeStepMoves
  <1>4. CASE UNCHANGED bvars
    BY <1>4 DEF bvars
  <1> QED BY <1>2, <1>3, <1>4 DEF BridgeNext

LEMMA BridgeInductive ==
    ASSUME BridgeInv, KnownIds, [BridgeNext]_bvars
    PROVE  BridgeInv'
  <1>0. HandoffInv /\ QueueHolds /\ BridgeTypeOK /\ TouchesGiven /\ AllTold
    BY DEF BridgeInv
  <1>1. [HandoffNext]_hvars /\ (UNCHANGED bridge \/ \E c \in Clients : Moved(c))
    BY BridgeStepsMove
  <1>2. HandoffInv'
    BY <1>0, <1>1, HandoffInductive
  <1>3. QueueHolds' /\ issued <= issued'
    <2>1. CompanyStep
      BY <1>0, <1>1, HandoffInCompany
    <2>2. QueueHolds'
      BY <1>0, <1>2, <2>1, CompanyKeeps
    <2>3. issued \in Nat
      BY <1>0, ReadingType DEF HandoffInv
    <2>4. CASE [Next]_vars
      BY <1>0, <2>2, <2>4, IssuedGrows DEF HandoffInv
    <2>5. CASE UNCHANGED issued
      BY <2>2, <2>3, <2>5
    <2> QED BY <2>1, <2>4, <2>5 DEF CompanyStep, Transacts, Reclaims
  <1>4. BridgeTypeOK'
    BY <1>0, <1>1 DEF BridgeTypeOK, Moved
  <1>5. TouchesGiven'
    <2>1. issued \in Nat /\ issued' \in Nat
      BY <1>0, <1>2 DEF HandoffInv, TypeOK
    <2>2. ASSUME NEW c \in Clients, bridge'[c].at = "touch", bridge'[c] = bridge[c]
          PROVE  bridge'[c].token <= issued'
      <3>1. bridge[c].token <= issued /\ bridge[c].token \in Nat
        BY <1>0, <2>2 DEF TouchesGiven, BridgeTypeOK, Bridge, Tokens
      <3> QED BY <1>3, <2>1, <2>2, <3>1
    <2> QED BY <1>1, <2>2 DEF TouchesGiven, Moved
  <1>6. ASSUME NEW c \in Clients, bridge'[c].at = "told"
        PROVE  StaysTold(bridge'[c])
    <2>1. CASE bridge'[c] = bridge[c]
      <3>1. bridge[c] \in Bridge /\ Tells(bridge[c])
        BY <1>0, <1>6, <2>1 DEF BridgeTypeOK, AllTold
      <3> QED BY <1>0, <1>1, <1>2, <2>1, <3>1, ReplyStays
    <2>2. CASE UNCHANGED hvars /\ Tells(bridge'[c])
      BY <2>2 DEF Tells, StaysTold, hvars, vars, own
    <2> QED BY <1>1, <1>6, <2>1, <2>2 DEF Moved
  <1>7. AllTold'
    BY <1>6 DEF AllTold, Tells, StaysTold
  <1> QED BY <1>2, <1>3, <1>4, <1>5, <1>7 DEF BridgeInv

LEMMA BridgeInitInv == BridgeInit => BridgeInv
  <1> SUFFICES ASSUME BridgeInit PROVE BridgeInv
    OBVIOUS
  <1>1. HandoffInv
    BY HandoffInitInv DEF BridgeInit
  <1>2. Init
    BY DEF BridgeInit, HandoffInit
  <1>3. QueueHolds
    BY <1>2, QueueHoldsInit
  <1>4. bridge \in [Clients -> Bridge] /\ \A c \in Clients : bridge[c].at = "idle"
    BY RestType DEF BridgeInit
  <1> QED BY <1>1, <1>3, <1>4 DEF BridgeInv, BridgeTypeOK, TouchesGiven, AllTold

LEMMA BridgeInvariant == KnownIds => (BridgeSpec => []BridgeInv)
  <1> SUFFICES ASSUME KnownIds PROVE BridgeSpec => []BridgeInv
    OBVIOUS
  <1>1. BridgeInv /\ [BridgeNext]_bvars => BridgeInv'
    BY BridgeInductive
  <1> QED BY <1>1, BridgeInitInv, PTL DEF BridgeSpec

-----------------------------------------------------------------------------
(***************************************************************************)
(* What follows, for any number of clients, lanes and stages whose calls   *)
(* name directives that exist.                                             *)
(***************************************************************************)
\* Types: every client stays in an operation of the bridge.
THEOREM BridgeTypesHold == KnownIds => (BridgeSpec => []BridgeTypeOK)
  <1>1. BridgeInv => BridgeTypeOK
    BY DEF BridgeInv
  <1> QED BY <1>1, BridgeInvariant, PTL

\* The bridge is a client like others: what it does to queue, admissions and
\* receipts is steps of admission, handoff and the workers, a claim and a
\* renewal interrupted anywhere too, so all that is proved of them holds
\* where bridges run (claim, inspect, renew, complete).
THEOREM BridgesAreHandoffs == KnownIds => (BridgeSpec => HandoffSpec)
  <1> SUFFICES ASSUME KnownIds PROVE BridgeSpec => HandoffSpec
    OBVIOUS
  <1>1. BridgeInv /\ [BridgeNext]_bvars => [HandoffNext]_hvars
    BY BridgeStepsMove
  <1>2. BridgeInit => HandoffInit
    BY DEF BridgeInit
  <1> QED BY <1>1, <1>2, BridgeInvariant, PTL DEF BridgeSpec, HandoffSpec

\* In particular what a run of the bridge checks of keys, receipts, replies
\* and claims, and the refinement of the ledger.
THEOREM BridgesKeepHandoffs ==
    KnownIds => (BridgeSpec => /\ [](HandoffTypeOK /\ SettledCompletely)
                               /\ [](KeyNamesOneDirective /\ AcksAreSealed)
                               /\ SettledByItsOnlyClaim /\ ImplementsLedger)
  BY BridgesAreHandoffs, HandoffTypesHold, SettlementIsWhole, KeysNameOneDirective,
     AcksAlwaysSealed, SettledByTheOnlyClaim, HandoffImplementsLedger, PTL

\* A client that was told of a stage has the only claim there will ever be on
\* it, under the key and with the text it was told (claim, inspect, renew).
THEOREM ToldIsAlwaysTheOnlyClaim == KnownIds => (BridgeSpec => []ToldIsTheOnlyClaim)
  <1>1. ASSUME BridgeInv
        PROVE  ToldIsTheOnlyClaim
    <2>1. \A c \in Clients : bridge[c].at = "told" => Tells(bridge[c])
      BY <1>1 DEF BridgeInv, AllTold
    <2>2. KeyNamesOneDirective
      BY <1>1 DEF BridgeInv, HandoffInv
    <2> QED BY <2>1, <2>2 DEF ToldIsTheOnlyClaim, Tells, KeyNamesOneDirective
  <1> QED BY <1>1, BridgeInvariant, PTL

\* The lease a client is told of runs and is exactly what its claim is promised
\* when it is told, though a renewal wrote it transactions earlier and others
\* swept, forced and extended since: what the queue promises a claim and what
\* the row under it shows never part (LeasePromised).
AllGranted ==
    \A c \in Clients :
        bridge'[c].at = "told" /\ bridge'[c] # bridge[c] => TellsGranted(bridge'[c])

THEOREM ToldLeaseIsAlwaysGranted == KnownIds => (BridgeSpec => ToldLeaseIsGranted)
  <1> SUFFICES ASSUME KnownIds PROVE BridgeSpec => ToldLeaseIsGranted
    OBVIOUS
  <1>1. BridgeInv /\ [BridgeNext]_bvars => [AllGranted]_bvars
    BY BridgeStepsMove DEF AllGranted, Moved
  <1>2. [][AllGranted]_bvars => ToldLeaseIsGranted
    BY PTL DEF ToldLeaseIsGranted, AllGranted, TellsGranted
  <1> QED BY <1>1, <1>2, BridgeInvariant, PTL DEF BridgeSpec
=============================================================================
