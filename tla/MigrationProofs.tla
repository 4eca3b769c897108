-------------------------- MODULE MigrationProofs ---------------------------
(***************************************************************************)
(* Proofs about Migration, for any number of openers, any plan, any file   *)
(* of an older version and any number of backups.                          *)
(***************************************************************************)
EXTENDS MigrationProperties, FiniteSetTheorems, TLAPS

Opener == [at : Places, existed : BOOLEAN, plan : SUBSET StepSet,
           done : SUBSET StepSet, backup : Names \cup {NoName}]

\* Between BEGIN IMMEDIATE and COMMIT.
Inside == {"locked", "backing_up", "verifying", "pruning", "migrating"}

(***************************************************************************)
(* What a step of an opener leaves alone: the other openers.               *)
(***************************************************************************)
LEMMA OthersStay ==
    ASSUME MigrationTypeOK, NEW p \in Openers, OpenerStep(p)
    PROVE  \A q \in Openers \ {p} : opener'[q] = opener[q]
<1>1. opener' = [opener EXCEPT ![p] = opener'[p]] \/ opener' = opener
  <2> DEFINE o == opener
  <2>0. o \in [Openers -> Opener]  BY DEF MigrationTypeOK, Opener
  <2> HIDE DEF o
  <2> USE <2>0
  <2>1. CASE Start(p) BY <2>1 DEF Start, o
  <2>2. CASE Open(p) BY <2>2 DEF Open, Goto, o
  <2>3. CASE FirstPlan(p) BY <2>3 DEF FirstPlan, o
  <2>4. CASE Lock(p) BY <2>4 DEF Lock, o
  <2>5. CASE Decide(p) BY <2>5 DEF Decide, Goto, o
  <2>6. CASE Copy(p) BY <2>6 DEF Copy, o
  <2>7. CASE Verify(p) BY <2>7 DEF Verify, Goto, o
  <2>8. CASE Prune(p) BY <2>8 DEF Prune, Goto, o
  <2>9. CASE Apply(p) BY <2>9 DEF Apply, o
  <2>10. CASE CommitMigration(p) BY <2>10 DEF CommitMigration, Goto, o
  <2>11. CASE Fail(p) BY <2>11 DEF Fail, o
  <2>12. CASE Write(p) BY <2>12 DEF Write, o
  <2>13. CASE Close(p) BY <2>13 DEF Close, o
  <2>14. QED
    BY <2>1, <2>2, <2>3, <2>4, <2>5, <2>6, <2>7, <2>8, <2>9, <2>10, <2>11, <2>12, <2>13
    DEF OpenerStep
<1>2. QED  BY <1>1 DEF MigrationTypeOK

(***************************************************************************)
(* Types.                                                                  *)
(***************************************************************************)
LEMMA TypeInit == MigrationInit => MigrationTypeOK
<1> SUFFICES ASSUME MigrationInit PROVE MigrationTypeOK  OBVIOUS
<1>1. file \in Contents  BY MigrationAssumption DEF MigrationInit
<1>2. Closed \in Opener  BY DEF Closed, Opener, Places
<1>3. DOMAIN backups \subseteq Names  BY DEF MigrationInit, Names
<1>4. [file EXCEPT !.rows = 0] \in Contents  BY <1>1, MigrationAssumption DEF Contents
<1>5. backups \in [DOMAIN backups -> [content : Contents, whole : BOOLEAN]]
  BY <1>4 DEF MigrationInit
<1>6. now \in 1..MaxTime  BY MigrationAssumption DEF MigrationInit
<1>7. QED  BY <1>1, <1>2, <1>3, <1>5, <1>6 DEF MigrationInit, MigrationTypeOK, Opener

\* Each action gives the opener it is of a new record of the right type.
LEMMA TypeOpener ==
    ASSUME MigrationTypeOK, NEW p \in Openers, OpenerStep(p)
    PROVE  opener' \in [Openers -> Opener]
<1>0. opener \in [Openers -> Opener]  BY DEF MigrationTypeOK, Opener
<1>1. CASE Start(p)
  <2>1. file.exists \in BOOLEAN  BY DEF MigrationTypeOK, Contents
  <2>2. [Closed EXCEPT !.at = "opening", !.existed = file.exists] \in Opener
    BY <2>1 DEF Opener, Closed, Places
  <2>3. QED  BY <1>0, <1>1, <2>2 DEF Start
<1>2. CASE Open(p)  BY <1>0, <1>2 DEF Open, Goto, Opener, Places
<1>3. CASE FirstPlan(p)
  <2> DEFINE place == IF Plan = {} THEN "ready" ELSE "waiting"
             missing == Plan
  <2>1. place \in Places /\ missing \in SUBSET StepSet  BY DEF Places, Plan
  <2>2. opener' = [opener EXCEPT ![p].at = place, ![p].plan = missing]
    BY <1>3 DEF FirstPlan
  <2> HIDE DEF place, missing
  <2>3. QED  BY <1>0, <2>1, <2>2 DEF Opener
<1>4. CASE Lock(p)
  <2> DEFINE place == "locked"
             missing == Plan
  <2>1. place \in Places /\ missing \in SUBSET StepSet  BY DEF Places, Plan
  <2>2. opener' = [opener EXCEPT ![p].at = place, ![p].plan = missing]
    BY <1>4 DEF Lock
  <2> HIDE DEF place, missing
  <2>3. QED  BY <1>0, <2>1, <2>2 DEF Opener
<1>5. CASE Decide(p)
  <2>1. PICK place \in {"backing_up", "migrating"} : opener' = [opener EXCEPT ![p].at = place]
    BY <1>5 DEF Decide, Goto
  <2>2. QED  BY <1>0, <2>1 DEF Opener, Places
<1>6. CASE Copy(p)
  <2>1. PICK b \in Names :
            opener' = [opener EXCEPT ![p].at = "verifying", ![p].backup = b]
    BY <1>6 DEF Copy
  <2>2. b \in Names \cup {NoName} /\ "verifying" \in Places  BY DEF Places
  <2> QED  BY <1>0, <2>1, <2>2 DEF Opener
<1>7. CASE Verify(p)  BY <1>0, <1>7 DEF Verify, Goto, Opener, Places
<1>8. CASE Prune(p)  BY <1>0, <1>8 DEF Prune, Goto, Opener, Places
<1>9. CASE Apply(p)
  <2>1. PICK n \in DOMAIN Steps :
            opener' = [opener EXCEPT ![p].plan = @ \ {Steps[n]}, ![p].done = @ \cup {Steps[n]}]
    BY <1>9 DEF Apply
  <2> DEFINE rest == opener[p].plan \ {Steps[n]}
             made == opener[p].done \cup {Steps[n]}
  <2>2. rest \in SUBSET StepSet /\ made \in SUBSET StepSet  BY <1>0 DEF Opener, StepSet
  <2>3. opener' = [opener EXCEPT ![p] = [@ EXCEPT !.plan = rest, !.done = made]]  BY <1>0, <2>1
  <2> HIDE DEF rest, made
  <2>4. [opener[p] EXCEPT !.plan = rest, !.done = made] \in Opener  BY <1>0, <2>2 DEF Opener
  <2>5. QED  BY <1>0, <2>3, <2>4
<1>10. CASE CommitMigration(p)  BY <1>0, <1>10 DEF CommitMigration, Goto, Opener, Places
<1>11. CASE Fail(p)  BY <1>0, <1>11 DEF Fail, Opener, Closed, Places
<1>12. CASE Write(p)  BY <1>0, <1>12 DEF Write
<1>13. CASE Close(p)  BY <1>0, <1>13 DEF Close, Opener, Closed, Places
<1>14. QED
  BY <1>1, <1>2, <1>3, <1>4, <1>5, <1>6, <1>7, <1>8, <1>9, <1>10, <1>11, <1>12, <1>13
  DEF OpenerStep

LEMMA TypeStep == MigrationTypeOK /\ [MigrationNext]_mvars => MigrationTypeOK'
<1> SUFFICES ASSUME MigrationTypeOK, [MigrationNext]_mvars PROVE MigrationTypeOK'  OBVIOUS
<1>1. CASE UNCHANGED mvars  BY <1>1 DEF mvars, MigrationTypeOK
<1>2. CASE Second  BY <1>2, MigrationAssumption DEF Second, MigrationTypeOK
<1>3. ASSUME NEW p \in Openers, OpenerStep(p) PROVE MigrationTypeOK'
  <2>1. opener' \in [Openers -> Opener]  BY <1>3, TypeOpener
  <2>2. file' \in Contents
    <3>0. file \in Contents  BY DEF MigrationTypeOK
    <3>1. CASE Open(p)  BY <3>0, <3>1 DEF Open, Contents
    <3>2. CASE CommitMigration(p)
      <4>1. opener[p].done \subseteq StepSet  BY DEF MigrationTypeOK
      <4>2. QED  BY <3>0, <3>2, <4>1 DEF CommitMigration, Contents
    <3>3. CASE Write(p)  BY <3>0, <3>3, MigrationAssumption DEF Write, Contents
    <3>4. QED  BY <1>3, <3>0, <3>1, <3>2, <3>3 DEF OpenerStep, Start, FirstPlan, Lock,
        Decide, Copy, Verify, Prune, Apply, Fail, Close
  <2>3. lock' = {} \/ \E q \in Openers : lock' = {q}
    <3>0. lock = {} \/ \E q \in Openers : lock = {q}  BY DEF MigrationTypeOK
    <3>1. CASE Lock(p)  BY <3>1 DEF Lock
    <3>2. CASE CommitMigration(p)  BY <3>2 DEF CommitMigration
    <3>3. CASE Fail(p)  BY <3>0, <3>3 DEF Fail
    <3>4. QED  BY <1>3, <3>0, <3>1, <3>2, <3>3 DEF OpenerStep, Start, Open, FirstPlan,
        Decide, Copy, Verify, Prune, Apply, Write, Close
  <2>4. /\ DOMAIN backups' \subseteq Names
        /\ backups' \in [DOMAIN backups' -> [content : Contents, whole : BOOLEAN]]
    <3>0. /\ DOMAIN backups \subseteq Names
          /\ backups \in [DOMAIN backups -> [content : Contents, whole : BOOLEAN]]
          /\ file \in Contents
      BY DEF MigrationTypeOK
    <3>1. CASE Copy(p)  BY <3>0, <3>1 DEF Copy
    <3>2. CASE Verify(p)  BY <3>0, <3>2 DEF Verify
    <3>3. CASE Prune(p)  BY <3>0, <3>3 DEF Prune, Kept
    <3>4. CASE Fail(p)  BY <3>0, <3>4 DEF Fail
    <3>5. QED  BY <1>3, <3>0, <3>1, <3>2, <3>3, <3>4 DEF OpenerStep, Start, Open, FirstPlan,
        Lock, Decide, Apply, CommitMigration, Write, Close
  <2>5. now' = now
    BY <1>3 DEF OpenerStep, Start, Open, FirstPlan, Lock, Decide, Copy, Verify, Prune,
        Apply, CommitMigration, Fail, Write, Close
  <2>6. QED  BY <2>1, <2>2, <2>3, <2>4, <2>5 DEF MigrationTypeOK, Opener
<1>4. QED  BY <1>1, <1>2, <1>3 DEF MigrationNext

(***************************************************************************)
(* Plans.  The three properties about plans are not inductive: they need   *)
(* that the lock is exclusive, that a plan made under it is what is        *)
(* missing, and what the openers that found no file can still meet.        *)
(***************************************************************************)
Untouched == file.schema = {} /\ file.rows = 0

PlanInv(p) ==
    /\ opener[p].at \in Inside => lock = {p}
    /\ opener[p].at \notin {"closed", "opening"} => file.exists
    /\ opener[p].at \notin {"migrating", "ready"} => opener[p].done = {}
    /\ opener[p].at \in Inside =>
        /\ opener[p].plan \cap (file.schema \cup opener[p].done) = {}
        /\ opener[p].done \cap file.schema = {}
        /\ StepSet \subseteq file.schema \cup opener[p].done \cup opener[p].plan
    /\ opener[p].at = "ready" => file.schema = StepSet
    /\ opener[p].at # "closed" /\ ~opener[p].existed => Untouched \/ file.schema = StepSet
    /\ opener[p].at \in {"verifying", "pruning"} => opener[p].backup # NoName
    /\ Migrating(p) /\ opener[p].existed => opener[p].backup # NoName

PlansInv ==
    /\ MigrationTypeOK
    /\ ~file.exists => Untouched
    /\ \A p \in Openers : PlanInv(p)

LEMMA PlansInit == MigrationInit => PlansInv
<1> SUFFICES ASSUME MigrationInit PROVE PlansInv  OBVIOUS
<1>1. MigrationTypeOK  BY TypeInit
<1>2. ~file.exists => Untouched  BY MigrationAssumption DEF MigrationInit, Untouched
<1>3. ASSUME NEW p \in Openers PROVE PlanInv(p)
  <2>1. opener[p] = Closed  BY DEF MigrationInit
  <2>2. QED  BY <2>1 DEF PlanInv, Closed, Inside, Migrating, At
<1>4. QED  BY <1>1, <1>2, <1>3 DEF PlansInv

\* A transaction that commits brings the schema to its last version.
LEMMA CommitCompletes ==
    ASSUME PlansInv, NEW p \in Openers, CommitMigration(p)
    PROVE  file' = [file EXCEPT !.schema = StepSet]
<1>1. /\ opener[p].at \in Inside /\ opener[p].plan = {}
      /\ file' = [file EXCEPT !.schema = @ \cup opener[p].done]
  BY DEF CommitMigration, At, Inside
<1>2. StepSet \subseteq file.schema \cup opener[p].done  BY <1>1 DEF PlansInv, PlanInv
<1>3. file.schema \subseteq StepSet /\ opener[p].done \subseteq StepSet
  BY DEF PlansInv, MigrationTypeOK, Contents
<1>4. QED  BY <1>1, <1>2, <1>3

\* What a step of p does to the file and the lock, for the others.
LEMMA FileMoves ==
    ASSUME PlansInv, NEW p \in Openers, OpenerStep(p)
    PROVE  /\ file.exists => file'.exists
           /\ file'.schema = file.schema \/ file'.schema = StepSet
           /\ file'.rows = file.rows \/ file'.schema = StepSet
           /\ ~file'.exists => file' = file
           /\ file.schema = StepSet => file'.schema = StepSet
           /\ \A q \in Openers \ {p} : opener[q].at \in Inside =>
                /\ lock' = {q} /\ file'.schema = file.schema
<1>0. file \in Contents /\ PlanInv(p) /\ \A q \in Openers : PlanInv(q)
  BY DEF PlansInv, MigrationTypeOK
<1>1. CASE Open(p)  BY <1>0, <1>1 DEF Open, Contents, PlanInv
<1>2. CASE CommitMigration(p)
  <2>1. file' = [file EXCEPT !.schema = StepSet]  BY <1>2, CommitCompletes
  <2>2. lock = {p} /\ file.exists
    BY <1>0, <1>2 DEF PlanInv, CommitMigration, At, Inside
  <2>3. QED  BY <1>0, <2>1, <2>2 DEF Contents, PlanInv
<1>3. CASE Write(p)
  <2>1. file.schema = StepSet /\ file.exists /\ lock = {}
    BY <1>0, <1>3 DEF PlanInv, Write, At
  <2>2. QED  BY <1>0, <1>3, <2>1 DEF Contents, Write, PlanInv
<1>4. CASE Lock(p)  BY <1>0, <1>4 DEF Lock, PlanInv
<1>5. CASE Fail(p)
  <2>1. file' = file /\ lock' = lock \ {p}  BY <1>5 DEF Fail
  <2>2. QED  BY <1>0, <2>1 DEF PlanInv
<1>6. CASE file' = file /\ lock' = lock  BY <1>0, <1>6 DEF PlanInv
<1>7. QED
  BY <1>1, <1>2, <1>3, <1>4, <1>5, <1>6 DEF OpenerStep, Start, FirstPlan, Decide, Copy,
     Verify, Prune, Apply, Close

\* An opener that does not step keeps what it knew.
LEMMA PlanOfOthers ==
    ASSUME PlansInv, NEW p \in Openers, OpenerStep(p), NEW q \in Openers \ {p}
    PROVE  PlanInv(q)'
<1>1. opener'[q] = opener[q]  BY OthersStay DEF PlansInv
<1>2. PlanInv(q)  BY DEF PlansInv
<1>3. /\ file.exists => file'.exists
      /\ file'.schema = file.schema \/ file'.schema = StepSet
      /\ file'.rows = file.rows \/ file'.schema = StepSet
      /\ file.schema = StepSet => file'.schema = StepSet
      /\ opener[q].at \in Inside => lock' = {q} /\ file'.schema = file.schema
  BY FileMoves
<1>4. QED  BY <1>1, <1>2, <1>3 DEF PlanInv, Untouched, Migrating, At

\* The opener that steps, action by action.
LEMMA PlanOfOwn ==
    ASSUME PlansInv, NEW p \in Openers, OpenerStep(p)
    PROVE  PlanInv(p)'
<1>0. /\ opener \in [Openers -> Opener] /\ opener' \in [Openers -> Opener]
      /\ PlanInv(p) /\ (~file.exists => Untouched)
  BY TypeOpener DEF PlansInv, MigrationTypeOK, Opener
<1> USE DEF PlanInv, Untouched, Migrating, At, Inside
<1>1. CASE Start(p)
  <2>1. opener'[p] = [Closed EXCEPT !.at = "opening", !.existed = file.exists] /\ file' = file
    BY <1>0, <1>1 DEF Start
  <2>2. QED  BY <1>0, <2>1 DEF Closed
<1>2. CASE Open(p)
  <2>1. opener'[p] = [opener[p] EXCEPT !.at = "planning"]  BY <1>0, <1>2 DEF Open, Goto
  <2>2. file' = [file EXCEPT !.exists = TRUE] /\ file \in Contents
    BY <1>2 DEF Open, PlansInv, MigrationTypeOK
  <2>3. QED  BY <1>0, <1>2, <2>1, <2>2 DEF Open, Contents, Opener
<1>3. CASE FirstPlan(p)
  <2>1. /\ opener'[p] = [opener[p] EXCEPT !.at = IF Plan = {} THEN "ready" ELSE "waiting",
                                          !.plan = Plan]
        /\ file' = file
    BY <1>0, <1>3 DEF FirstPlan
  <2>2. file.schema \subseteq StepSet  BY DEF PlansInv, MigrationTypeOK, Contents
  <2>3. opener[p].at = "planning"  BY <1>3 DEF FirstPlan
  <2>4. CASE Plan = {}
    <3>1. file.schema = StepSet  BY <2>2, <2>4 DEF Plan
    <3>2. opener'[p] = [opener[p] EXCEPT !.at = "ready", !.plan = {}]  BY <2>1, <2>4
    <3>3. QED  BY <1>0, <2>1, <2>3, <3>1, <3>2 DEF Opener
  <2>5. CASE Plan # {}
    <3>1. opener'[p] = [opener[p] EXCEPT !.at = "waiting", !.plan = Plan]  BY <2>1, <2>5
    <3>2. file' = file  BY <2>1
    <3>3. /\ opener'[p].at = "waiting" /\ opener'[p].done = opener[p].done
          /\ opener'[p].existed = opener[p].existed
      BY <1>0, <3>1 DEF Opener
    <3>4. QED  BY <1>0, <2>3, <3>2, <3>3
  <2>6. QED  BY <2>4, <2>5
<1>4. CASE Lock(p)
  <2>1. /\ opener'[p] = [opener[p] EXCEPT !.at = "locked", !.plan = Plan]
        /\ file' = file /\ lock' = {p} /\ opener[p].at = "waiting"
    BY <1>0, <1>4 DEF Lock
  <2>2. QED  BY <1>0, <2>1 DEF Plan, Opener
<1>5. CASE Decide(p)
  <2>1. /\ opener'[p] = [opener[p] EXCEPT !.at =
                IF opener[p].plan # {} /\ opener[p].existed THEN "backing_up" ELSE "migrating"]
        /\ file' = file /\ lock' = lock /\ opener[p].at = "locked"
    BY <1>0, <1>5 DEF Decide, Goto
  <2>2. CASE opener'[p] = [opener[p] EXCEPT !.at = "backing_up"]
    BY <1>0, <2>1, <2>2 DEF Opener
  <2>3. CASE opener'[p] = [opener[p] EXCEPT !.at = "migrating"]
              /\ (opener[p].plan = {} \/ ~opener[p].existed)
    BY <1>0, <2>1, <2>3 DEF Opener
  <2>4. QED  BY <2>1, <2>2, <2>3
<1>6. CASE Copy(p)
  <2>1. PICK b \in Names :
            opener' = [opener EXCEPT ![p].at = "verifying", ![p].backup = b]
    BY <1>6 DEF Copy
  <2>2. /\ opener'[p] = [opener[p] EXCEPT !.at = "verifying", !.backup = b]
        /\ file' = file /\ lock' = lock /\ opener[p].at = "backing_up"
    BY <1>0, <1>6, <2>1 DEF Copy
  <2>3. b # NoName  BY DEF Names, NoName
  <2>4. QED  BY <1>0, <2>2, <2>3 DEF Opener
<1>7. CASE Verify(p)
  <2>1. /\ opener'[p] = [opener[p] EXCEPT !.at = "pruning"]
        /\ file' = file /\ lock' = lock /\ opener[p].at = "verifying"
    BY <1>0, <1>7 DEF Verify, Goto
  <2>2. QED  BY <1>0, <2>1 DEF Opener
<1>8. CASE Prune(p)
  <2>1. /\ opener'[p] = [opener[p] EXCEPT !.at = "migrating"]
        /\ file' = file /\ lock' = lock /\ opener[p].at = "pruning"
    BY <1>0, <1>8 DEF Prune, Goto
  <2>2. QED  BY <1>0, <2>1 DEF Opener
<1>9. CASE Apply(p)
  <2>1. PICK n \in DOMAIN Steps :
            /\ Steps[n] \in opener[p].plan
            /\ opener' = [opener EXCEPT ![p].plan = @ \ {Steps[n]}, ![p].done = @ \cup {Steps[n]}]
    BY <1>9 DEF Apply
  <2>2. /\ opener'[p] = [opener[p] EXCEPT !.plan = opener[p].plan \ {Steps[n]},
                                          !.done = opener[p].done \cup {Steps[n]}]
        /\ file' = file /\ lock' = lock /\ opener[p].at = "migrating"
    BY <1>0, <1>9, <2>1 DEF Apply
  <2>3. QED  BY <1>0, <2>1, <2>2 DEF Opener
<1>10. CASE CommitMigration(p)
  <2>1. opener'[p] = [opener[p] EXCEPT !.at = "ready"] /\ opener[p].at = "migrating"
    BY <1>0, <1>10 DEF CommitMigration, Goto
  <2>2. file' = [file EXCEPT !.schema = StepSet]  BY <1>10, CommitCompletes
  <2>3. file \in Contents  BY DEF PlansInv, MigrationTypeOK
  <2>4. QED  BY <1>0, <2>1, <2>2, <2>3 DEF Opener, Contents
<1>11. CASE Fail(p)
  <2>1. opener'[p] = Closed  BY <1>0, <1>11 DEF Fail
  <2>2. QED  BY <2>1 DEF Closed
<1>12. CASE Write(p)
  <2>1. opener' = opener /\ lock = {} /\ lock' = lock /\ opener[p].at = "ready"
    BY <1>12 DEF Write
  <2>2. file' = [file EXCEPT !.rows = @ + 1] /\ file \in Contents
    BY <1>12 DEF Write, PlansInv, MigrationTypeOK
  <2>3. QED  BY <1>0, <2>1, <2>2 DEF Contents
<1>13. CASE Close(p)
  <2>1. opener'[p] = Closed  BY <1>0, <1>13 DEF Close
  <2>2. QED  BY <2>1 DEF Closed
<1>14. QED
  BY <1>1, <1>2, <1>3, <1>4, <1>5, <1>6, <1>7, <1>8, <1>9, <1>10, <1>11, <1>12, <1>13
  DEF OpenerStep

LEMMA PlansStep == PlansInv /\ [MigrationNext]_mvars => PlansInv'
<1> SUFFICES ASSUME PlansInv, [MigrationNext]_mvars PROVE PlansInv'  OBVIOUS
<1>0. MigrationTypeOK'  BY TypeStep DEF PlansInv
<1>1. CASE UNCHANGED mvars
  BY <1>0, <1>1 DEF mvars, PlansInv, PlanInv, Untouched, Migrating, At
<1>2. CASE Second
  BY <1>0, <1>2 DEF Second, PlansInv, PlanInv, Untouched, Migrating, At
<1>3. ASSUME NEW p \in Openers, OpenerStep(p) PROVE PlansInv'
  <2>1. PlanInv(p)'  BY <1>3, PlanOfOwn
  <2>2. \A q \in Openers \ {p} : PlanInv(q)'  BY <1>3, PlanOfOthers
  <2>3. ~file'.exists => Untouched'
    <3>1. ~file'.exists => file' = file  BY <1>3, FileMoves
    <3>2. QED  BY <3>1 DEF PlansInv, Untouched
  <2>4. QED  BY <1>0, <2>1, <2>2, <2>3 DEF PlansInv
<1>4. QED  BY <1>1, <1>2, <1>3 DEF MigrationNext

LEMMA PlansAlways == MigrationSpec => []PlansInv
BY PlansInit, PlansStep, PTL DEF MigrationSpec

\* The file, the lock, the openers and the backups keep their types; in
\* particular at most one opener is inside BEGIN IMMEDIATE.
THEOREM MigrationTypeCorrect == MigrationSpec => []MigrationTypeOK
<1>1. PlansInv => MigrationTypeOK  BY DEF PlansInv
<1>2. QED  BY <1>1, PlansAlways, PTL

\* Whichever opener migrates, its statements are all new to the file and to
\* itself: nothing is executed twice by openers that planned at once.
THEOREM StepsAreAlwaysNew == MigrationSpec => []StepsAreNew
<1>1. PlansInv => StepsAreNew  BY DEF PlansInv, PlanInv, StepsAreNew, At, Inside
<1>2. QED  BY <1>1, PlansAlways, PTL

\* A call that got past connect finds the whole schema, for as long as it is
\* connected.
THEOREM ReadyIsAlwaysMigrated == MigrationSpec => []ReadyIsMigrated
<1>1. PlansInv => ReadyIsMigrated  BY DEF PlansInv, PlanInv, ReadyIsMigrated, At
<1>2. QED  BY <1>1, PlansAlways, PTL

\* However old the opener's knowledge that there was no file, it migrates
\* without a backup only what holds nothing.
THEOREM UnbackedIsAlwaysNothing == MigrationSpec => []OnlyNothingIsUnbacked
<1>1. ASSUME PlansInv, NEW p \in Openers, Migrating(p), opener[p].backup = NoName
      PROVE  file.schema = {} /\ file.rows = 0
  <2>1. PlanInv(p) /\ opener[p].at = "migrating"  BY <1>1 DEF PlansInv, Migrating, At
  <2>2. Untouched \/ file.schema = StepSet  BY <1>1, <2>1 DEF PlanInv
  <2>3. opener[p].plan \subseteq StepSet /\ opener[p].done \subseteq StepSet
    BY <1>1 DEF PlansInv, MigrationTypeOK
  <2>4. file.schema # StepSet
    BY <1>1, <2>1, <2>3 DEF PlanInv, Migrating, Inside
  <2>5. QED  BY <2>2, <2>4 DEF Untouched
<1>2. PlansInv => OnlyNothingIsUnbacked  BY <1>1 DEF OnlyNothingIsUnbacked
<1>3. QED  BY <1>2, PlansAlways, PTL

(***************************************************************************)
(* Backups.  While no two are made within one second, the one an opener    *)
(* makes is the newest there is, so its pruning spares it.                 *)
(***************************************************************************)
BackupInv(p) ==
    /\ opener[p].at \in {"verifying", "pruning"} =>
        /\ opener[p].backup \in DOMAIN backups
        /\ backups[opener[p].backup].content = file
        /\ \A c \in DOMAIN backups : ~Newer(c, opener[p].backup)
    /\ opener[p].at = "pruning" => backups[opener[p].backup].whole = TRUE
    /\ Migrating(p) /\ opener[p].existed =>
        /\ opener[p].backup \in DOMAIN backups
        /\ backups[opener[p].backup] = [content |-> file, whole |-> TRUE]

BackupsInv ==
    /\ PlansInv
    /\ \A b \in DOMAIN backups : b.stamp <= now
    /\ \A p \in Openers : BackupInv(p)

LEMMA BackupsInit == MigrationInit => BackupsInv
<1> SUFFICES ASSUME MigrationInit PROVE BackupsInv  OBVIOUS
<1>1. PlansInv  BY PlansInit
<1>2. \A b \in DOMAIN backups : b.stamp <= now  BY DEF MigrationInit
<1>3. ASSUME NEW p \in Openers PROVE BackupInv(p)
  <2>1. opener[p] = Closed  BY DEF MigrationInit
  <2>2. QED  BY <2>1 DEF BackupInv, Closed, Migrating, At
<1>4. QED  BY <1>1, <1>2, <1>3 DEF BackupsInv

\* Nobody touches the file or the backups of an opener that holds the lock.
LEMMA LockProtects ==
    ASSUME PlansInv, NEW p \in Openers, OpenerStep(p),
           NEW q \in Openers \ {p}, opener[q].at \in Inside
    PROVE  file' = file /\ backups' = backups
<1>1. lock = {q} /\ file.exists /\ opener[p].at \notin Inside
  BY DEF PlansInv, PlanInv, Inside
<1>2. CASE Open(p)
  <2>1. file \in Contents /\ file' = [file EXCEPT !.exists = TRUE] /\ backups' = backups
    BY <1>2 DEF Open, PlansInv, MigrationTypeOK
  <2>2. QED  BY <1>1, <2>1 DEF Contents
<1>3. CASE Fail(p)  BY <1>1, <1>3 DEF Fail, At, Inside
<1>4. CASE Start(p) \/ FirstPlan(p) \/ Close(p)  BY <1>4 DEF Start, FirstPlan, Close
<1>5. ~Lock(p) /\ ~Write(p)  BY <1>1 DEF Lock, Write
<1>6. ~(Decide(p) \/ Copy(p) \/ Verify(p) \/ Prune(p) \/ Apply(p) \/ CommitMigration(p))
  BY <1>1 DEF Decide, Copy, Verify, Prune, Apply, CommitMigration, At, Inside
<1>7. QED  BY <1>2, <1>3, <1>4, <1>5, <1>6 DEF OpenerStep

LEMMA BackupOfOthers ==
    ASSUME BackupsInv, NEW p \in Openers, OpenerStep(p), NEW q \in Openers \ {p}
    PROVE  BackupInv(q)'
<1>1. PlansInv /\ BackupInv(q) /\ opener'[q] = opener[q]
  BY OthersStay DEF BackupsInv, PlansInv
<1>2. CASE opener[q].at \in Inside
  <2>1. file' = file /\ backups' = backups  BY <1>1, <1>2, LockProtects
  <2>2. QED  BY <1>1, <2>1 DEF BackupInv, Migrating, At
<1>3. CASE opener[q].at \notin Inside
  BY <1>1, <1>3 DEF BackupInv, Migrating, At, Inside
<1>4. QED  BY <1>2, <1>3

\* The newest backup is among those that pruning keeps.
LEMMA NewestIsKept ==
    ASSUME NEW b \in DOMAIN backups, \A c \in DOMAIN backups : ~Newer(c, b)
    PROVE  b \in Kept
<1>1. {c \in DOMAIN backups : Newer(c, b)} = {}  OBVIOUS
<1>2. Cardinality({}) < Keep  BY FS_EmptySet, MigrationAssumption
<1>3. Cardinality({c \in DOMAIN backups : Newer(c, b)}) < Keep  BY <1>1, <1>2
<1>4. QED  BY <1>3 DEF Kept

LEMMA BackupOfOwn ==
    ASSUME ~Unattended, BackupsInv, NEW p \in Openers, OpenerStep(p)
    PROVE  BackupInv(p)' /\ \A b \in DOMAIN backups' : b.stamp <= now'
<1>0. /\ opener \in [Openers -> Opener] /\ PlanInv(p) /\ BackupInv(p)
      /\ DOMAIN backups \subseteq Names /\ now \in Nat
      /\ backups \in [DOMAIN backups -> [content : Contents, whole : BOOLEAN]]
      /\ \A b \in DOMAIN backups : b.stamp <= now
  BY DEF BackupsInv, PlansInv, MigrationTypeOK, Opener
<1> DEFINE Elsewhere == opener'[p].at \notin {"verifying", "pruning", "migrating"}
<1>1. Elsewhere => BackupInv(p)'  BY DEF BackupInv, Migrating, At
<1>2. CASE Copy(p)
  <2>1. PICK b \in Names :
            /\ FreeName(b)
            /\ backups' = [c \in DOMAIN backups \cup {b} |->
                    IF c = b THEN [content |-> file, whole |-> FALSE] ELSE backups[c]]
            /\ opener' = [opener EXCEPT ![p].at = "verifying", ![p].backup = b]
    BY <1>2 DEF Copy
  <2>2. /\ opener'[p].at = "verifying" /\ opener'[p].backup = b
        /\ file' = file /\ now' = now
    BY <1>0, <1>2, <2>1 DEF Copy, Opener
  <2>3. b.stamp = now /\ \A c \in DOMAIN backups : c.stamp < now
    BY <1>2, <2>1 DEF Copy, FreeName
  <2>4. \A c \in Names : c.stamp \in Nat /\ c.n \in Nat  BY DEF Names
  <2>5. \A c \in DOMAIN backups' : ~Newer(c, b) /\ c.stamp <= now
    BY <1>0, <2>1, <2>3, <2>4 DEF Newer
  <2>6. b \in DOMAIN backups' /\ backups'[b].content = file  BY <2>1
  <2>7. (\A c \in DOMAIN backups : ~Newer(c, opener[p].backup))'  BY <2>2, <2>5 DEF Newer
  <2>8. QED  BY <2>2, <2>5, <2>6, <2>7 DEF BackupInv, Migrating, At
<1>3. CASE Verify(p)
  <2>1. /\ opener'[p].at = "pruning" /\ opener'[p].backup = opener[p].backup
        /\ opener[p].at = "verifying" /\ file' = file /\ now' = now
        /\ backups' = [backups EXCEPT ![opener[p].backup].whole = TRUE]
    BY <1>0, <1>3 DEF Verify, Goto, At, Opener
  <2> DEFINE b == opener[p].backup
  <2>2. b \in DOMAIN backups /\ backups[b].content = file  BY <1>0, <2>1 DEF BackupInv
  <2>3. /\ DOMAIN backups' = DOMAIN backups
        /\ backups'[b].content = file /\ backups'[b].whole = TRUE
    BY <1>0, <2>1, <2>2
  <2>4. QED  BY <1>0, <2>1, <2>2, <2>3 DEF BackupInv, Migrating, At, Newer
<1>4. CASE Prune(p)
  <2>1. /\ opener'[p].at = "migrating" /\ opener'[p].backup = opener[p].backup
        /\ opener[p].at = "pruning" /\ file' = file /\ now' = now
        /\ backups' = [c \in Kept |-> backups[c]]
    BY <1>0, <1>4 DEF Prune, Goto, At, Opener
  <2> DEFINE b == opener[p].backup
  <2>2. /\ b \in DOMAIN backups /\ backups[b].content = file /\ backups[b].whole = TRUE
        /\ \A c \in DOMAIN backups : ~Newer(c, b)
    BY <1>0, <2>1 DEF BackupInv
  <2>3. b \in Kept  BY <2>2, NewestIsKept
  <2>4. backups[b] = [content |-> file, whole |-> TRUE]  BY <1>0, <2>2
  <2>5. Kept \subseteq DOMAIN backups  BY DEF Kept
  <2>6. b \in DOMAIN backups' /\ backups'[b] = [content |-> file', whole |-> TRUE]
    BY <2>1, <2>3, <2>4
  <2>7. \A c \in DOMAIN backups' : c.stamp <= now'  BY <1>0, <2>1, <2>5
  <2>8. QED  BY <2>1, <2>6, <2>7 DEF BackupInv, Migrating, At
<1>5. CASE Apply(p)
  <2>1. /\ opener'[p].at = "migrating" /\ opener'[p].backup = opener[p].backup
        /\ opener'[p].existed = opener[p].existed
        /\ opener[p].at = "migrating" /\ opener[p].plan # {}
        /\ UNCHANGED <<file, backups, now>>
    BY <1>0, <1>5 DEF Apply, At, Opener
  <2>2. QED  BY <1>0, <2>1 DEF BackupInv, Migrating, At
<1>6. CASE Decide(p)
  <2>1. /\ opener'[p] = [opener[p] EXCEPT !.at =
                IF opener[p].plan # {} /\ opener[p].existed THEN "backing_up" ELSE "migrating"]
        /\ opener[p].at = "locked" /\ UNCHANGED <<file, backups, now>>
    BY <1>0, <1>6 DEF Decide, Goto, At
  <2>2. opener[p].done = {}  BY <1>0, <2>1 DEF PlanInv
  <2>3. CASE opener[p].plan # {} /\ opener[p].existed
    <3>1. opener'[p].at = "backing_up"  BY <1>0, <2>1, <2>3 DEF Opener
    <3>2. QED  BY <1>0, <1>1, <2>1, <3>1
  <2>4. CASE ~(opener[p].plan # {} /\ opener[p].existed)
    <3>1. /\ opener'[p].at = "migrating" /\ opener'[p].plan = opener[p].plan
          /\ opener'[p].done = {} /\ opener'[p].existed = opener[p].existed
      BY <1>0, <2>1, <2>2, <2>4 DEF Opener
    <3>2. QED  BY <1>0, <2>1, <2>4, <3>1 DEF BackupInv, Migrating, At
  <2>5. QED  BY <2>3, <2>4
<1>7. CASE Fail(p)
  <2>1. opener'[p] = Closed /\ now' = now /\ DOMAIN backups' \subseteq DOMAIN backups
    BY <1>0, <1>7 DEF Fail
  <2>2. QED  BY <1>0, <1>1, <2>1 DEF Closed
<1>8. CASE Start(p) \/ Open(p) \/ FirstPlan(p) \/ Lock(p) \/ CommitMigration(p)
           \/ Write(p) \/ Close(p)
  <2>1. Elsewhere
    <3>1. CASE Start(p)  BY <1>0, <3>1 DEF Start, Closed
    <3>2. CASE Open(p)  BY <1>0, <3>2 DEF Open, Goto, Opener
    <3>3. CASE FirstPlan(p)
      <4>1. PICK place \in {"ready", "waiting"} :
                opener'[p] = [opener[p] EXCEPT !.at = place, !.plan = Plan]
        BY <1>0, <3>3 DEF FirstPlan
      <4>2. QED  BY <1>0, <4>1 DEF Opener
    <3>4. CASE Lock(p)  BY <1>0, <3>4 DEF Lock, Opener
    <3>5. CASE CommitMigration(p)  BY <1>0, <3>5 DEF CommitMigration, Goto, Opener
    <3>6. CASE Write(p)  BY <1>0, <3>6 DEF Write, At
    <3>7. CASE Close(p)  BY <1>0, <3>7 DEF Close, Closed
    <3>8. QED  BY <1>8, <3>1, <3>2, <3>3, <3>4, <3>5, <3>6, <3>7
  <2>2. backups' = backups /\ now' = now
    BY <1>8 DEF Start, Open, FirstPlan, Lock, CommitMigration, Write, Close
  <2>3. QED  BY <1>0, <1>1, <2>1, <2>2
<1>9. QED  BY <1>2, <1>3, <1>4, <1>5, <1>6, <1>7, <1>8 DEF OpenerStep

LEMMA BackupsStep ==
    ASSUME ~Unattended
    PROVE  BackupsInv /\ [MigrationNext]_mvars => BackupsInv'
<1> SUFFICES ASSUME BackupsInv, [MigrationNext]_mvars PROVE BackupsInv'  OBVIOUS
<1>0. PlansInv'  BY PlansStep DEF BackupsInv
<1>1. CASE UNCHANGED mvars
  BY <1>0, <1>1 DEF mvars, BackupsInv, BackupInv, Migrating, At, Newer
<1>2. CASE Second
  <2>1. \A b \in Names : b.stamp \in Nat  BY DEF Names
  <2>2. now \in Nat /\ DOMAIN backups \subseteq Names
    BY DEF BackupsInv, PlansInv, MigrationTypeOK
  <2>3. \A b \in DOMAIN backups' : b.stamp <= now'
    BY <1>2, <2>1, <2>2 DEF Second, BackupsInv
  <2>4. QED  BY <1>0, <1>2, <2>3 DEF Second, BackupsInv, BackupInv, Migrating, At, Newer
<1>3. ASSUME NEW p \in Openers, OpenerStep(p) PROVE BackupsInv'
  <2>1. BackupInv(p)' /\ \A b \in DOMAIN backups' : b.stamp <= now'  BY <1>3, BackupOfOwn
  <2>2. \A q \in Openers \ {p} : BackupInv(q)'  BY <1>3, BackupOfOthers
  <2>3. QED  BY <1>0, <2>1, <2>2 DEF BackupsInv
<1>4. QED  BY <1>1, <1>2, <1>3 DEF MigrationNext

\* If no two backups are made within one second, there is a verified backup of
\* exactly what is committed whenever an existing file is being migrated,
\* whatever the retention and however many openers died before.
THEOREM AlwaysRecoverable ==
    ASSUME ~Unattended
    PROVE  MigrationSpec => []Recoverable
<1>1. MigrationSpec => []BackupsInv  BY BackupsInit, BackupsStep, PTL DEF MigrationSpec
<1>2. BackupsInv => Recoverable  BY DEF BackupsInv, BackupInv, Recoverable
<1>3. QED  BY <1>1, <1>2, PTL
=============================================================================
