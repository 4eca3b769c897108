----------------------------- MODULE Migration ------------------------------
(***************************************************************************)
(* connect() and migrate() of cli.py: every call of laneq opens the file   *)
(* and brings its schema up to date first.  Openers race to create and to  *)
(* migrate; the migration is one SQLite transaction, the backup files it   *)
(* makes and prunes are not part of it.                                    *)
(*                                                                         *)
(* A step is one entry of the plan (a table or a column to add, a value to *)
(* normalize); what it adds is in the schema from then on.                 *)
(***************************************************************************)
EXTENDS Naturals, FiniteSets, Sequences

CONSTANTS
    Openers,      \* processes that open the database
    Steps,        \* the plan for a file without tables, in the order of execution
    Files,        \* what may be at the path at the beginning
    Keep,         \* --keep-backups
    Unattended,   \* FALSE: two backups are never made within one second
    MaxWrites,    \* bound: rows that clients write
    MaxSuffix,    \* bound: backups of one second (one digit: names sort as text)
    MaxTime       \* bound: last second of the clock

StepSet == {Steps[n] : n \in DOMAIN Steps}

Contents == [exists : BOOLEAN, schema : SUBSET StepSet, rows : 0..MaxWrites]

\* No file, and the file of an older laneq: some steps, one row.
Missing == [exists |-> FALSE, schema |-> {}, rows |-> 0]
Older(schema) == [exists |-> TRUE, schema |-> schema, rows |-> 1]

ASSUME MigrationAssumption ==
    /\ Steps \in Seq(StepSet)
    /\ Files \subseteq Contents
    /\ \A f \in Files : ~f.exists => f.schema = {} /\ f.rows = 0
    /\ Unattended \in BOOLEAN
    /\ Keep \in Nat \ {0}
    /\ MaxWrites \in Nat \ {0} /\ MaxTime \in Nat \ {0} /\ MaxSuffix \in 1..9

VARIABLES
    file,      \* the committed database, and whether the path exists
    lock,      \* who holds the SQLite write lock, as a set of at most one
    opener,    \* where each opener is, and what it remembers
    backups,   \* the backup files: name -> what they hold
    now        \* the clock, in the seconds that name backups

mvars == <<file, lock, opener, backups, now>>

\* A backup is named by the second and a counter within it.
Names == [stamp : 1..MaxTime, n : 1..MaxSuffix] \cup {[stamp |-> 0, n |-> 1]}
NoName == [stamp |-> 0, n |-> 0]

Places == {"closed", "opening", "planning", "waiting", "locked", "backing_up",
           "verifying", "pruning", "migrating", "ready"}

Closed == [at |-> "closed", existed |-> FALSE, plan |-> {}, done |-> {},
           backup |-> NoName]

MigrationTypeOK ==
    /\ file \in Contents
    /\ lock = {} \/ \E p \in Openers : lock = {p}
    /\ opener \in [Openers -> [at : Places, existed : BOOLEAN, plan : SUBSET StepSet,
                               done : SUBSET StepSet, backup : Names \cup {NoName}]]
    /\ DOMAIN backups \subseteq Names
    /\ backups \in [DOMAIN backups -> [content : Contents, whole : BOOLEAN]]
    /\ now \in 1..MaxTime

\* An existing file has a backup of some time ago, with fewer rows.
MigrationInit ==
    /\ file \in Files
    /\ lock = {}
    /\ opener = [p \in Openers |-> Closed]
    /\ backups = [b \in {c \in {[stamp |-> 0, n |-> 1]} : file.exists} |->
                    [content |-> [file EXCEPT !.rows = 0], whole |-> TRUE]]
    /\ now = 1

At(p, place) == opener[p].at = place
Goto(p, place) == opener' = [opener EXCEPT ![p].at = place]

(***************************************************************************)
(* connect                                                                 *)
(***************************************************************************)
\* existed_before_open is read before sqlite3.connect may create the file.
Start(p) ==
    /\ At(p, "closed")
    /\ opener' = [opener EXCEPT ![p] = [Closed EXCEPT !.at = "opening", !.existed = file.exists]]
    /\ UNCHANGED <<file, lock, backups, now>>

\* sqlite3.connect and enable_wal; the retries of the latter end well or the
\* call fails (Fail).
Open(p) ==
    /\ At(p, "opening")
    /\ file' = [file EXCEPT !.exists = TRUE]
    /\ Goto(p, "planning")
    /\ UNCHANGED <<lock, backups, now>>

\* Mutant: once there is a table, the tables of a handoff are not looked for.
PlanForNewFiles ==
    IF file.schema = {} THEN StepSet ELSE {}

\* migration_plan: the steps that are missing.
Plan == StepSet \ file.schema

\* The plan before the lock only decides whether there is anything to do.
FirstPlan(p) ==
    /\ At(p, "planning")
    /\ opener' = [opener EXCEPT ![p].at = IF Plan = {} THEN "ready" ELSE "waiting",
                                ![p].plan = Plan]
    /\ UNCHANGED <<file, lock, backups, now>>

(***************************************************************************)
(* migrate, under BEGIN IMMEDIATE                                          *)
(***************************************************************************)
\* Mutant: the plan made before the wait for the lock is executed.
KeepPlan(p) ==
    /\ At(p, "waiting")
    /\ lock = {} /\ lock' = {p}
    /\ Goto(p, "locked")
    /\ UNCHANGED <<file, backups, now>>

\* Mutant: BEGIN instead of BEGIN IMMEDIATE.
LockShared(p) ==
    /\ At(p, "waiting")
    /\ lock' = lock \cup {p}
    /\ opener' = [opener EXCEPT ![p].at = "locked", ![p].plan = Plan]
    /\ UNCHANGED <<file, backups, now>>

\* The lock is taken and the plan made again.
Lock(p) ==
    /\ At(p, "waiting")
    /\ lock = {} /\ lock' = {p}
    /\ opener' = [opener EXCEPT ![p].at = "locked", ![p].plan = Plan]
    /\ UNCHANGED <<file, backups, now>>

\* An existing file is backed up before the first statement.
Decide(p) ==
    /\ At(p, "locked")
    /\ Goto(p, IF opener[p].plan # {} /\ opener[p].existed THEN "backing_up" ELSE "migrating")
    /\ UNCHANGED <<file, lock, backups, now>>

\* make_backup_path: the first free name of this second.
FreeName(b) ==
    /\ b.stamp = now /\ b \notin DOMAIN backups
    /\ \A m \in 1..(b.n - 1) : [stamp |-> now, n |-> m] \in DOMAIN backups

\* backup_database creates the file; another connection copies what is
\* committed into it.
Copy(p) ==
    /\ At(p, "backing_up")
    /\ Unattended \/ \A b \in DOMAIN backups : b.stamp < now
    /\ \E b \in Names :
        /\ FreeName(b)
        /\ backups' = [c \in DOMAIN backups \cup {b} |->
                IF c = b THEN [content |-> file, whole |-> FALSE] ELSE backups[c]]
        /\ opener' = [opener EXCEPT ![p].at = "verifying", ![p].backup = b]
    /\ UNCHANGED <<file, lock, now>>

\* integrity_check returns ok.
Verify(p) ==
    /\ At(p, "verifying")
    /\ backups' = [backups EXCEPT ![opener[p].backup].whole = TRUE]
    /\ Goto(p, "pruning")
    /\ UNCHANGED <<file, lock, now>>

\* Mutant: the list is not reversed.
OldestFirst(a, b) == a.stamp < b.stamp \/ (a.stamp = b.stamp /\ a.n < b.n)

\* backup_candidates: by name, descending.
Newer(a, b) == a.stamp > b.stamp \/ (a.stamp = b.stamp /\ a.n > b.n)

\* prune_old_backups: all but the first Keep of the list.
Kept == {b \in DOMAIN backups : Cardinality({c \in DOMAIN backups : Newer(c, b)}) < Keep}

Prune(p) ==
    /\ At(p, "pruning")
    /\ backups' = [b \in Kept |-> backups[b]]
    /\ Goto(p, "migrating")
    /\ UNCHANGED <<file, lock, now>>

\* The first statement that is left of the plan.
Apply(p) ==
    /\ At(p, "migrating")
    /\ \E n \in DOMAIN Steps :
        /\ Steps[n] \in opener[p].plan
        /\ \A m \in 1..(n - 1) : Steps[m] \notin opener[p].plan
        /\ opener' = [opener EXCEPT ![p].plan = @ \ {Steps[n]},
                                    ![p].done = @ \cup {Steps[n]}]
    /\ UNCHANGED <<file, lock, backups, now>>

CommitMigration(p) ==
    /\ At(p, "migrating") /\ opener[p].plan = {}
    /\ file' = [file EXCEPT !.schema = @ \cup opener[p].done]
    /\ lock' = {}
    /\ Goto(p, "ready")
    /\ UNCHANGED <<backups, now>>

(***************************************************************************)
(* Failure: an exception (a timeout of the lock included) or the death of  *)
(* the process.  SQLite rolls back.  An exception while the backup is made *)
(* removes the file; nothing else does.                                    *)
(***************************************************************************)
Fail(p) ==
    /\ opener[p].at \notin {"closed", "ready"}
    /\ opener' = [opener EXCEPT ![p] = Closed]
    /\ lock' = lock \ {p}
    /\ \/ backups' = backups
       \/ /\ At(p, "verifying")
          /\ backups' = [b \in DOMAIN backups \ {opener[p].backup} |-> backups[b]]
    /\ UNCHANGED <<file, now>>

\* A connected client writes, or is done.
Write(p) ==
    /\ At(p, "ready") /\ lock = {} /\ file.rows < MaxWrites
    /\ file' = [file EXCEPT !.rows = @ + 1]
    /\ UNCHANGED <<lock, opener, backups, now>>

Close(p) ==
    /\ At(p, "ready")
    /\ opener' = [opener EXCEPT ![p] = Closed]
    /\ UNCHANGED <<file, lock, backups, now>>

Second ==
    /\ now < MaxTime
    /\ now' = now + 1
    /\ UNCHANGED <<file, lock, opener, backups>>

-----------------------------------------------------------------------------
OpenerStep(p) ==
    \/ Start(p) \/ Open(p) \/ FirstPlan(p) \/ Lock(p) \/ Decide(p) \/ Copy(p)
    \/ Verify(p) \/ Prune(p) \/ Apply(p) \/ CommitMigration(p) \/ Fail(p)
    \/ Write(p) \/ Close(p)

MigrationNext == Second \/ \E p \in Openers : OpenerStep(p)

MigrationSpec == MigrationInit /\ [][MigrationNext]_mvars
=============================================================================
