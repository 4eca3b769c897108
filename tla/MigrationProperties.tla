------------------------ MODULE MigrationProperties ------------------------
(***************************************************************************)
(* What concurrent openers of a database may rely on while one of them     *)
(* migrates it.                                                            *)
(***************************************************************************)
EXTENDS Migration

\* Executing statements of a plan that was not empty.
Migrating(p) == At(p, "migrating") /\ (opener[p].plan # {} \/ opener[p].done # {})

\* From the first statement of the migration of an existing file to its
\* COMMIT there is a verified backup of exactly what is committed: neither the
\* pruning, nor the half-made backups of openers that died, nor what others
\* committed during the wait for the lock leaves the file without one.  The
\* premise, of the run and of the theorem, is that no two backups are made
\* within one second (~Unattended); what the reuse of a name within one second
\* does is watched by VerifiedBackupRemains (migrate, backup_database).
Recoverable ==
    \A p \in Openers :
        Migrating(p) /\ opener[p].existed
            => \E b \in DOMAIN backups : backups[b] = [content |-> file, whole |-> TRUE]

\* No statement of the plan is executed twice, by one opener or by two that
\* planned at the same time: a second ALTER TABLE or CREATE TABLE would fail
\* and with it the call that opened the file.
StepsAreNew ==
    \A p \in Openers : At(p, "migrating") =>
        opener[p].plan \cap (file.schema \cup opener[p].done) = {}

\* A call that got past connect works on the whole schema, whichever opener
\* brought it there and wherever the others have failed.
ReadyIsMigrated ==
    \A p \in Openers : At(p, "ready") => file.schema = StepSet

\* A migration without a backup is one of a file that holds nothing, although
\* existed_before_open was read before another opener created the file,
\* migrated it and wrote to it.
OnlyNothingIsUnbacked ==
    \A p \in Openers :
        Migrating(p) /\ opener[p].backup = NoName => file.schema = {} /\ file.rows = 0

\* README.md: "on failure, SQLite rolls the original database back and the
\* verified backup remains".  The backup of this attempt is still there when
\* the statements that may fail are executed.
VerifiedBackupRemains ==
    \A p \in Openers :
        Migrating(p) /\ opener[p].backup # NoName => opener[p].backup \in DOMAIN backups
=============================================================================
