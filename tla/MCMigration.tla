---------------------------- MODULE MCMigration ----------------------------
(* Two openers and a plan of three steps for TLC. *)
EXTENDS MigrationProperties, TLC

CONSTANTS p1, p2

MCSteps == <<"directives", "columns", "handoff">>
OldFile == Older({"directives"})
AnyFiles == {Missing, OldFile}
OldFiles == {OldFile}

OpenersAreAlike == Permutations({p1, p2})
=============================================================================
