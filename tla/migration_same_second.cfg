SPECIFICATION MigrationSpec
CONSTANTS
    p1 = p1
    p2 = p2
    Openers = {p1, p2}
    Steps <- MCSteps
    Files <- OldFiles
    Keep = 1
    Unattended = TRUE
    MaxWrites = 1
    MaxSuffix = 3
    MaxTime = 1
SYMMETRY OpenersAreAlike
INVARIANTS
    VerifiedBackupRemains
