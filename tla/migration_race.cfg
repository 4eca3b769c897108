SPECIFICATION MigrationSpec
CONSTANTS
    p1 = p1
    p2 = p2
    Openers = {p1, p2}
    Steps <- MCSteps
    Files <- AnyFiles
    Keep = 1
    Unattended = FALSE
    MaxWrites = 2
    MaxSuffix = 3
    MaxTime = 3
SYMMETRY OpenersAreAlike
INVARIANTS
    MigrationTypeOK
    Recoverable
    StepsAreNew
    ReadyIsMigrated
    OnlyNothingIsUnbacked
