\* Three runs, failing commands and an interruption.
CONSTANTS
    Pieces <- RootPieces
    RollbackOrder <- RootRollback
    InPlace = {"unit"}
    MaxRuns = 3
    MaxFaults = 2
    MaxInterrupts = 1
SPECIFICATION Spec
INVARIANTS SucceededIsNew FailedIsRestored
CHECK_DEADLOCK FALSE
