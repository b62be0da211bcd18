\* The script swaps the app; power may fail, calls may raise, a rollback may stop in its restore.
SPECIFICATION Spec
CONSTANTS
    Delegated = TRUE
    Faults = {"power", "error", "restore"}
INVARIANTS
    RolledBackRestored
    PreviousRunnable
    FinalizedComplete
    EmptySeatIsRecovered
CHECK_DEADLOCK FALSE
