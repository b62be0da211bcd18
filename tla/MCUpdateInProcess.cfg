\* The flow swaps the app itself; faults come between journaled steps and in a rollback.
SPECIFICATION Spec
CONSTANTS
    Delegated = FALSE
    Faults = {"worker", "power", "error", "start"}
INVARIANTS
    UpdateTypeOK
    AbortedUntouched
    RolledBackRestored
    PreviousRunnable
    RetryPossible
CHECK_DEADLOCK FALSE
