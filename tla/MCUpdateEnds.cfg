\* Every fault at once: the updater process always comes to an end.
SPECIFICATION FairSpec
CONSTANTS
    Delegated = TRUE
    Faults = {"worker", "power", "error", "restore", "torn", "start", "cli"}
PROPERTIES
    UpdaterEnds
CHECK_DEADLOCK FALSE
