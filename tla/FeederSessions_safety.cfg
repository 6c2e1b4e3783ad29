\* Two sessions, two rows, faults on.
CONSTANTS
    Session = {s1, s2}
    MaxFeeder = 2
    MaxBytes = 1
    IdleTicks = 1
    StaleTicks = 1
    PurgeTicks = 2
    GraceCycles = 0
    DbMayFail = TRUE
SPECIFICATION Spec
SYMMETRY Symmetry
INVARIANTS TypeOK CountersExact ConnectedIsFresh StaleMeansDisconnected SilentIsClosed ActiveIsRecent
PROPERTIES PurgeOldSparesConnected IsFeederTable
CHECK_DEADLOCK FALSE
