\* Two sessions, two rows; liveness without faults of the database.
CONSTANTS
    Session = {s1, s2}
    MaxFeeder = 2
    MaxBytes = 1
    IdleTicks = 1
    StaleTicks = 1
    PurgeTicks = 2
    GraceCycles = 0
    DbMayFail = FALSE
SPECIFICATION FairSpec
PROPERTY ConnectedBecomesActive
CHECK_DEADLOCK FALSE
