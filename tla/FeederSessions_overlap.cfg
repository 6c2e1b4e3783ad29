\* Two sessions of one feeder, no faults.
CONSTANTS
    Session = {s1, s2}
    MaxFeeder = 1
    MaxBytes = 1
    IdleTicks = 1
    StaleTicks = 1
    PurgeTicks = 2
    GraceCycles = 0
    DbMayFail = FALSE
SPECIFICATION Spec
INVARIANT OfflineMeansDisconnected
CHECK_DEADLOCK FALSE
