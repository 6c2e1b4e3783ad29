\* One session is enough for a silent feeder to stay active for ever.
CONSTANTS
    Session = {s1}
    MaxFeeder = 1
    MaxBytes = 1
    IdleTicks = 1
    StaleTicks = 1
    PurgeTicks = 2
    GraceCycles = 0
    DbMayFail = FALSE
SPECIFICATION FairSpec
PROPERTY SilentFeederLeavesActive
CHECK_DEADLOCK FALSE
