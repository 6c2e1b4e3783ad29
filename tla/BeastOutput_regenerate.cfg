\* One client of one output.
CONSTANTS
    Client = {c1}
    Output = {o}
    Nil = Nil
    MaxGen = 2
    MaxChunk = 1
    MaxQueue = 1
SPECIFICATION Spec
PROPERTY DropsOnlyOldKeys
CHECK_DEADLOCK FALSE
