\* Two sessions, and one call that is posted under two spellings of an id.
CONSTANTS
    WS = {w1, w2}
    under = under
    dash = dash
    Feeder = {under, dash}
    ToTry <- MCToTry
    Call = {c1}
    None = None
SPECIFICATION FairSpec
INVARIANTS PendingIsAwaited NewestIsConnected ConnectedIsOpen AnswerIsOwn
PROPERTIES IsFeederRequests EveryPostEnds
CHECK_DEADLOCK FALSE
