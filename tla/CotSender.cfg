\* One output, one aircraft with two states, and one request.
CONSTANTS
    Hexes = {h1}
    States = {s1, s2}
    None = None
    MaxLastSent = 1
    Outputs = {o1}
    Urls = {u1, bad}
    Endpoints = {u1}
    Certs = {c1}
    PassAll = {}
    Tisb = {}
    PassTisb = {}
    NoRow = NoRow
    Malformed = Malformed
    MaxEdits = 1
SPECIFICATION FairSpec
INVARIANTS DeltaIsTrue CountIsTrue PauseEarned
PROPERTIES IsTrackFeed PausedIsRechecked
CHECK_DEADLOCK FALSE
