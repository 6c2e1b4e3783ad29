\* One session and one call for an id with one spelling.
CONSTANTS
    WS = {w1}
    under = under
    dash = dash
    Feeder = {under}
    ToTry <- MCOneSpelling
    Call = {c1}
    None = None
SPECIFICATION FairSpec
PROPERTY OfflineMeansUnregistered
CHECK_DEADLOCK FALSE
