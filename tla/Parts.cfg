\* Two of what is told apart, and few of everything else.
CONSTANTS
    Client = {c1, c2}
    Output = {o}
    Nil = Nil
    MaxGen = 2
    MaxChunk = 3
    MaxQueue = 2
    TfHexes = {x1, x2}
    TfVals = {v1, v2}
    NoTf = NoTf
    MaxTf = 4
    NoUser = NoUser
    MaxUsers = 3
    MaxLinks = 2
    Craft = {p1}
    Unheard = Unheard
    Stale = 2
    MaxUpdates = 2
    MaxLines = 4
    MaxEnvLen = 5
    MaxText = 3
    Hexes = {h1, h2}
    States = {s1, s2}
    None = None
    MaxLastSent = 1
SPECIFICATION PartsSpec
SYMMETRY Symmetry
INVARIANTS SingleUseOnce NoGap ListedIsStreaming
PROPERTY IsChunkFeed
INVARIANTS ShownIsAll EnvRoundTrip AlertIsHostile SerializersAgree LookupSuffices
PROPERTIES NoNewDuplicates MergesKeepLines ClaimKeysStay 
PROPERTIES ResetsAreFresh MergedIsRecent LinesAreOwn
CHECK_DEADLOCK FALSE
