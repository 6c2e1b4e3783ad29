\* Three connections over two addresses and three identities.
CONSTANTS
    Session = {s1, s2, s3}
    ip1 = ip1
    ip2 = ip2
    u1 = u1
    u2 = u2
    m1 = m1
    h1 = h1
    usr1 = usr1
    None = None
    IP = {ip1, ip2}
    Uuid = {u1, u2}
    Mac = {m1}
    Host = {h1}
    User = {usr1}
    Answer <- MCAnswer
    Hello <- MCHello
    MaxFeeder = 3
SPECIFICATION Spec
SYMMETRY Symmetry
INVARIANTS TypeOK UuidUnique
PROPERTY LockHolds
CHECK_DEADLOCK FALSE
