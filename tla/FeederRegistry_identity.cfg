\* Two connections from one address.
CONSTANTS
    Session = {s1, s2}
    ip1 = ip1
    ip2 = ip2
    u1 = u1
    u2 = u2
    m1 = m1
    h1 = h1
    usr1 = usr1
    None = None
    IP = {ip1, ip2}
    Uuid = {u1, u2}
    Mac = {m1}
    Host = {h1}
    User = {usr1}
    Answer <- MCAnswer
    Hello <- MCHello
    MaxFeeder = 2
SPECIFICATION Spec
INVARIANT OneRowPerFeeder
CHECK_DEADLOCK FALSE
