SPECIFICATION ReadingSpec
CONSTANTS
    Streams = {s1, s2}
    Addrs = {a1, a2}
    Broadcasts = {b1, b2}
    NoStream = noStream
    PortReuse = FALSE
INVARIANT
    OwedIsComing
PROPERTY
    UpdatesArrive
