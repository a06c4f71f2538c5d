SPECIFICATION FairSpec
CONSTANTS
    Streams = {s1, s2}
    Addrs = {a1}
    Broadcasts = {b1, b2}
    NoStream = noStream
    PortReuse = TRUE
INVARIANTS
    TypeOK
    NoSendOnClosed
    LockMoves
PROPERTIES
    HandlersMove
    BroadcastsEnd
