SPECIFICATION Spec
CONSTANTS
    Streams = {s1, s2}
    Addrs = {a1}
    Broadcasts = {b1}
    NoStream = noStream
    PortReuse = TRUE
SYMMETRY Symmetry
INVARIANT
    EveryStreamSubscribed
