SPECIFICATION Spec
CONSTANTS
    Files = {f1}
    Clips = {}
    Links = {u1}
    MaxLoads = 2
    MaxOwn = 1
    MaxEvents = 1
INVARIANTS
    TypeOK
    SettledIsTrue
    TwiceOnlyWhenLate
    LateOnlyAdds
CHECK_DEADLOCK FALSE
