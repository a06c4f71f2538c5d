SPECIFICATION Spec
CONSTANTS
    Calls = {c1, c2, c3}
    MaxSessions = 3
SYMMETRY Symmetry
INVARIANTS
    TypeOK
    AloneGetsThrough
    LeakOnlyFromRace
    FieldsTogether
CHECK_DEADLOCK FALSE
