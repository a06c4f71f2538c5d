SPECIFICATION Spec
CONSTANTS
    Files = {f1}
    Clips = {c1}
    Requests = {r1, r2, r3}
    NoId = noId
    Faults = {"smb", "fetch"}
    MaxReads = 2
SYMMETRY Symmetry
INVARIANTS
    DanglingOnlyMidDelete
    CountExact
    UnannouncedExplained
