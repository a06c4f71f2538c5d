SPECIFICATION Spec
CONSTANTS
    Files = {f1, f2}
    Clips = {}
    Requests = {r1, r2}
    NoId = noId
    Faults = {"db"}
    MaxReads = 1
SYMMETRY Symmetry
INVARIANTS
    OrphanExplained
    JanitorTodoRowless
