SPECIFICATION Spec
CONSTANTS
    Files = {f1, f2}
    Clips = {}
    Requests = {r1}
    NoId = noId
    Faults = {}
    MaxReads = 1
PROPERTY
    PurgeReturnsEveryKey
