SPECIFICATION FairSpec
CONSTANTS
    Files = {f1}
    Clips = {c1}
    Requests = {r1, r2}
    NoId = noId
    Faults = {"smb", "db", "fetch", "crash"}
    MaxReads = 1
INVARIANTS
    TypeOK
    RowReadable
    AckedSurvives
PROPERTY
    ImplementsRegistry
    ExpiredPurged
