SPECIFICATION FairSpec
CONSTANTS
    Codes = {k1}
    Creators = {u1, u2}
    Nobody = nobody
    NoCode = noCode
    MaxAttempts = 2
    Faults = {"db", "smb", "net"}
    Files = {f1}
    Clips = {}
    Bulks = {b1}
    Slots = {s1}
    NoItem = noItem
    NoSlot = noSlot
    MaxZip = 2
INVARIANTS
    TargetKept
    ZipComplete
PROPERTIES
    KeepsRegistry
    BulkGetsThrough
