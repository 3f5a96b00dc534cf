SPECIFICATION Spec
CONSTANTS
    Hashes = {h1, h2}
    Tracks = {t1, t2}
    Uploads = {u1}
    Workers = {w1}
    NoHash = NoHash
    NoTrack = NoTrack
    DerivedSync = FALSE
    MaxStamp = 4
    MaxFaults = 0
INVARIANTS
    StreamIsComplete
