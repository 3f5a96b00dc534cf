SPECIFICATION Spec
CONSTANTS
    Hashes = {h1, h2}
    Tracks = {t1}
    Uploads = {u1}
    Workers = {w1}
    NoHash = NoHash
    NoTrack = NoTrack
    DerivedSync = TRUE
    MaxStamp = 4
    MaxFaults = 1
INVARIANTS
    DoneMeansPresent
