SPECIFICATION Spec
CONSTANTS
    Hashes = {h1, h2}
    Tracks = {t1, t2}
    Uploads = {u1, u2}
    Workers = {w1, w2}
    NoHash = NoHash
    NoTrack = NoTrack
    DerivedSync = FALSE
    MaxStamp = 4
    MaxFaults = 1
SYMMETRY Symmetry
INVARIANTS
    TypeOK
    IInv
    OneTrackPerContent
    LiveTrackHasOriginal
    ClaimIsExclusive
    ClaimedAtMostOnce
    DoneMeansDerived
