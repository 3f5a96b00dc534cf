SPECIFICATION Spec
CONSTANTS
    t1 = t1
    t2 = t2
    t3 = t3
    metal = metal
    folk = folk
    Tracks = {t1, t2, t3}
    Unsteady = {}
    Sessions = {s1, s2, s3}
    Requests = {r1, r2}
    Feedbacks = {}
    Modes = {radio}
    Radio = radio
    Popular = {t1, t2, t3}
    NoTrack = NoTrack
    NoSession = NoSession
    NoMode = NoMode
    Genre <- OneGenre
    NoGenre = NoGenre
    Window = 1
SYMMETRY AllSymmetry
INVARIANTS
    TypeOK
    WindowBounded
    SessionsBounded
PROPERTIES
    ModeKeepsSession
