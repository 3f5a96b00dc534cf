SPECIFICATION Spec
CONSTANTS
    t1 = t1
    t2 = t2
    t3 = t3
    metal = metal
    folk = folk
    Tracks = {t1, t2}
    Unsteady = {t1}
    Sessions = {s1}
    Requests = {r1, r2}
    Feedbacks = {"skip"}
    Modes = {radio}
    Radio = radio
    Popular = {t1, t2}
    NoTrack = NoTrack
    NoSession = NoSession
    NoMode = NoMode
    Genre <- OneGenre
    NoGenre = NoGenre
    Window = 1
SYMMETRY RequestSymmetry
INVARIANTS
    NeverPlayedTwice
PROPERTIES
    ImplementsOffers
