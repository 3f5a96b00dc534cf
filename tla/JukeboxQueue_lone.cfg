SPECIFICATION Spec
CONSTANTS
    t1 = t1
    t2 = t2
    t3 = t3
    metal = metal
    folk = folk
    Tracks = {t1, t2, t3}
    Unsteady = {t1}
    Sessions = {s1}
    Requests = {r1}
    Feedbacks = {"less_like_this", "stay_in_genre"}
    Modes = {radio}
    Radio = radio
    Popular = {t1, t2}
    NoTrack = NoTrack
    NoSession = NoSession
    NoMode = NoMode
    Genre <- TwoGenres
    NoGenre = NoGenre
    Window = 2
PROPERTIES
    RefillsWhileFresh
    FeedbackRebuildsQueue
