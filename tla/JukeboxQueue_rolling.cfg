SPECIFICATION Spec
CONSTANTS
    t1 = t1
    t2 = t2
    t3 = t3
    metal = metal
    folk = folk
    Tracks = {t1, t2}
    Unsteady = {}
    Sessions = {s1}
    Requests = {r1}
    Feedbacks = {}
    Modes = {radio}
    Radio = radio
    Popular = {t1, t2}
    NoTrack = NoTrack
    NoSession = NoSession
    NoMode = NoMode
    Genre <- OneGenre
    NoGenre = NoGenre
    Window = 1
PROPERTIES
    QueueIsRolling
