SPECIFICATION MCSpec
CONSTANTS
    uploader = uploader
    root = root
    Users <- MCUsers
    Admins <- MCAdmins
    Tracks <- MCTracks
    Albums <- MCAlbums
    Artists <- MCArtists
    Titles <- MCTitles
    Blank = ""
    TrackVis <- MCTrackVis
    None = None
    Keep = Keep
    Slots = {1, 2, 3}
    Requests <- MCRequests
INVARIANTS TypeOK Shelved OnlyKnownDeadlocks
PROPERTIES PublishReachesAll ShelfRefined EveryRequestEnds
CHECK_DEADLOCK FALSE
