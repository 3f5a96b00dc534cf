SPECIFICATION MCSpec
CONSTANTS
    uploader = uploader
    root = root
    Users <- MCUsers
    Admins <- MCAdmins
    Tracks <- MCTracks
    Albums <- MCAlbums
    Artists <- MCArtists
    Titles <- MCTitles
    Blank = ""
    TrackVis <- MCTrackVis
    None = None
    Keep = Keep
    Slots = {1, 2}
    Requests <- MCRequests
PROPERTIES OnlyAskedHide
CHECK_DEADLOCK FALSE
