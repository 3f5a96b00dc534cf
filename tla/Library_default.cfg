SPECIFICATION MCSpec
CONSTANTS
    c = c
    l = l
    r = r
    t1 = t1
    t2 = t2
    t3 = t3
    a1 = a1
    Users <- MCUsers
    Admins <- MCAdmins
    Tracks <- MCTracks
    Albums <- MCAlbums
    Artists <- MCArtists
    Titles <- MCTitles
    Blank = ""
    TrackVis <- MCTrackVis
    None = None
    Pairs <- MCPairs
    Favorites <- MCFavorites
    Playlists <- MCPlaylists
    Adds <- MCAdds
    Streams <- MCStreams
    MaxNow = 2
    TTL = 1
    Keep = 1
INVARIANTS TypeOK ListedIsOpen ApisAgree NothingDangles AddOrderKept OncePerToken
CHECK_DEADLOCK FALSE
