------------------------------- MODULE Library -------------------------------
(***************************************************************************)
(* Who sees what of the catalog, and what listeners do with it: follows,   *)
(* favorites, playlists and counted plays on top of the tables of          *)
(* Shelf.tla.                                                              *)
(*                                                                         *)
(* A list of tracks, albums or playlists that the web API                  *)
(* (internal/httpapi/server.go) or the OpenSubsonic API (subsonic.go)      *)
(* answers with is an operator of the state: the set of rows its WHERE     *)
(* clause and its checks leave for a viewer.  Where a list is cut by a     *)
(* LIMIT, the operator is the list without it.  Three of them have no      *)
(* clause on the visibility: the albums of search3, favorites, and the top *)
(* track of a profile.  Left out are the queue of the jukebox (see         *)
(* JukeboxQueue.tla), a creator's statistics of their own rows, and names  *)
(* and titles in the history of feedback and in the lists of               *)
(* administrators.  The viewer None is a visitor who is not logged in.     *)
(* A writer is one action per transaction or autocommitted statement.      *)
(***************************************************************************)
EXTENDS Shelf, Naturals

CONSTANTS Pairs,      \* <<follower, followed>>: the follows that may occur
          Favorites,  \* <<user, row>>: the favorites that may occur
          Playlists,  \* playlist ids, each used at most once
          Adds,       \* the calls of addPlaylistTrack in a behaviour
          Streams,    \* the requests of streamTrack in a behaviour
          MaxNow,     \* the last second of the clock
          TTL,        \* seconds that a stream token is valid
          Keep        \* seconds that an expired token is kept: a day

ASSUME LibraryAssumption ==
    /\ Pairs \subseteq Users \X Owners
    /\ Favorites \subseteq Users \X (Tracks \cup Albums \cup Playlists)
    /\ MaxNow \in Nat /\ TTL \in Nat \ {0} /\ Keep \in Nat \ {0}

VARIABLES follows,    \* pairs <<follower, followed>>
          badges,     \* the users with the creator badge, granted before
          favorites,  \* pairs <<user, row>>
          playlists,  \* playlist id -> row, for the rows that exist
          entries,    \* playlist id -> rows of playlist_tracks
          adding,     \* where each call of addPlaylistTrack is
          now,        \* the clock, in seconds
          tokens,     \* stream_play_tokens: <<track, second signed>> -> played?
          streaming,  \* where each request of streamTrack is
          plays       \* play_events: the requests that were counted

listVars == <<playlists, entries, adding>>
playVars == <<now, tokens, streaming, plays>>
libraryVars == <<follows, badges, favorites, playlists, entries, adding, now,
                 tokens, streaming, plays>>
vars == <<tracks, albums, spent, follows, badges, favorites, playlists, entries,
          adding, now, tokens, streaming, plays>>

Viewers == Users \cup {None}

-----------------------------------------------------------------------------
(* What a viewer may open.                                                 *)

Owns(v, row) == v # None /\ row.owner = v
Follows(v, u) == v # None /\ <<v, u>> \in follows

CanAccessTrack(v, t) ==
    /\ t \in DOMAIN tracks
    /\ \/ v \in Admins \/ Owns(v, tracks[t])
       \/ tracks[t].vis \in {"public", "unlisted"}
       \/ tracks[t].vis = "followers_only" /\ Follows(v, tracks[t].owner)

CanAccessAlbum(v, a) ==
    /\ a \in DOMAIN albums
    /\ v \in Admins \/ Owns(v, albums[a]) \/ albums[a].vis = "public"

CanAccessPlaylist(v, p) ==
    /\ p \in DOMAIN playlists
    /\ v \in Admins \/ Owns(v, playlists[p]) \/ playlists[p].vis = "public"

CanManagePlaylist(v, p) ==
    v \in Admins \/ (p \in DOMAIN playlists /\ Owns(v, playlists[p]))

\* getTrackDetail, shareTrackPage, subsonicGetSong and the streams
TrackDetail(v) == {t \in Tracks : CanAccessTrack(v, t)}

\* getAlbumDetail, shareAlbumPage
AlbumDetail(v) == {a \in Albums : CanAccessAlbum(v, a)}

\* albumCover, subsonicGetCoverArt: the covers a viewer is sent without a
\* signed address
AlbumCovers(v) == {a \in DOMAIN albums : v \in Admins \/ Owns(v, albums[a])
                                             \/ albums[a].vis = "public"}

-----------------------------------------------------------------------------
(* What the web API lists.                                                 *)

Public(rows) == {x \in DOMAIN rows : rows[x].vis = "public"}
Own(v, rows) == {x \in DOMAIN rows : Owns(v, rows[x])}

\* The WHERE clause that listTracks and listPlaylistTracks share.
Listed(v, t) ==
    \/ t \in Public(tracks) \cup Own(v, tracks)
    \/ tracks[t].vis = "followers_only" /\ Follows(v, tracks[t].owner)

ListTracks(v) == {t \in DOMAIN tracks : v \in Admins \/ Listed(v, t)}

ListAlbums(v) == IF v \in Admins THEN DOMAIN albums
                 ELSE Public(albums) \cup Own(v, albums)

ListPlaylists(v) == IF v \in Admins THEN DOMAIN playlists
                    ELSE Public(playlists) \cup Own(v, playlists)

EntryTracks(p) == {e.track : e \in entries[p]} \cap DOMAIN tracks

ListPlaylistTracks(v, p) ==
    {t \in EntryTracks(p) :
        CanAccessPlaylist(v, p) /\
            (v \in Admins \/ Owns(v, playlists[p]) \/ Listed(v, t))}

ManageListTracks(v) == IF v \in Admins THEN DOMAIN tracks ELSE Own(v, tracks)
ManageListAlbums(v) == IF v \in Admins THEN DOMAIN albums ELSE Own(v, albums)

\* discoveryOverview: the charts and the recommendations
DiscoveryTracks == Public(tracks)
DiscoveryAlbums == Public(albums)

\* Mutant: the page of u shows everything to everyone who follows u.
UploadedTracksFollowed(v, u) ==
    {t \in Own(u, tracks) : v \in Admins \/ v = u \/ t \in Public(tracks) \/ Follows(v, u)}

\* userUploads: the page of u as v sees it
UploadedTracks(v, u) ==
    {t \in Own(u, tracks) : \/ v \in Admins \/ v = u \/ t \in Public(tracks)
                            \/ tracks[t].vis = "followers_only" /\ Follows(v, u)}
UploadedAlbums(v, u) ==
    {a \in Own(u, albums) : v \in Admins \/ v = u \/ a \in Public(albums)}
UploadedPlaylists(v, u) ==
    {p \in Own(u, playlists) : v \in Admins \/ v = u \/ p \in Public(playlists)}

\* userPublicProfile: what u may have featured there
FeaturedAlbums(v, u) == {a \in Own(u, albums) : v = u \/ a \in Public(albums)}
FeaturedPlaylists(v, u) == {p \in Own(u, playlists) : v = u \/ p \in Public(playlists)}

\* userPublicProfile has one of these as the top track, for any visitor.
TopTracks(u) == Own(u, tracks)

\* listFavorites, and userUploads for whom u lets see it: u's favorites that
\* the JOINs find.
FavoritesListed(u) ==
    {x \in DOMAIN tracks \cup DOMAIN albums \cup DOMAIN playlists :
        <<u, x>> \in favorites}

\* The favorites that userPublicProfile counts, without a JOIN.
FavoritesCounted(u) == {f \in favorites : f[1] = u}

-----------------------------------------------------------------------------
(* What the OpenSubsonic API lists; its users are always logged in.        *)

\* subsonicListAlbums, subsonicListAlbumsByArtist, subsonicListArtists
SubsonicAlbums(v) == IF v \in Admins THEN DOMAIN albums
                     ELSE Public(albums) \cup Own(v, albums)

\* The WHERE clause of subsonicListSongsByAlbum also takes unlisted tracks.
SubsonicListed(v, t) == Listed(v, t) \/ tracks[t].vis = "unlisted"

SubsonicSees(v, t) == v \in Admins \/ SubsonicListed(v, t)

\* The song count in the lists of albums, from a subquery of its own.
SubsonicSongCount(v, a) ==
    Cardinality({t \in Held(a) :
        \/ v \in Admins
        \/ t \in Own(v, tracks) \/ tracks[t].vis \in {"public", "unlisted"}
        \/ tracks[t].vis = "followers_only" /\ Follows(v, tracks[t].owner)})

\* subsonicGetAlbum, subsonicGetMusicDirectory
SubsonicAlbumSongs(v, a) ==
    {t \in Held(a) : CanAccessAlbum(v, a) /\ SubsonicSees(v, t)}

\* Mutant: the index has the clause of listTracks.
SubsonicArtistsListed(v) ==
    {tracks[t].artist : t \in {x \in DOMAIN tracks : v \in Admins \/ Listed(v, x)}}

\* subsonicGetIndexes, subsonicGetArtists: the artists of visible tracks, from a
\* query of its own.
SubsonicArtists(v) ==
    {tracks[t].artist : t \in {x \in DOMAIN tracks :
        \/ v \in Admins
        \/ Owns(v, tracks[x]) \/ tracks[x].vis \in {"public", "unlisted"}
        \/ tracks[x].vis = "followers_only" /\ Follows(v, tracks[x].owner)}}

SubsonicPlaylists(v) == Public(playlists) \cup Own(v, playlists)

SubsonicPlaylistSongs(v, p) ==
    {t \in EntryTracks(p) : CanAccessPlaylist(v, p) /\ CanAccessTrack(v, t)}

\* subsonicSearch3: the titles of tracks that match are filtered one by one,
\* those of albums are not, and an album's entry counts all its tracks.
SubsonicSearchSongs(v) == {t \in DOMAIN tracks : CanAccessTrack(v, t)}
SubsonicSearchAlbums == DOMAIN albums
SubsonicSearchCount(a) == Cardinality(Held(a))

-----------------------------------------------------------------------------
(* The tokens of streams.                                                  *)

\* Verify compares whole seconds and includes the last one.
Verifies(k) == now <= k[2] + TTL

\* expires_at > now(), in fractions of a second: in the last second either.
\* now() is when the transaction began, in second b.
MayBeValid(k, b) == b <= k[2] + TTL
MayBeExpired(k, b) == b >= k[2] + TTL

\* expires_at < now() - interval '1 day', likewise
MayBeOld(k, b) == b >= k[2] + TTL + Keep
SurelyOld(k, b) == b > k[2] + TTL + Keep

\* The requests whose open transaction has marked token k.
Marking(k) == {s \in Streams : streaming[s].at = "count" /\ streaming[s].token = k}

-----------------------------------------------------------------------------
(* The catalog changes.  What refers to a deleted row goes with it.        *)

CatalogOnly == UNCHANGED libraryVars

Unfavored(x) == {f \in favorites : f[2] # x}

\* canUserUpload: administrators and holders of the creator badge
CanUpload(u) == u \in Admins \cup badges

Upload(u) ==
    /\ CanUpload(u)
    /\ \E t \in Tracks, a \in Albums, ar \in Artists, ti \in Titles, v \in TrackVis :
          ImportTrack(u, t, a, ar, ti, v)
    /\ CatalogOnly

ManageTrack(t) ==
    /\ t \in DOMAIN tracks
    /\ \E a \in Albums, ar \in Artists, ti \in Titles, v \in TrackVis :
          EditTrack(t, a, tracks[t].owner, ar, ti, v)
    /\ CatalogOnly

ManageAlbum(a) ==
    /\ \E ar \in Artists, ti \in Titles, v \in AlbumVis :
          EditAlbum(a, ar, ti, v, IF v = "public" THEN Held(a) ELSE {})
    /\ CatalogOnly

RemoveAlbum(a) ==
    /\ DeleteAlbum(a)
    /\ favorites' = Unfavored(a)
    /\ UNCHANGED <<follows, badges, listVars, playVars>>

Moderate(t, v) == SetVisibility(t, v) /\ CatalogOnly

\* ON DELETE CASCADE, which waits for a transaction that has marked a token of
\* the track (Marking).
RemoveTrack(t) ==
    /\ DeleteTrack(t)
    /\ favorites' = Unfavored(t)
    /\ \A k \in DOMAIN tokens : k[1] = t => Marking(k) = {}
    /\ entries' = [p \in DOMAIN entries |-> {e \in entries[p] : e.track # t}]
    /\ tokens' = [k \in {x \in DOMAIN tokens : x[1] # t} |-> tokens[k]]
    /\ plays' = {s \in plays : streaming[s].token[1] # t}
    /\ UNCHANGED <<follows, badges, playlists, adding, now, streaming>>

\* reassignDeletedUserReferences: one transaction.  Favorites stay.
RemoveUser(u) ==
    /\ Reassign(u, Own(u, tracks), Own(u, albums))
    /\ playlists' = [p \in DOMAIN playlists |->
          IF p \in Own(u, playlists)
          THEN [playlists[p] EXCEPT !.owner = GhostOf(u)] ELSE playlists[p]]
    /\ follows' = {f \in follows : u \notin {f[1], f[2]}}
    /\ badges' = badges \ {u}
    /\ UNCHANGED <<favorites, entries, adding, playVars>>

-----------------------------------------------------------------------------
(* Follows and favorites.                                                  *)

IsCreator(u) == u \in badges \/ Own(u, tracks) # {} \/ Own(u, albums) # {}

FollowUser(v, u) ==
    /\ v # u /\ IsCreator(u)
    /\ follows' = follows \cup {<<v, u>>}
    /\ UNCHANGED <<shelfVars, badges, favorites, listVars, playVars>>

UnfollowUser(v, u) ==
    /\ follows' = follows \ {<<v, u>>}
    /\ UNCHANGED <<shelfVars, badges, favorites, listVars, playVars>>

KeepAllElse == UNCHANGED <<shelfVars, follows, badges, listVars, playVars>>

\* A foreign key asks for the row; nothing asks whether u may open it.
AddFavorite(u, x) ==
    /\ x \in DOMAIN tracks \cup DOMAIN albums \cup DOMAIN playlists
    /\ favorites' = favorites \cup {<<u, x>>}
    /\ KeepAllElse

RemoveFavorite(u, x) == favorites' = favorites \ {<<u, x>>} /\ KeepAllElse

-----------------------------------------------------------------------------
(* Playlists.                                                              *)

KeepOthers == UNCHANGED <<shelfVars, follows, badges, playVars>>

CreatePlaylist(u, p, v) ==
    /\ p \in Playlists \ DOMAIN entries
    /\ playlists' = [x \in DOMAIN playlists \cup {p} |->
          IF x = p THEN [owner |-> u, vis |-> v] ELSE playlists[x]]
    /\ entries' = [x \in DOMAIN entries \cup {p} |->
          IF x = p THEN {} ELSE entries[x]]
    /\ UNCHANGED <<favorites, adding>> /\ KeepOthers

\* Mutant: an update makes the playlist that is missing.
UpdatePlaylistUpserted(u, p, v) ==
    /\ CanManagePlaylist(u, p)
    /\ playlists' = [x \in DOMAIN playlists \cup {p} |->
          IF x = p THEN [owner |-> u, vis |-> v] ELSE playlists[x]]
    /\ UNCHANGED <<favorites, entries, adding>> /\ KeepOthers

UpdatePlaylist(u, p, v) ==
    /\ CanManagePlaylist(u, p)
    /\ playlists' = [x \in DOMAIN playlists |->
          IF x = p THEN [playlists[x] EXCEPT !.vis = v] ELSE playlists[x]]
    /\ UNCHANGED <<favorites, entries, adding>> /\ KeepOthers

\* The entries go with the list; its id stays in DOMAIN entries, used up.
DeletePlaylist(u, p) ==
    /\ p \in DOMAIN playlists /\ CanManagePlaylist(u, p)
    /\ playlists' = [x \in DOMAIN playlists \ {p} |-> playlists[x]]
    /\ entries' = [entries EXCEPT ![p] = {}]
    /\ favorites' = Unfavored(p)
    /\ UNCHANGED adding /\ KeepOthers

Highest(field, rows) ==
    IF rows = {} THEN 0
    ELSE CHOOSE n \in {e[field] : e \in rows} : \A e \in rows : e[field] <= n

\* Mutant: COUNT in place of MAX.
NextPositionCounted(p) == Cardinality(entries[p]) + 1

NextPosition(p) == Highest("pos", entries[p]) + 1

\* The checks and SELECT MAX(position)+1.  seen: the calls answered by now.
AddRead(r, u, p, t) ==
    /\ adding[r].at = "idle"
    /\ CanManagePlaylist(u, p) /\ CanAccessTrack(u, t)
    /\ p \in DOMAIN entries
    /\ adding' = [adding EXCEPT ![r] =
          [at |-> "insert", list |-> p, track |-> t, pos |-> NextPosition(p),
           seen |-> {a \in Adds : adding[a].at = "done"}]]
    /\ UNCHANGED <<favorites, playlists, entries>> /\ KeepOthers

\* Mutant: no foreign keys.
AddInsertUnchecked(r) ==
    LET n == adding[r] IN
    /\ n.at = "insert"
    /\ adding' = [adding EXCEPT ![r].at = "done"]
    /\ entries' = [entries EXCEPT ![n.list] = {e \in @ : e.track # n.track} \cup
                     {[track |-> n.track, pos |-> n.pos, via |-> r,
                       added |-> Highest("added", entries[n.list]) + 1]}]
    /\ UNCHANGED <<favorites, playlists>> /\ KeepOthers

\* INSERT ... ON CONFLICT DO UPDATE; a foreign key refuses a list or track
\* that has been deleted since.
AddInsert(r) ==
    LET n == adding[r]
        others == {e \in entries[n.list] : e.track # n.track} IN
    /\ n.at = "insert"
    /\ adding' = [adding EXCEPT ![r].at = "done"]
    /\ entries' = IF n.list \in DOMAIN playlists /\ n.track \in DOMAIN tracks
                  THEN [entries EXCEPT ![n.list] = others \cup
                     {[track |-> n.track, pos |-> n.pos, via |-> r,
                       added |-> Highest("added", entries[n.list]) + 1]}]
                  ELSE entries
    /\ UNCHANGED <<favorites, playlists>> /\ KeepOthers

RemovePlaylistTrack(u, p, t) ==
    /\ CanManagePlaylist(u, p) /\ p \in DOMAIN entries
    /\ entries' = [entries EXCEPT ![p] = {e \in @ : e.track # t}]
    /\ UNCHANGED <<favorites, playlists, adding>> /\ KeepOthers

-----------------------------------------------------------------------------
(* Counted plays.                                                          *)

KeepRest == UNCHANGED <<shelfVars, follows, badges, favorites, listVars>>

Tick == /\ now < MaxNow /\ now' = now + 1
        /\ UNCHANGED <<tokens, streaming, plays>> /\ KeepRest

\* signStream, registerPlayToken: the token is a function of the track and the
\* second; the first to sign it has it registered.
SignStream(v, t) ==
    /\ CanAccessTrack(v, t)
    /\ tokens' = [k \in DOMAIN tokens \cup {<<t, now>>} |->
                     k \in DOMAIN tokens /\ tokens[k]]
    /\ UNCHANGED <<now, streaming, plays>> /\ KeepRest

\* streamTrack: the signature and its expiry are checked and the file opened.
StreamTrack(s, k) ==
    /\ streaming[s].at = "idle"
    /\ k \in DOMAIN tokens /\ Verifies(k) /\ k[1] \in DOMAIN tracks
    /\ streaming' = [streaming EXCEPT ![s] = [at |-> "mark", token |-> k, since |-> now]]
    /\ UNCHANGED <<now, tokens, plays>> /\ KeepRest

Marked(s, b) ==
    [streaming EXCEPT ![s] = [at |-> "count", token |-> streaming[s].token, since |-> b]]
Finished(s) == [streaming EXCEPT ![s] = [at |-> "done", token |-> streaming[s].token]]

\* Mutant: played_at IS NULL is not asked for.
MarkPlayedAgain(s) ==
    LET k == streaming[s].token IN
    /\ streaming[s].at = "mark" /\ Marking(k) = {}
    /\ \E b \in streaming[s].since .. now :
          \/ k \in DOMAIN tokens /\ MayBeValid(k, b) /\ streaming' = Marked(s, b)
          \/ (k \in DOMAIN tokens => MayBeExpired(k, b)) /\ streaming' = Finished(s)
    /\ UNCHANGED <<now, tokens, plays>> /\ KeepRest

\* BEGIN, in some second b since the file was opened, and the UPDATE of
\* recordPlayByToken, which waits for a transaction that has marked the token
\* and then looks at played_at again.
MarkPlayed(s) ==
    LET k == streaming[s].token IN
    /\ streaming[s].at = "mark" /\ Marking(k) = {}
    /\ \E b \in streaming[s].since .. now :
          \/ /\ k \in DOMAIN tokens /\ ~tokens[k] /\ MayBeValid(k, b)
             /\ streaming' = Marked(s, b)
          \/ /\ k \in DOMAIN tokens => tokens[k] \/ MayBeExpired(k, b)
             /\ streaming' = Finished(s)
    /\ UNCHANGED <<now, tokens, plays>> /\ KeepRest

\* INSERT INTO play_events, the DELETE of the tokens that expired a day ago,
\* which waits for the transactions that have marked one, and the commit
CountPlay(s) ==
    LET b == streaming[s].since IN
    /\ streaming[s].at = "count"
    /\ \E old \in SUBSET {k \in DOMAIN tokens : MayBeOld(k, b)} :
          /\ {k \in DOMAIN tokens : SurelyOld(k, b)} \subseteq old
          /\ \A k \in old : Marking(k) = {}
          /\ tokens' = [k \in DOMAIN tokens \ old |-> tokens[k] \/ k = streaming[s].token]
    /\ plays' = plays \cup {s}
    /\ streaming' = Finished(s)
    /\ UNCHANGED now /\ KeepRest

\* The rollback of recordPlayByToken, whose error streamTrack ignores: a lost
\* connection, a deadlock between two such DELETEs, or one with a deletion of
\* the track, which has locked the track and waits for the token while the
\* INSERT waits for the track.
LosePlay(s) ==
    /\ streaming[s].at \in {"mark", "count"}
    /\ streaming' = Finished(s)
    /\ UNCHANGED <<now, tokens, plays>> /\ KeepRest

-----------------------------------------------------------------------------

Init ==
    /\ ShelfInit
    /\ follows = {} /\ badges \in SUBSET Users /\ favorites = {}
    /\ playlists = <<>> /\ entries = <<>>
    /\ adding = [r \in Adds |-> [at |-> "idle"]]
    /\ now = 0 /\ tokens = <<>>
    /\ streaming = [s \in Streams |-> [at |-> "idle"]]
    /\ plays = {}

CatalogNext ==
    \/ \E u \in Users : Upload(u) \/ RemoveUser(u)
    \/ \E t \in Tracks :
          \/ ManageTrack(t) \/ RemoveTrack(t)
          \/ \E v \in TrackVis : Moderate(t, v)
    \/ \E a \in Albums : ManageAlbum(a) \/ RemoveAlbum(a)

SocialNext ==
    \/ \E f \in Pairs : FollowUser(f[1], f[2]) \/ UnfollowUser(f[1], f[2])
    \/ \E f \in Favorites : AddFavorite(f[1], f[2]) \/ RemoveFavorite(f[1], f[2])

ListNext ==
    \/ \E u \in Users, p \in Playlists :
          \/ \E v \in AlbumVis : CreatePlaylist(u, p, v) \/ UpdatePlaylist(u, p, v)
          \/ DeletePlaylist(u, p)
          \/ \E t \in Tracks :
                RemovePlaylistTrack(u, p, t) \/ \E r \in Adds : AddRead(r, u, p, t)
    \/ \E r \in Adds : AddInsert(r)

PlayNext ==
    \/ Tick
    \/ \E v \in Viewers, t \in Tracks : SignStream(v, t)
    \/ \E s \in Streams :
          \/ MarkPlayed(s) \/ CountPlay(s) \/ LosePlay(s)
          \/ \E k \in DOMAIN tokens : StreamTrack(s, k)

Next == CatalogNext \/ SocialNext \/ ListNext \/ PlayNext

Spec == Init /\ [][Next]_vars

-----------------------------------------------------------------------------
(* Properties.                                                             *)

\* The variables have their types: ids refer to the tables, the stages of the
\* calls are those of addPlaylistTrack and streamTrack.
TypeOK ==
    /\ tracks \in [spent \cap DOMAIN tracks -> TrackRows]
    /\ albums \in [spent \cap DOMAIN albums -> AlbumRows]
    /\ spent \subseteq Tracks \cup Albums
    /\ follows \subseteq Pairs /\ badges \subseteq Users /\ favorites \subseteq Favorites
    /\ playlists \in [DOMAIN playlists -> [owner : Owners, vis : AlbumVis]]
    /\ DOMAIN playlists \subseteq DOMAIN entries /\ DOMAIN entries \subseteq Playlists
    /\ \A p \in DOMAIN entries :
           entries[p] \subseteq [track : Tracks, pos : Nat, via : Adds, added : Nat]
    /\ \A r \in Adds : adding[r].at \in {"idle", "insert", "done"}
    /\ now \in 0 .. MaxNow
    /\ tokens \in [DOMAIN tokens -> BOOLEAN]
    /\ DOMAIN tokens \subseteq Tracks \X (0 .. MaxNow)
    /\ \A s \in Streams : streaming[s].at \in {"idle", "mark", "count", "done"}
    /\ plays \subseteq Streams

\* The lists with a clause on the visibility show nothing that their viewer may
\* not open: canAccessTrack, canAccessAlbum or canAccessPlaylist lets the same
\* viewer open it, whoever has hidden, moved, deleted or unfollowed it since.
\* Each list writes the rule down again in its own WHERE clause.  The owner of a
\* playlist alone is shown the entries that have been hidden from them
\* (listPlaylistTracks drops the clause for the owner).  Three lists have no
\* clause and are no part of this: SubsonicSearchAlbums, FavoritesListed and
\* TopTracks name private rows to those who may not open them.  An album that
\* search3 alone lists stays shut: its songs are not listed.
TracksShown(v) ==
    UNION ({ListTracks(v), DiscoveryTracks, SubsonicSearchSongs(v)}
        \cup {UploadedTracks(v, u) : u \in Owners}
        \cup {ListPlaylistTracks(v, p) : p \in DOMAIN playlists \ Own(v, playlists)}
        \cup {SubsonicPlaylistSongs(v, p) : p \in DOMAIN playlists})

AlbumsShown(v) ==
    UNION ({ListAlbums(v), DiscoveryAlbums, AlbumCovers(v)}
        \cup {UploadedAlbums(v, u) \cup FeaturedAlbums(v, u) : u \in Owners})

PlaylistsShown(v) ==
    ListPlaylists(v)
        \cup UNION {UploadedPlaylists(v, u) \cup FeaturedPlaylists(v, u) : u \in Owners}

ListedIsOpen ==
    /\ \A v \in Viewers :
          /\ TracksShown(v) \subseteq TrackDetail(v)
          /\ AlbumsShown(v) \subseteq AlbumDetail(v)
          /\ \A p \in PlaylistsShown(v) : CanAccessPlaylist(v, p)
    /\ \A v \in Users :
          /\ SubsonicAlbums(v) \subseteq AlbumDetail(v)
          /\ \A a \in DOMAIN albums : SubsonicAlbumSongs(v, a) \subseteq TrackDetail(v)
          /\ \A a \in SubsonicSearchAlbums \ AlbumDetail(v) : SubsonicAlbumSongs(v, a) = {}
          /\ \A p \in SubsonicPlaylists(v) : CanAccessPlaylist(v, p)

\* The two APIs agree: what a user manages is in their own lists; an album that
\* a Subsonic client is shown holds as many songs as its entry says, and each of
\* the songs belongs to an artist of the index (the count, the songs and the
\* index come from different queries).  The entries of search3 count every track
\* of an album: they agree with its songs for administrators.
ApisAgree ==
    \A v \in Users :
        /\ ManageListTracks(v) \subseteq ListTracks(v)
        /\ ManageListAlbums(v) \subseteq ListAlbums(v) \cap SubsonicAlbums(v)
        /\ \A a \in SubsonicAlbums(v) :
              /\ SubsonicSongCount(v, a) = Cardinality(SubsonicAlbumSongs(v, a))
              /\ \A t \in SubsonicAlbumSongs(v, a) : tracks[t].artist \in SubsonicArtists(v)
        /\ v \in Admins => \A a \in SubsonicSearchAlbums :
              SubsonicSearchCount(a) = Cardinality(SubsonicAlbumSongs(v, a))

\* Nothing refers to a row that is gone, although an entry is inserted some time
\* after its playlist and its track were looked at (addPlaylistTrack), a play is
\* counted some time after its token was (recordPlayByToken), old tokens are
\* swept, and deletions come between.  So the favorites that a profile counts
\* are those that the list of favorites finds.
NothingDangles ==
    /\ \A t \in DOMAIN tracks : tracks[t].album \in DOMAIN albums \cup {None}
    /\ \A p \in DOMAIN entries : entries[p] # {} => p \in DOMAIN playlists
    /\ \A p \in DOMAIN entries : \A e \in entries[p] : e.track \in DOMAIN tracks
    /\ \A k \in DOMAIN tokens : k[1] \in DOMAIN tracks
    /\ \A s \in plays : streaming[s].token[1] \in DOMAIN tracks
    /\ \A u \in Users : FavoritesCounted(u) = {<<u, x>> : x \in FavoritesListed(u)}

\* A playlist keeps the order of adding: a track whose add had been answered when
\* another add looked for the next position is listed before that other track,
\* whatever was removed in between and however the two inserts fell.
\* listPlaylistTracks orders by position, then by added_at.
AddOrderKept ==
    \A p \in DOMAIN entries : \A e, f \in entries[p] :
        e.via \in adding[f.via].seen =>
            \/ e.pos < f.pos
            \/ e.pos = f.pos /\ e.added < f.added

\* A token counts for at most one play, however many range requests a player
\* sends with it at the same time (the UPDATE of recordPlayByToken).
OncePerToken ==
    \A s, r \in plays : streaming[s].token = streaming[r].token => s = r
=============================================================================
