---------------------------- MODULE CatalogProofs ----------------------------
(***************************************************************************)
(* Proofs about Catalog: requests that overlap statement by statement      *)
(* change the tables by whole handlers (Shelf), the tables stay whole, and *)
(* a publication reaches every track.                                      *)
(***************************************************************************)
EXTENDS Catalog, FiniteSetTheorems, TLAPS

-----------------------------------------------------------------------------
(* The tables under the commits of Shelf.                                  *)

ShelfHolds ==
    /\ tracks \in [DOMAIN tracks -> TrackRows] /\ DOMAIN tracks \subseteq Tracks \cap spent
    /\ albums \in [DOMAIN albums -> AlbumRows] /\ DOMAIN albums \subseteq Albums \cap spent
    /\ spent \subseteq Tracks \cup Albums
    /\ Shelved

LEMMA ShelfStart == ShelfInit => ShelfHolds
BY DEF ShelfInit, ShelfHolds, Shelved

\* An upsert leaves typed albums, each pair of artist and title once.
LEMMA UpsertedAlbums ==
    ASSUME ShelfHolds, NEW a, NEW u \in Owners, NEW ar \in Artists, NEW ti \in Titles,
           NEW v \in AlbumVis, UpsertTarget(a, ar, ti), albums' = Upserted(a, u, ar, ti, v)
    PROVE  /\ a \in Albums
           /\ albums' \in [DOMAIN albums' -> AlbumRows]
           /\ DOMAIN albums' = DOMAIN albums \cup {a}
           /\ albums'[a].artist = ar /\ albums'[a].title = ti
           /\ \A x \in DOMAIN albums \ {a} : albums'[x] = albums[x]
           /\ \A x, y \in DOMAIN albums' :
                 albums'[x].artist = albums'[y].artist /\ albums'[x].title = albums'[y].title
                    => x = y
<1>1. a \in Albums
  BY DEF UpsertTarget, AlbumsNamed, ShelfHolds
<1>2. DOMAIN albums' = DOMAIN albums \cup {a}
  BY DEF Upserted
<1>3. ASSUME NEW x \in DOMAIN albums \ {a} PROVE albums'[x] = albums[x]
  BY <1>3 DEF Upserted
<1>4. albums'[a] \in AlbumRows /\ albums'[a].artist = ar /\ albums'[a].title = ti
  <2>1. CASE a \in DOMAIN albums
    <3>1. albums[a] \in AlbumRows /\ albums[a].artist = ar /\ albums[a].title = ti
      BY <2>1 DEF UpsertTarget, AlbumsNamed, ShelfHolds
    <3>2. albums'[a] = [albums[a] EXCEPT !.vis = MergedVis(albums[a].vis, v)]
      BY <2>1 DEF Upserted
    <3>3. MergedVis(albums[a].vis, v) \in AlbumVis
      BY <3>1 DEF MergedVis, AlbumRows, AlbumVis
    <3> QED
      BY <3>1, <3>2, <3>3 DEF AlbumRows
  <2>2. CASE a \notin DOMAIN albums
    <3>1. albums'[a] = [owner |-> u, vis |-> v, artist |-> ar, title |-> ti]
      BY <2>2 DEF Upserted
    <3> QED
      BY <3>1 DEF AlbumRows
  <2> QED
    BY <2>1, <2>2
<1>5. albums' \in [DOMAIN albums' -> AlbumRows]
  <2>1. \A x \in DOMAIN albums' : albums'[x] \in AlbumRows
    BY <1>2, <1>3, <1>4 DEF ShelfHolds
  <2>2. albums' = [x \in DOMAIN albums' |-> albums'[x]]
    BY DEF Upserted
  <2> QED
    BY <2>1, <2>2
<1>6. ASSUME NEW x \in DOMAIN albums \ {a}
      PROVE  ~(albums[x].artist = ar /\ albums[x].title = ti)
  BY <1>6 DEF UpsertTarget, AlbumsNamed, ShelfHolds, Shelved
<1> QED
  BY <1>1, <1>2, <1>3, <1>4, <1>5, <1>6 DEF ShelfHolds, Shelved

\* Tracks that keep their album or go to one that is there, or to none.
LEMMA TracksShelved ==
    ASSUME ShelfHolds, DOMAIN albums \subseteq DOMAIN albums',
           \A t \in DOMAIN tracks' :
              \/ t \in DOMAIN tracks /\ tracks'[t].album = tracks[t].album
              \/ tracks'[t].album \in DOMAIN albums' \cup {None}
    PROVE  \A t \in DOMAIN tracks' : tracks'[t].album \in DOMAIN albums' \cup {None}
BY DEF ShelfHolds, Shelved

\* A table of which each row is an old one or has been replaced by a typed one.
LEMMA TrackTable ==
    ASSUME NEW D, NEW f, f = [x \in D |-> f[x]], \A x \in D : f[x] \in TrackRows
    PROVE  f \in [DOMAIN f -> TrackRows] /\ DOMAIN f = D
OBVIOUS

LEMMA ImportKeeps ==
    ASSUME ShelfAssumption, ShelfHolds, NEW u \in Owners, NEW t, NEW a, NEW ar \in Artists,
           NEW ti \in Titles, NEW v \in TrackVis, ImportTrack(u, t, a, ar, ti, v)
    PROVE  ShelfHolds'
<1>1. AlbumVisFor(v) \in AlbumVis
  BY DEF AlbumVisFor, AlbumVis
<1>2. UpsertTarget(a, ar, ti) /\ albums' = Upserted(a, u, ar, ti, AlbumVisFor(v))
  BY DEF ImportTrack
<1>3. /\ a \in Albums /\ DOMAIN albums' = DOMAIN albums \cup {a}
      /\ albums' \in [DOMAIN albums' -> AlbumRows]
      /\ \A x, y \in DOMAIN albums' :
            albums'[x].artist = albums'[y].artist /\ albums'[x].title = albums'[y].title
               => x = y
  BY <1>1, <1>2, UpsertedAlbums
<1>4. /\ t \in Tracks /\ spent' = spent \cup {t, a}
      /\ DOMAIN tracks' = DOMAIN tracks \cup {t}
      /\ tracks' = [x \in DOMAIN tracks' |-> tracks'[x]]
      /\ tracks'[t] = [owner |-> u, vis |-> v, artist |-> ar, album |-> a]
      /\ \A x \in DOMAIN tracks \ {t} : tracks'[x] = tracks[x]
  BY DEF ImportTrack
<1>5. tracks'[t] \in TrackRows /\ tracks'[t].album = a
  BY <1>3, <1>4 DEF TrackRows
<1>6. \A x \in DOMAIN tracks' : tracks'[x] \in TrackRows
  BY <1>4, <1>5 DEF ShelfHolds
<1>7. tracks' \in [DOMAIN tracks' -> TrackRows]
  BY <1>4, <1>6
<1>8. \A x \in DOMAIN tracks' : tracks'[x].album \in DOMAIN albums' \cup {None}
  BY <1>3, <1>4, <1>5, TracksShelved
<1> QED
  BY <1>3, <1>4, <1>7, <1>8 DEF ShelfHolds, Shelved

LEMMA CreateKeeps ==
    ASSUME ShelfHolds, NEW u \in Owners, NEW a, NEW ar \in Artists,
           NEW ti \in Titles, NEW v \in AlbumVis, CreateAlbum(u, a, ar, ti, v)
    PROVE  ShelfHolds'
<1>1. UpsertTarget(a, ar, ti) /\ albums' = Upserted(a, u, ar, ti, v)
      /\ tracks' = tracks /\ spent' = spent \cup {a}
  BY DEF CreateAlbum
<1>2. /\ a \in Albums /\ DOMAIN albums' = DOMAIN albums \cup {a}
      /\ albums' \in [DOMAIN albums' -> AlbumRows]
      /\ \A x, y \in DOMAIN albums' :
            albums'[x].artist = albums'[y].artist /\ albums'[x].title = albums'[y].title
               => x = y
  BY <1>1, UpsertedAlbums
<1> QED
  BY <1>1, <1>2 DEF ShelfHolds, Shelved

LEMMA EditTrackKeeps ==
    ASSUME ShelfHolds, NEW u \in Owners, NEW t, NEW a, NEW ar \in Artists,
           NEW ti \in Titles, NEW v \in TrackVis, EditTrack(t, a, u, ar, ti, v)
    PROVE  ShelfHolds'
<1>1. AlbumVisFor(v) \in AlbumVis
  BY DEF AlbumVisFor, AlbumVis
<1>2. UpsertTarget(a, ar, ti) /\ albums' = Upserted(a, u, ar, ti, AlbumVisFor(v))
  BY DEF EditTrack
<1>3. /\ a \in Albums /\ DOMAIN albums' = DOMAIN albums \cup {a}
      /\ albums' \in [DOMAIN albums' -> AlbumRows]
      /\ \A x, y \in DOMAIN albums' :
            albums'[x].artist = albums'[y].artist /\ albums'[x].title = albums'[y].title
               => x = y
  BY <1>1, <1>2, UpsertedAlbums
<1>4. /\ t \in DOMAIN tracks /\ spent' = spent \cup {a}
      /\ tracks' = [tracks EXCEPT ![t].vis = v, ![t].artist = ar, ![t].album = a]
  BY DEF EditTrack
<1>5. tracks[t] \in TrackRows
  BY <1>4 DEF ShelfHolds
<1>6. /\ DOMAIN tracks' = DOMAIN tracks
      /\ tracks'[t] \in TrackRows /\ tracks'[t].album = a
      /\ \A x \in DOMAIN tracks \ {t} : tracks'[x] = tracks[x]
  BY <1>3, <1>4, <1>5 DEF TrackRows
<1>7. tracks' \in [DOMAIN tracks' -> TrackRows]
  BY <1>4, <1>6 DEF ShelfHolds
<1>8. \A x \in DOMAIN tracks' : tracks'[x].album \in DOMAIN albums' \cup {None}
  BY <1>3, <1>6, TracksShelved
<1> QED
  BY <1>3, <1>4, <1>6, <1>7, <1>8 DEF ShelfHolds, Shelved

LEMMA EditAlbumKeeps ==
    ASSUME ShelfAssumption, ShelfHolds, NEW a, NEW ar \in Artists, NEW ti \in Titles,
           NEW v \in AlbumVis, NEW T, EditAlbum(a, ar, ti, v, T)
    PROVE  ShelfHolds'
<1>1. /\ a \in DOMAIN albums /\ AlbumsNamed(ar, ti) \subseteq {a} /\ spent' = spent
      /\ albums' = [albums EXCEPT ![a].artist = ar, ![a].title = ti, ![a].vis = v]
  BY DEF EditAlbum
<1>2. albums[a] \in AlbumRows
  BY <1>1 DEF ShelfHolds
<1>3. /\ DOMAIN albums' = DOMAIN albums
      /\ albums'[a] \in AlbumRows /\ albums'[a].artist = ar /\ albums'[a].title = ti
      /\ \A x \in DOMAIN albums \ {a} : albums'[x] = albums[x]
  BY <1>1, <1>2 DEF AlbumRows
<1>4. albums' \in [DOMAIN albums' -> AlbumRows]
  BY <1>1, <1>3 DEF ShelfHolds
<1>5. \A x, y \in DOMAIN albums' :
         albums'[x].artist = albums'[y].artist /\ albums'[x].title = albums'[y].title => x = y
  BY <1>1, <1>3 DEF AlbumsNamed, ShelfHolds, Shelved
<1>6. /\ DOMAIN tracks' = DOMAIN tracks /\ tracks' = [t \in DOMAIN tracks' |-> tracks'[t]]
      /\ \A t \in DOMAIN tracks :
            tracks'[t] = IF t \in T THEN [tracks[t] EXCEPT !.vis = "public"] ELSE tracks[t]
  BY DEF EditAlbum
<1>7. ASSUME NEW t \in DOMAIN tracks
      PROVE  tracks'[t] \in TrackRows /\ tracks'[t].album = tracks[t].album
  <2>1. tracks[t] \in TrackRows /\ "public" \in TrackVis
    BY DEF ShelfHolds, ShelfAssumption
  <2> QED
    BY <1>6, <2>1 DEF TrackRows
<1>8. tracks' \in [DOMAIN tracks' -> TrackRows]
  BY <1>6, <1>7
<1>9. \A x \in DOMAIN tracks' : tracks'[x].album \in DOMAIN albums' \cup {None}
  BY <1>3, <1>6, <1>7, TracksShelved
<1> QED
  BY <1>1, <1>3, <1>4, <1>5, <1>6, <1>8, <1>9 DEF ShelfHolds, Shelved

LEMMA DeleteAlbumKeeps ==
    ASSUME ShelfHolds, NEW a, DeleteAlbum(a)
    PROVE  ShelfHolds'
<1>1. /\ DOMAIN albums' = DOMAIN albums \ {a} /\ spent' = spent
      /\ albums' = [x \in DOMAIN albums' |-> albums'[x]]
      /\ \A x \in DOMAIN albums' : albums'[x] = albums[x]
  BY DEF DeleteAlbum
<1>2. albums' \in [DOMAIN albums' -> AlbumRows]
  BY <1>1 DEF ShelfHolds
<1>3. /\ DOMAIN tracks' = DOMAIN tracks /\ tracks' = [t \in DOMAIN tracks' |-> tracks'[t]]
      /\ \A t \in DOMAIN tracks :
            tracks'[t] = IF t \in Held(a) THEN [tracks[t] EXCEPT !.album = None]
                         ELSE tracks[t]
  BY DEF DeleteAlbum
<1>4. ASSUME NEW t \in DOMAIN tracks
      PROVE  tracks'[t] \in TrackRows /\ tracks'[t].album \in DOMAIN albums' \cup {None}
  <2>1. tracks[t] \in TrackRows /\ tracks[t].album \in DOMAIN albums \cup {None}
    BY DEF ShelfHolds, Shelved
  <2>2. CASE t \in Held(a)
    BY <1>3, <2>1, <2>2 DEF TrackRows
  <2>3. CASE t \notin Held(a)
    BY <1>1, <1>3, <2>1, <2>3 DEF Held
  <2> QED
    BY <2>2, <2>3
<1>5. tracks' \in [DOMAIN tracks' -> TrackRows]
  BY <1>3, <1>4
<1> QED
  BY <1>1, <1>2, <1>3, <1>4, <1>5 DEF ShelfHolds, Shelved

LEMMA ReassignKeeps ==
    ASSUME ShelfHolds, NEW u \in Users, NEW T, NEW A, Reassign(u, T, A)
    PROVE  ShelfHolds'
<1>0. GhostOf(u) \in Owners /\ spent' = spent
  BY DEF Owners, Reassign
<1>1. /\ DOMAIN tracks' = DOMAIN tracks /\ tracks' = [t \in DOMAIN tracks' |-> tracks'[t]]
      /\ \A t \in DOMAIN tracks :
            tracks'[t] = IF t \in T THEN [tracks[t] EXCEPT !.owner = GhostOf(u)]
                         ELSE tracks[t]
  BY DEF Reassign
<1>2. /\ DOMAIN albums' = DOMAIN albums /\ albums' = [t \in DOMAIN albums' |-> albums'[t]]
      /\ \A a \in DOMAIN albums :
            albums'[a] = IF a \in A THEN [albums[a] EXCEPT !.owner = GhostOf(u)]
                         ELSE albums[a]
  BY DEF Reassign
<1>3. ASSUME NEW t \in DOMAIN tracks
      PROVE  tracks'[t] \in TrackRows /\ tracks'[t].album = tracks[t].album
  <2>1. tracks[t] \in TrackRows
    BY DEF ShelfHolds
  <2> QED
    BY <1>0, <1>1, <2>1 DEF TrackRows
<1>4. ASSUME NEW a \in DOMAIN albums
      PROVE  /\ albums'[a] \in AlbumRows
             /\ albums'[a].artist = albums[a].artist /\ albums'[a].title = albums[a].title
  <2>1. albums[a] \in AlbumRows
    BY DEF ShelfHolds
  <2> QED
    BY <1>0, <1>2, <2>1 DEF AlbumRows
<1>5. tracks' \in [DOMAIN tracks' -> TrackRows] /\ albums' \in [DOMAIN albums' -> AlbumRows]
  BY <1>1, <1>2, <1>3, <1>4
<1> QED
  BY <1>0, <1>1, <1>2, <1>3, <1>4, <1>5 DEF ShelfHolds, Shelved

LEMMA ShelfStep == ASSUME ShelfAssumption, ShelfHolds, ShelfNext PROVE ShelfHolds'
<1>1. CASE LoseId
  BY <1>1 DEF LoseId, ShelfHolds, Shelved
<1>2. ASSUME NEW a \in Albums, NEW ar \in Artists, NEW ti \in Titles, NEW u \in Owners,
             NEW v \in TrackVis, NEW t \in Tracks,
             ImportTrack(u, t, a, ar, ti, v) \/ EditTrack(t, a, u, ar, ti, v)
      PROVE  ShelfHolds'
  BY <1>2, ImportKeeps, EditTrackKeeps
<1>3. ASSUME NEW a \in Albums, NEW ar \in Artists, NEW ti \in Titles, NEW u \in Owners,
             NEW v \in AlbumVis, CreateAlbum(u, a, ar, ti, v)
      PROVE  ShelfHolds'
  BY <1>3, CreateKeeps
<1>4. ASSUME NEW a \in Albums, NEW ar \in Artists, NEW ti \in Titles,
             NEW v \in AlbumVis, NEW T, EditAlbum(a, ar, ti, v, T)
      PROVE  ShelfHolds'
  BY <1>4, EditAlbumKeeps
<1>5. ASSUME NEW a \in Albums, DeleteAlbum(a) PROVE ShelfHolds'
  BY <1>5, DeleteAlbumKeeps
<1>6. ASSUME NEW t \in Tracks, DeleteTrack(t) PROVE ShelfHolds'
  <2>1. /\ DOMAIN tracks' = DOMAIN tracks \ {t} /\ albums' = albums /\ spent' = spent
        /\ tracks' = [x \in DOMAIN tracks' |-> tracks'[x]]
        /\ \A x \in DOMAIN tracks' : tracks'[x] = tracks[x]
    BY <1>6 DEF DeleteTrack
  <2> QED
    BY <2>1 DEF ShelfHolds, Shelved
<1>7. ASSUME NEW t \in Tracks, NEW v \in TrackVis, SetVisibility(t, v) PROVE ShelfHolds'
  <2>1. /\ t \in DOMAIN tracks /\ albums' = albums /\ spent' = spent
        /\ tracks' = [tracks EXCEPT ![t].vis = v]
    BY <1>7 DEF SetVisibility
  <2>2. tracks[t] \in TrackRows
    BY <2>1 DEF ShelfHolds
  <2>3. /\ DOMAIN tracks' = DOMAIN tracks /\ \A x \in DOMAIN tracks \ {t} : tracks'[x] = tracks[x]
        /\ tracks'[t] \in TrackRows /\ tracks'[t].album = tracks[t].album
    BY <2>1, <2>2 DEF TrackRows
  <2>4. tracks' \in [DOMAIN tracks' -> TrackRows]
    BY <2>1, <2>3 DEF ShelfHolds
  <2> QED
    BY <2>1, <2>3, <2>4 DEF ShelfHolds, Shelved
<1>8. ASSUME NEW u \in Users, NEW T, NEW A, Reassign(u, T, A) PROVE ShelfHolds'
  BY <1>8, ReassignKeeps
<1> QED
  BY <1>1, <1>2, <1>3, <1>4, <1>5, <1>6, <1>7, <1>8 DEF ShelfNext


-----------------------------------------------------------------------------
(* What holds of a request: of the values it has read ...                  *)

HasFields(F, record) == F \subseteq DOMAIN record
Fields == {"at", "q", "owner", "artist", "title", "vis", "album", "held", "todo"}

NamingOps == UpsertOps \cup {"editAlbum"}
Naming(n) == n.at \in {"artist", "album", "key", "rows"} /\ n.q.op \in NamingOps

StageHolds(n) ==
    /\ HasFields(Fields, n)
    /\ n.at \in Active \cup Ended \cup {"idle"}
    /\ n.at # "idle" => n.q \in Requests
    /\ n.at = "read" => n.q.op \in {"editTrack", "editAlbum"} /\ n.album = n.q.album
    /\ n.at = "artist" => n.q.op \in NamingOps
    /\ n.at = "key" => n.q.op = "editAlbum"
    /\ n.at = "count" => n.q.op = "deleteAlbum"
    /\ n.at \in {"scan", "owned"} => n.q.op = "deleteUser"

ValuesHold(n) ==
    /\ n.owner \in Owners \cup {None} /\ (n.at \in Active => n.owner \in Owners)
    /\ n.album \in Albums \cup {None}
    /\ n.held \subseteq Locks
    /\ n.todo \in Seq(Locks)
    /\ n.at \in Active \ {"owned", "rows"} => n.todo = <<>>
    /\ Naming(n) => /\ n.artist \in Artists /\ n.title \in Titles
                    /\ n.owner \in Owners /\ n.vis \in TrackVis
    /\ Naming(n) /\ n.q.op = "editAlbum" => n.vis \in AlbumVis /\ n.album \in Albums
    /\ n.at = "rows" /\ n.q.op = "setVisibility" => n.vis \in TrackVis
    /\ n.at \in {"read", "artist", "album"} /\ n.q.op \in UpsertOps => n.album = None
    /\ n.at = "rows" /\ n.q.op \in {"editAlbum", "deleteAlbum"} =>
          Range(n.todo) \subseteq TrackLocks(Tracks)

\* Artists are locked before albums and albums before tracks.
OneTrackOps == {"editTrack", "setVisibility", "deleteTrack"}

OrderHolds(n) ==
    /\ n.at \in {"idle", "read", "artist", "count", "scan"} \cup Ended => n.held = {}
    /\ n.at = "album" => n.held \subseteq {"artist"} \X Artists
    /\ n.at = "key" => n.held \cap TrackLocks(Tracks) = {}
    /\ n.at = "rows" /\ n.q.op \in {"import", "createAlbum"} => n.todo = <<>>
    /\ n.at = "rows" /\ n.q.op \in OneTrackOps /\ n.todo # <<>> =>
          /\ n.held \cap TrackLocks(Tracks) = {}
          /\ Head(n.todo) \in TrackLocks(Tracks) /\ Tail(n.todo) = <<>>

(* ... and of the tables, thanks to the locks it has.                      *)

LocksHold(n) ==
    \A a : <<"album", a>> \in n.held =>
        \/ a \in DOMAIN albums
        \/ n.at = "rows" /\ n.q.op \in UpsertOps /\ n.album = a

\* Nobody else gives an album of that artist another name.
ArtistHolds(n) ==
    n.at \in {"album", "key", "rows"} /\ n.q.op \in NamingOps =>
        <<"artist", n.artist>> \in n.held

UpsertHolds(n) ==
    n.at = "rows" /\ n.q.op \in UpsertOps =>
        /\ <<"album", n.album>> \in n.held
        /\ UpsertTarget(n.album, n.artist, n.title)

\* The name that the unique index has let pass stays free, and an album that was
\* gone stays so.
EditHolds(n) ==
    /\ Naming(n) /\ n.q.op = "editAlbum" => n.album \in spent
    /\ n.at = "key" => <<"album", n.album>> \in n.held
    /\ n.at = "rows" /\ n.q.op = "editAlbum" =>
          IF <<"album", n.album>> \in n.held
          THEN AlbumsNamed(n.artist, n.title) \subseteq {n.album}
          ELSE n.album \notin DOMAIN albums

Pending(n, t) == <<"track", t>> \in n.held \cup Range(n.todo)

DetachHolds(n) ==
    /\ n.at = "rows" /\ n.q.op = "deleteAlbum" /\ <<"album", n.album>> \in n.held
    => \A t \in Held(n.album) : Pending(n, t)

Moderated(t) ==
    \E s \in Slots : /\ req[s].at = "committed"
                     /\ req[s].q.op = "setVisibility" /\ req[s].q.track = t

PublishHolds(n) ==
    /\ n.at = "rows" /\ n.q.op = "editAlbum" /\ n.vis = "public"
    /\ <<"album", n.album>> \in n.held
    => \A t \in Held(n.album) :
           tracks[t].vis = "public" \/ Pending(n, t) \/ Moderated(t)

TablesHold(n) ==
    /\ LocksHold(n) /\ ArtistHolds(n) /\ UpsertHolds(n) /\ EditHolds(n)
    /\ DetachHolds(n) /\ PublishHolds(n)

RequestHolds(r) ==
    StageHolds(req[r]) /\ ValuesHold(req[r]) /\ OrderHolds(req[r]) /\ TablesHold(req[r])

\* Two requests never have the same lock.
LocksAreExclusive ==
    \A r, s \in Slots : r # s => req[r].held \cap req[s].held = {}

CatalogInv ==
    /\ ShelfHolds
    /\ DOMAIN req = Slots
    /\ \A r \in Slots : RequestHolds(r)
    /\ LocksAreExclusive

-----------------------------------------------------------------------------
(* What a step of request r may do to the others.                          *)

OnlyBy(r) ==
    /\ DOMAIN req' = Slots /\ req[r].at # "committed"
    /\ \A s \in Slots \ {r} : req'[s] = req[s]

Grabs(r) ==
    \A l \in req'[r].held : l \in req[r].held \/ \A s \in Slots \ {r} : l \notin req[s].held

SameName(a) == albums'[a].artist = albums[a].artist /\ albums'[a].title = albums[a].title

\* The tables change only where r has the locks.
Isolated(r) ==
    /\ \A a \in DOMAIN albums :
          <<"album", a>> \in req[r].held \/ (a \in DOMAIN albums' /\ SameName(a))
    /\ \A a \in DOMAIN albums' :
          \/ a \in DOMAIN albums /\ SameName(a)
          \/ <<"album", a>> \in req[r].held /\ <<"artist", albums'[a].artist>> \in req[r].held
    /\ \A a \in DOMAIN albums' \ DOMAIN albums : a \notin spent
    /\ \A t \in DOMAIN tracks' :
          \/ tracks'[t].album = None
          \/ <<"album", tracks'[t].album>> \in req[r].held
          \/ /\ t \in DOMAIN tracks /\ tracks'[t].album = tracks[t].album
             /\ \/ tracks[t].vis # "public"
                \/ tracks'[t].vis = "public"
                \/ /\ req'[r].at = "committed" /\ req'[r].q.op = "setVisibility"
                   /\ req'[r].q.track = t
    /\ spent \subseteq spent'
    /\ \A a \in (spent' \ spent) \cap Albums : <<"album", a>> \in req[r].held

LEMMA NothingMoves == ASSUME NEW r \in Slots, UNCHANGED shelfVars PROVE Isolated(r)
BY DEF shelfVars, Isolated, SameName

\* The step of r leaves request s what it relies on.
LEMMA OthersHold ==
    ASSUME ShelfAssumption, CatalogInv, NEW r \in Slots, NEW s \in Slots \ {r},
           OnlyBy(r), Isolated(r)
    PROVE  RequestHolds(s)'
<1>0. PICK n : n = req[s]
  OBVIOUS
<1>1. req'[s] = n /\ RequestHolds(s) /\ req[r].held \cap n.held = {}
  BY <1>0 DEF OnlyBy, CatalogInv, LocksAreExclusive
<1>2. StageHolds(n) /\ ValuesHold(n) /\ OrderHolds(n) /\ TablesHold(n)
  BY <1>0, <1>1 DEF RequestHolds
<1>3. StageHolds(req'[s]) /\ ValuesHold(req'[s]) /\ OrderHolds(req'[s])
  BY <1>1, <1>2
<1>4. ASSUME NEW ar, NEW ti, <<"artist", ar>> \in n.held, NEW a \in AlbumsNamed(ar, ti)'
      PROVE  a \in AlbumsNamed(ar, ti)
  <2>1. a \in DOMAIN albums' /\ albums'[a].artist = ar /\ albums'[a].title = ti
    BY <1>4 DEF AlbumsNamed
  <2>2. <<"artist", albums'[a].artist>> \notin req[r].held
    BY <1>1, <1>4, <2>1
  <2>3. a \in DOMAIN albums /\ SameName(a)
    BY <2>1, <2>2 DEF Isolated
  <2> QED
    BY <2>1, <2>3 DEF SameName, AlbumsNamed
<1>5. ASSUME NEW a \in DOMAIN albums, <<"album", a>> \in n.held
      PROVE  a \in DOMAIN albums' /\ SameName(a)
  BY <1>1, <1>5 DEF Isolated
<1>6. LocksHold(req[s])'
  BY <1>1, <1>2, <1>5 DEF LocksHold, TablesHold
<1>7. ArtistHolds(req[s])'
  BY <1>1, <1>2 DEF ArtistHolds, TablesHold
<1>8. UpsertHolds(req[s])'
  <2> SUFFICES ASSUME n.at = "rows", n.q.op \in UpsertOps
               PROVE  <<"album", n.album>> \in n.held /\ UpsertTarget(n.album, n.artist, n.title)'
    BY <1>1 DEF UpsertHolds
  <2>1. /\ <<"album", n.album>> \in n.held /\ <<"artist", n.artist>> \in n.held
        /\ UpsertTarget(n.album, n.artist, n.title)
    BY <1>2 DEF TablesHold, UpsertHolds, ArtistHolds, NamingOps
  <2>2. CASE n.album \in AlbumsNamed(n.artist, n.title)
    <3>1. n.album \in AlbumsNamed(n.artist, n.title)'
      BY <1>5, <2>1, <2>2 DEF AlbumsNamed, SameName
    <3> QED
      BY <2>1, <3>1 DEF UpsertTarget
  <2>3. CASE AlbumsNamed(n.artist, n.title) = {} /\ n.album \in Albums \ spent
    <3>1. AlbumsNamed(n.artist, n.title)' = {}
      BY <1>4, <2>1, <2>3
    <3>2. n.album \notin spent'
      BY <1>1, <2>1, <2>3 DEF Isolated
    <3> QED
      BY <2>1, <2>3, <3>1, <3>2 DEF UpsertTarget
  <2> QED
    BY <2>1, <2>2, <2>3 DEF UpsertTarget
<1>9. EditHolds(req[s])'
  <2>1. Naming(n) /\ n.q.op = "editAlbum" => n.album \in spent'
    BY <1>2 DEF TablesHold, EditHolds, Isolated
  <2>2. ASSUME n.at = "rows", n.q.op = "editAlbum", <<"album", n.album>> \in n.held
        PROVE  AlbumsNamed(n.artist, n.title)' \subseteq {n.album}
    <3>1. AlbumsNamed(n.artist, n.title) \subseteq {n.album} /\ <<"artist", n.artist>> \in n.held
      BY <1>2, <2>2 DEF TablesHold, EditHolds, ArtistHolds, NamingOps
    <3> QED
      BY <1>4, <3>1
  <2>3. ASSUME n.at = "rows", n.q.op = "editAlbum", <<"album", n.album>> \notin n.held
        PROVE  n.album \notin DOMAIN albums'
    <3>1. n.album \notin DOMAIN albums /\ n.album \in spent
      BY <1>2, <2>3 DEF TablesHold, EditHolds, Naming, NamingOps
    <3> QED
      BY <3>1 DEF Isolated
  <2> QED
    BY <1>1, <1>2, <2>1, <2>2, <2>3 DEF TablesHold, EditHolds, Naming
<1>10. ASSUME NEW a, a # None, <<"album", a>> \in n.held, NEW t \in Held(a)'
       PROVE  t \in Held(a) /\ (\/ tracks[t].vis # "public"
                                \/ tracks'[t].vis = "public"
                                \/ /\ req'[r].at = "committed" /\ req'[r].q.op = "setVisibility"
                                   /\ req'[r].q.track = t)
  <2>1. t \in DOMAIN tracks' /\ tracks'[t].album = a /\ <<"album", a>> \notin req[r].held
    BY <1>1, <1>10 DEF Held
  <2> QED
    BY <1>10, <2>1 DEF Isolated, Held
<1>11. <<"album", n.album>> \in n.held => n.album # None
  BY <1>2 DEF ValuesHold, Locks, ShelfAssumption
<1>12. DetachHolds(req[s])'
  BY <1>1, <1>2, <1>10, <1>11 DEF DetachHolds, TablesHold, Pending
<1>13. ASSUME NEW t, Moderated(t) PROVE Moderated(t)'
  BY <1>13 DEF Moderated, OnlyBy
<1>14. ASSUME NEW t, req'[r].at = "committed", req'[r].q.op = "setVisibility", req'[r].q.track = t
       PROVE  Moderated(t)'
  BY <1>14 DEF Moderated
<1>15. PublishHolds(req[s])'
  <2> SUFFICES ASSUME n.at = "rows", n.q.op = "editAlbum", n.vis = "public",
                      <<"album", n.album>> \in n.held, NEW t \in Held(n.album)'
               PROVE  tracks'[t].vis = "public" \/ Pending(n, t) \/ Moderated(t)'
    BY <1>1 DEF PublishHolds, Pending
  <2>1. t \in Held(n.album)
    BY <1>10, <1>11
  <2>2. tracks[t].vis = "public" \/ Pending(n, t) \/ Moderated(t)
    BY <1>2, <2>1 DEF TablesHold, PublishHolds
  <2> QED
    BY <1>10, <1>11, <1>13, <1>14, <2>2
<1> QED
  BY <1>3, <1>6, <1>7, <1>8, <1>9, <1>12, <1>15 DEF RequestHolds, TablesHold, StageHolds,
     ValuesHold, OrderHolds, Naming


LEMMA InvariantKept ==
    ASSUME ShelfAssumption, CatalogInv, NEW r \in Slots, OnlyBy(r), Grabs(r), Isolated(r),
           RequestHolds(r)', ShelfHolds'
    PROVE  CatalogInv'
<1>1. \A s \in Slots : RequestHolds(s)'
  BY OthersHold
<1>2. ASSUME NEW s \in Slots, NEW p \in Slots, s # p PROVE req'[s].held \cap req'[p].held = {}
  <2>1. req[s].held \cap req[p].held = {}
    BY <1>2 DEF CatalogInv, LocksAreExclusive
  <2>2. CASE s # r /\ p # r
    BY <2>1, <2>2 DEF OnlyBy
  <2>3. CASE s = r
    BY <1>2, <2>1, <2>3 DEF OnlyBy, Grabs
  <2>4. CASE p = r
    BY <1>2, <2>1, <2>4 DEF OnlyBy, Grabs
  <2> QED
    BY <2>2, <2>3, <2>4
<1>3. DOMAIN req' = Slots
  BY DEF OnlyBy
<1> QED
  BY <1>1, <1>2, <1>3 DEF CatalogInv, LocksAreExclusive

-----------------------------------------------------------------------------
(* Orders of locks.                                                        *)

LEMMA SomeTrackLocks ==
    ASSUME CatalogAssumption, NEW T, T \subseteq Tracks
    PROVE  IsFiniteSet(TrackLocks(T)) /\ TrackLocks(T) \subseteq TrackLocks(Tracks)
           /\ TrackLocks(T) \subseteq Locks
<1>1. IsFiniteSet(T)
  BY FS_Subset DEF CatalogAssumption
<1> DEFINE f == [t \in T |-> <<"track", t>>]
<1>2. f \in Surjection(T, TrackLocks(T))
  BY DEF Surjection, TrackLocks
<1>3. IsFiniteSet(TrackLocks(T))
  BY <1>1, <1>2, FS_Surjection
<1> QED
  BY <1>3 DEF TrackLocks, Locks

LEMMA SomeAlbumLocks ==
    ASSUME CatalogAssumption, NEW A, A \subseteq Albums
    PROVE  IsFiniteSet(AlbumLocks(A)) /\ AlbumLocks(A) \subseteq Locks
<1>1. IsFiniteSet(A)
  BY FS_Subset DEF CatalogAssumption
<1> DEFINE f == [a \in A |-> <<"album", a>>]
<1>2. f \in Surjection(A, AlbumLocks(A))
  BY DEF Surjection, AlbumLocks
<1>3. IsFiniteSet(AlbumLocks(A))
  BY <1>1, <1>2, FS_Surjection
<1> QED
  BY <1>3 DEF AlbumLocks, Locks

LEMMA OrdersAreSequences ==
    ASSUME NEW S, IsFiniteSet(S), NEW order \in Orders(S), NEW T, S \subseteq T
    PROVE  order \in Seq(T) /\ Range(order) = S
<1>1. Cardinality(S) \in Nat
  BY FS_CardinalityType
<1>2. order \in [1 .. Cardinality(S) -> S] /\ Range(order) = S
  BY DEF Orders
<1> QED
  BY <1>1, <1>2

LEMMA TailHolds ==
    ASSUME NEW S, NEW order \in Seq(S), order # <<>>
    PROVE  /\ Head(order) \in S /\ Tail(order) \in Seq(S)
           /\ Range(order) = {Head(order)} \cup Range(Tail(order))
<1>1. /\ Len(order) \in Nat /\ Len(order) > 0 /\ DOMAIN order = 1 .. Len(order)
      /\ Head(order) = order[1] /\ Head(order) \in S
  OBVIOUS
<1>2. /\ Tail(order) \in Seq(S) /\ DOMAIN Tail(order) = 1 .. Len(order) - 1
      /\ \A k \in 1 .. Len(order) - 1 : Tail(order)[k] = order[k + 1]
  BY <1>1
<1>3. ASSUME NEW k \in 1 .. Len(order)
      PROVE  order[k] \in {Head(order)} \cup Range(Tail(order))
  <2>1. CASE k = 1
    BY <1>1, <2>1
  <2>2. CASE k # 1
    <3>1. k - 1 \in 1 .. Len(order) - 1 /\ order[k] = Tail(order)[k - 1]
      BY <1>1, <1>2, <2>2
    <3> QED
      BY <1>2, <3>1 DEF Range
  <2> QED
    BY <2>1, <2>2
<1>4. ASSUME NEW k \in 1 .. Len(order) - 1 PROVE Tail(order)[k] \in Range(order)
  <2>1. k + 1 \in 1 .. Len(order) /\ Tail(order)[k] = order[k + 1]
    BY <1>1, <1>2
  <2> QED
    BY <1>1, <2>1 DEF Range
<1>5. Head(order) \in Range(order)
  BY <1>1 DEF Range
<1> QED
  BY <1>1, <1>2, <1>3, <1>4, <1>5 DEF Range

-----------------------------------------------------------------------------
(* The steps of a request before it commits.                               *)

\* A step of r that leaves the tables as they are.
Private(r) == OnlyBy(r) /\ Grabs(r) /\ RequestHolds(r)'

LEMMA EndHolds ==
    ASSUME ShelfAssumption, CatalogInv, NEW r \in Slots, req[r].at \notin {"idle", "committed"},
           NEW outcome \in Ended, End(r, outcome)
    PROVE  /\ Private(r) /\ req'[r].at = outcome /\ req'[r].q = req[r].q
<1>1. HasFields(Fields, req[r]) /\ req[r].q \in Requests
  BY DEF CatalogInv, RequestHolds, StageHolds
<1>2. DOMAIN req = Slots
  BY DEF CatalogInv
<1>3. /\ req'[r] = [at |-> outcome, q |-> req[r].q, owner |-> None, artist |-> Keep,
                    title |-> Keep, vis |-> Keep, album |-> None, held |-> {}, todo |-> <<>>]
      /\ DOMAIN req' = Slots /\ \A s \in Slots \ {r} : req'[s] = req[s]
  BY <1>2 DEF End, Idle
<1>4. /\ HasFields(Fields, req'[r]) /\ req'[r].at = outcome /\ req'[r].q = req[r].q
      /\ req'[r].owner = None /\ req'[r].album = None /\ req'[r].held = {}
      /\ req'[r].todo = <<>>
  BY <1>3 DEF HasFields, Fields
<1>5. outcome \in {"committed", "refused", "failed"}
  BY DEF Ended
<1>6. StageHolds(req[r])' /\ ValuesHold(req[r])' /\ OrderHolds(req[r])'
  <2>1. StageHolds(req[r])'
    BY <1>1, <1>4, <1>5 DEF StageHolds, Ended
  <2>2. ValuesHold(req[r])'
    BY <1>4, <1>5 DEF ValuesHold, Naming, Active
  <2>3. OrderHolds(req[r])'
    BY <1>4, <1>5 DEF OrderHolds
  <2> QED
    BY <2>1, <2>2, <2>3
<1>7. TablesHold(req[r])'
  BY <1>4, <1>5 DEF TablesHold, LocksHold, ArtistHolds, UpsertHolds, EditHolds, DetachHolds,
     PublishHolds, Naming
<1> QED
  BY <1>3, <1>4, <1>6, <1>7 DEF Private, OnlyBy, Grabs, RequestHolds


LEMMA FirstStages ==
    ASSUME NEW q \in Requests, CatalogAssumption
    PROVE  /\ q.op \in {"editTrack", "editAlbum"} => FirstStage(q.op) = "read"
           /\ q.op \in {"import", "createAlbum"} => FirstStage(q.op) = "artist"
           /\ q.op = "deleteAlbum" => FirstStage(q.op) = "count"
           /\ q.op = "deleteUser" => FirstStage(q.op) = "scan"
           /\ q.op \in {"setVisibility", "deleteTrack"} => FirstStage(q.op) = "rows"
           /\ q.op \in {"editTrack", "editAlbum", "import", "createAlbum", "deleteAlbum",
                        "deleteUser", "setVisibility", "deleteTrack"}
           /\ q.by \in Users /\ q.album \in Albums \cup {None}
           /\ q.artist \in Artists \cup {Keep} /\ q.title \in Titles \cup {Keep}
           /\ q.vis \in TrackVis \cup {Keep}
           /\ q.track \in Tracks \cup {None}
           /\ WellFormed(q)
<1>1. q \in RequestType /\ WellFormed(q)
  BY DEF CatalogAssumption
<1>2. q.op \in {"editTrack", "editAlbum", "import", "createAlbum", "deleteAlbum",
               "deleteUser", "setVisibility", "deleteTrack"}
  BY <1>1 DEF RequestType, Ops, UpsertOps
<1> QED
  BY <1>1, <1>2 DEF FirstStage, RequestType

LEMMA BeginHolds ==
    ASSUME ShelfAssumption, CatalogAssumption, CatalogInv, NEW r \in Slots,
           NEW q \in Requests, Begin(r, q)
    PROVE  Private(r) /\ req'[r].at # "committed"
<1> DEFINE at == IF ~Allowed(q) THEN "refused"
                 ELSE IF q.op = "deleteUser" /\ Deleted(q.user) THEN "failed"
                 ELSE FirstStage(q.op)
           todo == IF q.op \in {"setVisibility", "deleteTrack"}
                   THEN <<<<"track", q.track>>>> ELSE <<>>
<1>1. /\ DOMAIN req' = Slots /\ \A s \in Slots \ {r} : req'[s] = req[s]
      /\ req[r].at = "idle"
      /\ req'[r] = [q |-> q, owner |-> q.by, artist |-> q.artist, title |-> q.title,
                    vis |-> q.vis, album |-> q.album, held |-> {}, todo |-> todo, at |-> at]
  BY DEF Begin, CatalogInv
<1>2. at \in {"refused", "failed", FirstStage(q.op)}
  OBVIOUS
<1> HIDE DEF at
<1>3. /\ HasFields(Fields, req'[r]) /\ req'[r].at = at /\ req'[r].q = q
      /\ req'[r].owner = q.by /\ req'[r].artist = q.artist /\ req'[r].title = q.title
      /\ req'[r].vis = q.vis /\ req'[r].album = q.album /\ req'[r].held = {}
      /\ req'[r].todo = todo
  BY <1>1 DEF HasFields, Fields
<1>4. todo \in Seq(Locks)
  <2>1. CASE q.op \in {"setVisibility", "deleteTrack"}
    <3>1. q.track \in Tracks
      BY <2>1, FirstStages DEF WellFormed
    <3> QED
      BY <2>1, <3>1 DEF Locks
  <2> QED
    BY <2>1
<1>5. StageHolds(req[r])'
  BY <1>2, <1>3, FirstStages DEF StageHolds, Active, Ended, NamingOps, UpsertOps
<1>6. ValuesHold(req[r])'
  <2>1. req'[r].owner \in Owners
    BY <1>3, FirstStages DEF Owners
  <2>2. Naming(req'[r]) => q.op \in {"import", "createAlbum"}
    BY <1>2, <1>3, FirstStages DEF Naming, NamingOps, UpsertOps
  <2>3. q.op \in {"import", "createAlbum"} =>
           q.artist \in Artists /\ q.title \in Titles /\ q.vis \in TrackVis
    BY FirstStages DEF WellFormed
  <2>4. at \in Active \ {"owned", "rows"} => todo = <<>>
    BY <1>2, FirstStages DEF Active
  <2>5. at = "rows" => q.op \in {"setVisibility", "deleteTrack"}
    BY <1>2, FirstStages
  <2>6. q.op = "setVisibility" => q.vis \in TrackVis
    BY FirstStages DEF WellFormed
  <2>7. q.op \in UpsertOps => q.album = None
    BY FirstStages DEF WellFormed
  <2> HIDE DEF todo
  <2> QED
    BY <1>3, <1>4, <2>1, <2>2, <2>3, <2>4, <2>5, <2>6, <2>7, FirstStages DEF ValuesHold
<1>7. TablesHold(req[r])'
  <2>1. at \notin {"album", "key"} /\ ~(at = "rows" /\ q.op \in NamingOps \cup {"deleteAlbum"})
    BY <1>2, FirstStages DEF NamingOps, UpsertOps
  <2>2. ~(Naming(req'[r]) /\ q.op = "editAlbum")
    BY <1>2, <1>3, FirstStages DEF Naming
  <2> QED
    BY <1>3, <2>1, <2>2 DEF TablesHold, LocksHold, ArtistHolds, UpsertHolds, EditHolds,
       DetachHolds, PublishHolds, NamingOps
<1>8. OrderHolds(req[r])'
  <2>1. CASE q.op \in {"setVisibility", "deleteTrack"}
    <3>1. q.track \in Tracks
      BY <2>1, FirstStages DEF WellFormed
    <3>2. Head(todo) \in TrackLocks(Tracks) /\ Tail(todo) = <<>>
      BY <2>1, <3>1 DEF TrackLocks
    <3> HIDE DEF todo
    <3> QED
      BY <1>2, <1>3, <2>1, <3>2, FirstStages DEF OrderHolds
  <2>2. CASE q.op \notin {"setVisibility", "deleteTrack"}
    <3>1. at \notin {"album", "key", "rows"} /\ req'[r].held = {}
      BY <1>2, <1>3, <2>2, FirstStages
    <3> HIDE DEF todo
    <3> QED
      BY <1>3, <3>1 DEF OrderHolds
  <2> QED
    BY <2>1, <2>2
<1> QED
  BY <1>1, <1>2, <1>3, <1>5, <1>6, <1>7, <1>8, FirstStages
     DEF Private, OnlyBy, Grabs, RequestHolds

LEMMA ReadTrackHolds ==
    ASSUME ShelfAssumption, CatalogAssumption, CatalogInv, NEW r \in Slots, ReadTrack(r)
    PROVE  Private(r) /\ req'[r].at # "committed"
<1> DEFINE n == req[r]
           q == n.q
<1>1. /\ n.at = "read" /\ q.op = "editTrack" /\ q \in Requests /\ n.album = None
      /\ StageHolds(n) /\ ValuesHold(n) /\ TablesHold(n) /\ OrderHolds(n)
  BY DEF ReadTrack, At, CatalogInv, RequestHolds, StageHolds, ValuesHold, UpsertOps
<1>2. CASE q.track \notin DOMAIN tracks
  BY <1>1, <1>2, EndHolds DEF ReadTrack, Ended
<1>3. CASE q.track \in DOMAIN tracks
  <2> DEFINE row == tracks[q.track]
  <2>1. /\ DOMAIN req' = Slots /\ \A s \in Slots \ {r} : req'[s] = n \/ req'[s] = req[s]
        /\ req' = [req EXCEPT ![r] = [n EXCEPT !.at = "artist", !.owner = row.owner,
                        !.artist = Resolved(q.artist, row.artist),
                        !.title = Resolved(q.title, TitleOf(q.track)),
                        !.vis = Resolved(q.vis, row.vis)]]
    BY <1>3 DEF ReadTrack, CatalogInv
  <2>2. /\ \A s \in Slots \ {r} : req'[s] = req[s]
        /\ HasFields(Fields, req'[r])
        /\ req'[r].at = "artist" /\ req'[r].owner = row.owner
        /\ req'[r].artist = Resolved(q.artist, row.artist)
        /\ req'[r].title = Resolved(q.title, TitleOf(q.track))
        /\ req'[r].vis = Resolved(q.vis, row.vis)
        /\ req'[r].q = q /\ req'[r].album = None /\ req'[r].held = n.held /\ req'[r].todo = n.todo
    BY <1>1, <2>1 DEF StageHolds, HasFields, Fields, CatalogInv
  <2>3. row \in TrackRows /\ row.album \in DOMAIN albums \cup {None}
    BY <1>3 DEF CatalogInv, ShelfHolds, Shelved
  <2>4. TitleOf(q.track) \in Titles
    BY <2>3 DEF TitleOf, CatalogInv, ShelfHolds, AlbumRows, ShelfAssumption
  <2>5. /\ req'[r].artist \in Artists /\ req'[r].title \in Titles /\ req'[r].vis \in TrackVis
        /\ req'[r].owner \in Owners
    BY <1>1, <2>2, <2>3, <2>4, FirstStages DEF Resolved, TrackRows
  <2>6. n.held \subseteq Locks /\ n.todo = <<>>
    BY <1>1 DEF ValuesHold, Active
  <2>7. StageHolds(req[r])' /\ ValuesHold(req[r])'
    BY <1>1, <2>2, <2>5, <2>6 DEF StageHolds, ValuesHold, Naming, NamingOps, UpsertOps, Active
  <2>8. TablesHold(req[r])'
    <3>1. LocksHold(req[r])'
      BY <1>1, <2>2 DEF TablesHold, LocksHold, ReadTrack, shelfVars
    <3> QED
      BY <1>1, <2>2, <3>1 DEF TablesHold, ArtistHolds, UpsertHolds, EditHolds, DetachHolds,
         PublishHolds, Naming
  <2>9. OrderHolds(req[r])'
    BY <1>1, <2>2 DEF OrderHolds
  <2> QED
    BY <1>1, <2>1, <2>2, <2>7, <2>8, <2>9 DEF Private, OnlyBy, Grabs, RequestHolds
<1> QED
  BY <1>2, <1>3

\* A step of r that replaces its entry by m and leaves the tables alone.
LEMMA PrivateStep ==
    ASSUME ShelfAssumption, CatalogInv, NEW r \in Slots, UNCHANGED shelfVars, NEW m,
           req' = [req EXCEPT ![r] = m], req[r].at # "committed",
           StageHolds(m), ValuesHold(m), OrderHolds(m), TablesHold(m),
           \A l \in m.held : l \in req[r].held \/ \A s \in Slots \ {r} : l \notin req[s].held
    PROVE  Private(r) /\ req'[r] = m
<1>1. DOMAIN req' = Slots /\ req'[r] = m /\ \A s \in Slots \ {r} : req'[s] = req[s]
  BY DEF CatalogInv
<1>2. /\ LocksHold(m)' /\ ArtistHolds(m)' /\ UpsertHolds(m)' /\ EditHolds(m)'
      /\ DetachHolds(m)'
  BY DEF shelfVars, TablesHold, LocksHold, ArtistHolds, UpsertHolds, UpsertTarget, EditHolds,
     DetachHolds, AlbumsNamed, Held, Pending, Naming
<1>3. PublishHolds(m)'
  <2>1. ASSUME NEW t, Moderated(t) PROVE Moderated(t)'
    BY <1>1, <2>1 DEF Moderated
  <2> QED
    BY <2>1 DEF shelfVars, TablesHold, PublishHolds, Held, Pending
<1>4. TablesHold(req[r])'
  BY <1>1, <1>2, <1>3 DEF TablesHold, LocksHold, ArtistHolds, UpsertHolds, EditHolds,
     DetachHolds, PublishHolds, Naming, Pending
<1>5. StageHolds(req[r])' /\ ValuesHold(req[r])' /\ OrderHolds(req[r])'
  BY <1>1 DEF StageHolds, ValuesHold, OrderHolds, Naming
<1> QED
  BY <1>1, <1>4, <1>5 DEF Private, OnlyBy, Grabs, RequestHolds

LEMMA WantedLocks ==
    ASSUME NEW r \in Slots
    PROVE  /\ req[r].at = "artist" => Wanted(r) = {<<"artist", req[r].artist>>}
           /\ req[r].at = "album" /\ req[r].q.op \in UpsertOps =>
                 Wanted(r) = AlbumLocks(AlbumsNamed(req[r].artist, req[r].title))
           /\ req[r].at = "album" /\ req[r].q.op \notin UpsertOps =>
                 Wanted(r) = AlbumLocks({req[r].album} \cap DOMAIN albums)
           /\ req[r].at \in {"owned", "rows"} /\ req[r].todo # <<>> =>
                 Wanted(r) = {Head(req[r].todo)}
<1>1. CASE req[r].at = "artist"
  BY <1>1 DEF Wanted
<1>2. CASE req[r].at = "album" /\ req[r].q.op \in UpsertOps
  BY <1>2 DEF Wanted
<1>3. CASE req[r].at = "album" /\ req[r].q.op \notin UpsertOps
  BY <1>3 DEF Wanted
<1>4. CASE req[r].at \in {"owned", "rows"} /\ req[r].todo # <<>>
  BY <1>4 DEF Wanted
<1> QED
  BY <1>1, <1>2, <1>3, <1>4

LEMMA Granted ==
    ASSUME NEW r \in Slots, NEW stage, At(r, stage), NEW l \in Wanted(r)
    PROVE  \A s \in Slots \ {r} : l \notin req[s].held
BY DEF At, WaitsFor

\* What the invariant says of a request that is about to take a step.
LEMMA RequestFacts ==
    ASSUME CatalogInv, NEW r \in Slots
    PROVE  /\ StageHolds(req[r]) /\ ValuesHold(req[r]) /\ TablesHold(req[r])
           /\ OrderHolds(req[r]) /\ LocksHold(req[r]) /\ DOMAIN req = Slots
BY DEF CatalogInv, RequestHolds, TablesHold

LEMMA ReadAlbumHolds ==
    ASSUME ShelfAssumption, CatalogAssumption, CatalogInv, NEW r \in Slots, ReadAlbum(r)
    PROVE  Private(r) /\ req'[r].at # "committed"
<1>0. PICK n : n = req[r]
  OBVIOUS
<1>1. /\ n.at = "read" /\ n.q.op = "editAlbum" /\ n.q \in Requests /\ n.album = n.q.album
      /\ StageHolds(n) /\ ValuesHold(n) /\ LocksHold(n) /\ OrderHolds(n)
  BY <1>0, RequestFacts DEF ReadAlbum, At, StageHolds
<1>2. CASE n.q.album \notin DOMAIN albums
  BY <1>0, <1>1, <1>2, EndHolds DEF ReadAlbum, Ended
<1>3. CASE n.q.album \in DOMAIN albums
  <2>0. PICK row : row = albums[n.q.album]
    OBVIOUS
  <2>1. PICK m : m = [n EXCEPT !.at = "artist", !.artist = Resolved(n.q.artist, row.artist),
                         !.title = Resolved(n.q.title, row.title),
                         !.vis = Resolved(n.q.vis, row.vis)]
    OBVIOUS
  <2>2. req' = [req EXCEPT ![r] = m] /\ UNCHANGED shelfVars
    BY <1>0, <1>3, <2>0, <2>1 DEF ReadAlbum, CatalogInv
  <2>3. /\ HasFields(Fields, m) /\ m.at = "artist"
        /\ m.artist = Resolved(n.q.artist, row.artist)
        /\ m.title = Resolved(n.q.title, row.title) /\ m.vis = Resolved(n.q.vis, row.vis)
        /\ m.q = n.q /\ m.owner = n.owner /\ m.album = n.album /\ m.held = n.held
        /\ m.todo = n.todo
    BY <1>1, <2>1 DEF StageHolds, HasFields, Fields
  <2>4. row \in AlbumRows /\ n.album \in Albums /\ n.album \in spent
    BY <1>1, <1>3, <2>0 DEF CatalogInv, ShelfHolds
  <2>5. n.q.vis \in AlbumVis \cup {Keep} /\ WellFormed(n.q)
    BY <1>1, FirstStages DEF WellFormed
  <2>6. /\ m.artist \in Artists /\ m.title \in Titles /\ m.vis \in AlbumVis
    BY <1>1, <2>3, <2>4, <2>5, FirstStages DEF Resolved, AlbumRows
  <2>7. n.owner \in Owners /\ n.todo = <<>> /\ m.vis \in TrackVis
    BY <1>1, <2>6 DEF ShelfAssumption, AlbumVis, ValuesHold, Active
  <2>8. StageHolds(m)
    BY <1>1, <2>3 DEF StageHolds, NamingOps, Active
  <2>9. ValuesHold(m)
    BY <1>1, <2>3, <2>4, <2>6, <2>7 DEF ValuesHold, UpsertOps
  <2>10. TablesHold(m)
    BY <1>1, <2>3, <2>4 DEF TablesHold, LocksHold, ArtistHolds, UpsertHolds, EditHolds,
       DetachHolds, PublishHolds
  <2>11. OrderHolds(m)
    BY <1>1, <2>3 DEF OrderHolds
  <2> QED
    BY <1>0, <1>1, <2>2, <2>3, <2>8, <2>9, <2>10, <2>11, PrivateStep
<1> QED
  BY <1>2, <1>3

LEMMA CountTracksHolds ==
    ASSUME ShelfAssumption, CatalogAssumption, CatalogInv, NEW r \in Slots, CountTracks(r)
    PROVE  Private(r) /\ req'[r].at # "committed"
<1>0. PICK n : n = req[r]
  OBVIOUS
<1>1. /\ n.at = "count" /\ n.q.op = "deleteAlbum" /\ n.q \in Requests
      /\ StageHolds(n) /\ ValuesHold(n) /\ LocksHold(n) /\ OrderHolds(n)
  BY <1>0, RequestFacts DEF CountTracks, At, StageHolds
<1>2. CASE Held(n.album) # {}
  BY <1>0, <1>1, <1>2, EndHolds DEF CountTracks, Ended
<1>3. CASE Held(n.album) = {}
  <2>1. PICK m : m = [n EXCEPT !.at = "album"]
    OBVIOUS
  <2>2. req' = [req EXCEPT ![r] = m] /\ UNCHANGED shelfVars
    BY <1>0, <1>3, <2>1 DEF CountTracks, CatalogInv
  <2>3. /\ HasFields(Fields, m) /\ m.at = "album"
        /\ m.q = n.q /\ m.owner = n.owner /\ m.album = n.album /\ m.held = n.held
        /\ m.todo = n.todo
    BY <1>1, <2>1 DEF StageHolds, HasFields, Fields
  <2>4. StageHolds(m)
    BY <1>1, <2>3 DEF StageHolds, Active
  <2>5. ~Naming(m) /\ m.q.op \notin UpsertOps /\ m.q.op \notin NamingOps
    BY <1>1, <2>3 DEF Naming, NamingOps, UpsertOps
  <2>6. ValuesHold(m)
    BY <1>1, <2>3, <2>5 DEF ValuesHold, Active
  <2>7. TablesHold(m)
    BY <1>1, <2>3, <2>5 DEF TablesHold, LocksHold, ArtistHolds, UpsertHolds, EditHolds,
       DetachHolds, PublishHolds
  <2>8. OrderHolds(m)
    BY <1>1, <2>3 DEF OrderHolds
  <2> QED
    BY <1>0, <1>1, <2>2, <2>3, <2>4, <2>6, <2>7, <2>8, PrivateStep
<1> QED
  BY <1>2, <1>3

LEMMA UpsertArtistHolds ==
    ASSUME ShelfAssumption, CatalogAssumption, CatalogInv, NEW r \in Slots, UpsertArtist(r)
    PROVE  Private(r) /\ req'[r].at # "committed"
<1>0. PICK n : n = req[r]
  OBVIOUS
<1>1. /\ n.at = "artist" /\ n.q.op \in NamingOps /\ n.q \in Requests
      /\ StageHolds(n) /\ ValuesHold(n) /\ LocksHold(n) /\ EditHolds(n) /\ OrderHolds(n)
  BY <1>0, RequestFacts DEF UpsertArtist, At, StageHolds, TablesHold
<1>2. PICK m : m = [n EXCEPT !.at = "album", !.held = @ \cup {<<"artist", n.artist>>}]
  OBVIOUS
<1>3. req' = [req EXCEPT ![r] = m] /\ UNCHANGED shelfVars
  BY <1>0, <1>2 DEF UpsertArtist, CatalogInv
<1>4. /\ HasFields(Fields, m) /\ m.at = "album" /\ m.held = n.held \cup {<<"artist", n.artist>>}
      /\ m.q = n.q /\ m.owner = n.owner /\ m.album = n.album /\ m.todo = n.todo
      /\ m.artist = n.artist /\ m.title = n.title /\ m.vis = n.vis
  BY <1>1, <1>2 DEF StageHolds, HasFields, Fields
<1>5. StageHolds(m)
  BY <1>1, <1>4 DEF StageHolds, Active
<1>6. Naming(n) /\ Naming(m)
  BY <1>1, <1>4 DEF Naming
<1>7. n.artist \in Artists /\ m.held \subseteq Locks
  BY <1>1, <1>4, <1>6 DEF ValuesHold, Locks
<1>8. ValuesHold(m)
  BY <1>1, <1>4, <1>6, <1>7 DEF ValuesHold, Active
<1>9. TablesHold(m)
  <2>1. LocksHold(m)
    BY <1>1, <1>4 DEF LocksHold
  <2>2. ArtistHolds(m)
    BY <1>4 DEF ArtistHolds
  <2>3. EditHolds(m)
    BY <1>1, <1>4, <1>6 DEF EditHolds
  <2> QED
    BY <1>4, <2>1, <2>2, <2>3 DEF TablesHold, UpsertHolds, DetachHolds, PublishHolds
<1>10. \A s \in Slots \ {r} : <<"artist", n.artist>> \notin req[s].held
  <2>1. Wanted(r) = {<<"artist", n.artist>>} /\ At(r, "artist")
    BY <1>0, <1>1, WantedLocks DEF UpsertArtist
  <2> QED
    BY <2>1, Granted
<1>11. \A l \in m.held : l \in req[r].held \/ \A s \in Slots \ {r} : l \notin req[s].held
  BY <1>0, <1>4, <1>10
<1>12. req[r].at # "committed"
  BY <1>0, <1>1
<1>13. OrderHolds(m)
  BY <1>1, <1>4, <1>7 DEF OrderHolds, Ended
<1> QED
  BY <1>13, <1>3, <1>4, <1>5, <1>8, <1>9, <1>11, <1>12, PrivateStep

\* What upsertAlbum finds or makes is an album that nobody else has locked.
LEMMA AlbumForUpsert ==
    ASSUME ShelfAssumption, CatalogInv, FreshAlbums # {}, NEW ar, NEW ti
    PROVE  /\ AlbumFor(ar, ti) \in Albums /\ UpsertTarget(AlbumFor(ar, ti), ar, ti)
           /\ \/ AlbumFor(ar, ti) \in AlbumsNamed(ar, ti)
              \/ \A s \in Slots : <<"album", AlbumFor(ar, ti)>> \notin req[s].held
<1> DEFINE S == IF AlbumsNamed(ar, ti) = {} THEN FreshAlbums ELSE AlbumsNamed(ar, ti)
<1>1. S # {}
  OBVIOUS
<1>2. AlbumFor(ar, ti) \in S
  BY <1>1 DEF AlbumFor
<1>3. CASE AlbumsNamed(ar, ti) # {}
  BY <1>2, <1>3 DEF UpsertTarget, AlbumsNamed, CatalogInv, ShelfHolds
<1>4. CASE AlbumsNamed(ar, ti) = {}
  <2>0. PICK a : a = AlbumFor(ar, ti)
    OBVIOUS
  <2>1. a \in Albums \ spent /\ \A s \in Slots : req[s].album # a
    BY <1>2, <1>4, <2>0 DEF FreshAlbums
  <2>2. a \notin DOMAIN albums
    BY <2>1 DEF CatalogInv, ShelfHolds
  <2>3. \A s \in Slots : <<"album", a>> \notin req[s].held
    BY <2>1, <2>2, RequestFacts DEF LocksHold
  <2> QED
    BY <1>4, <2>0, <2>1, <2>3 DEF UpsertTarget
<1> QED
  BY <1>3, <1>4

LEMMA UpsertAlbumHolds ==
    ASSUME ShelfAssumption, CatalogAssumption, CatalogInv, NEW r \in Slots, UpsertAlbum(r)
    PROVE  Private(r) /\ req'[r].at # "committed"
<1>0. PICK n : n = req[r]
  OBVIOUS
<1>1. /\ n.at = "album" /\ n.q.op \in UpsertOps /\ n.q \in Requests
      /\ StageHolds(n) /\ ValuesHold(n) /\ LocksHold(n) /\ ArtistHolds(n) /\ OrderHolds(n)
  BY <1>0, RequestFacts DEF UpsertAlbum, At, StageHolds, TablesHold
<1>2. PICK a : a = AlbumFor(n.artist, n.title)
  OBVIOUS
<1>3. /\ a \in Albums /\ UpsertTarget(a, n.artist, n.title)
      /\ a \in AlbumsNamed(n.artist, n.title) \/ \A s \in Slots : <<"album", a>> \notin req[s].held
  BY <1>2, AlbumForUpsert DEF UpsertAlbum
<1>4. PICK todo : todo = IF n.q.op = "editTrack" THEN <<<<"track", n.q.track>>>> ELSE <<>>
  OBVIOUS
<1>5. todo \in Seq(Locks)
  <2>1. CASE n.q.op = "editTrack"
    <3>1. n.q.track \in Tracks
      BY <1>1, <2>1, FirstStages DEF WellFormed
    <3> QED
      BY <1>4, <2>1, <3>1 DEF Locks
  <2> QED
    BY <1>4, <2>1
<1>6. PICK m : m = [n EXCEPT !.album = a, !.at = "rows", !.held = @ \cup {<<"album", a>>},
                             !.todo = todo]
  OBVIOUS
<1>7. req' = [req EXCEPT ![r] = m] /\ UNCHANGED shelfVars
  BY <1>0, <1>2, <1>4, <1>6 DEF UpsertAlbum, CatalogInv
<1>8. /\ HasFields(Fields, m) /\ m.at = "rows" /\ m.held = n.held \cup {<<"album", a>>}
      /\ m.q = n.q /\ m.owner = n.owner /\ m.album = a /\ m.todo = todo
      /\ m.artist = n.artist /\ m.title = n.title /\ m.vis = n.vis
  BY <1>1, <1>6 DEF StageHolds, HasFields, Fields
<1>9. /\ Naming(n) /\ Naming(m) /\ n.q.op \in NamingOps
      /\ n.q.op \notin {"editAlbum", "deleteAlbum", "setVisibility"}
  BY <1>1, <1>8 DEF Naming, NamingOps, UpsertOps
<1>10. StageHolds(m)
  BY <1>1, <1>8 DEF StageHolds, Active
<1>11. m.held \subseteq Locks
  BY <1>1, <1>3, <1>8 DEF ValuesHold, Locks
<1>12. ValuesHold(m)
  BY <1>1, <1>3, <1>5, <1>8, <1>9, <1>11 DEF ValuesHold, Active
<1>13. TablesHold(m)
  <2>1. LocksHold(m)
    BY <1>1, <1>8 DEF LocksHold
  <2>2. ArtistHolds(m) /\ UpsertHolds(m)
    BY <1>1, <1>3, <1>8, <1>9 DEF ArtistHolds, UpsertHolds
  <2> QED
    BY <1>8, <1>9, <2>1, <2>2 DEF TablesHold, EditHolds, DetachHolds, PublishHolds
<1>14. \A s \in Slots \ {r} : <<"album", a>> \notin req[s].held
  <2>1. Wanted(r) = AlbumLocks(AlbumsNamed(n.artist, n.title)) /\ At(r, "album")
    BY <1>0, <1>1, WantedLocks DEF UpsertAlbum
  <2>2. CASE a \in AlbumsNamed(n.artist, n.title)
    BY <2>1, <2>2, Granted DEF AlbumLocks
  <2> QED
    BY <1>3, <2>2
<1>15. \A l \in m.held : l \in req[r].held \/ \A s \in Slots \ {r} : l \notin req[s].held
  BY <1>0, <1>8, <1>14
<1>16. req[r].at # "committed"
  BY <1>0, <1>1
<1>17. OrderHolds(m)
  <2>1. m.held \cap TrackLocks(Tracks) = {}
    BY <1>1, <1>8 DEF OrderHolds, TrackLocks
  <2>2. CASE n.q.op = "editTrack"
    <3>1. n.q.track \in Tracks
      BY <1>1, <2>2, FirstStages DEF WellFormed
    <3>2. Head(todo) \in TrackLocks(Tracks) /\ Tail(todo) = <<>>
      BY <1>4, <2>2, <3>1 DEF TrackLocks
    <3> QED
      BY <1>8, <2>1, <2>2, <3>2 DEF OrderHolds, Ended
  <2>3. CASE n.q.op # "editTrack"
    <3>1. todo = <<>>
      BY <1>4, <2>3
    <3> QED
      BY <1>8, <3>1 DEF OrderHolds, Ended
  <2> QED
    BY <2>2, <2>3
<1> QED
  BY <1>17, <1>7, <1>8, <1>10, <1>12, <1>13, <1>15, <1>16, PrivateStep

LEMMA UpdateAlbumRowHolds ==
    ASSUME ShelfAssumption, CatalogAssumption, CatalogInv, NEW r \in Slots, UpdateAlbumRow(r)
    PROVE  Private(r) /\ req'[r].at # "committed"
<1>0. PICK n : n = req[r]
  OBVIOUS
<1>1. /\ n.at = "album" /\ n.q.op = "editAlbum" /\ n.q \in Requests
      /\ StageHolds(n) /\ ValuesHold(n) /\ LocksHold(n) /\ ArtistHolds(n) /\ EditHolds(n)
      /\ OrderHolds(n)
  BY <1>0, RequestFacts DEF UpdateAlbumRow, At, StageHolds, TablesHold
<1>2. PICK at : at = IF n.album \in DOMAIN albums THEN "key" ELSE "rows"
  OBVIOUS
<1>3. PICK L : L = AlbumLocks({n.album} \cap DOMAIN albums)
  OBVIOUS
<1>4. PICK m : m = [n EXCEPT !.at = at, !.held = @ \cup L]
  OBVIOUS
<1>5. req' = [req EXCEPT ![r] = m] /\ UNCHANGED shelfVars
  BY <1>0, <1>2, <1>3, <1>4 DEF UpdateAlbumRow, CatalogInv
<1>6. /\ HasFields(Fields, m) /\ m.at = at /\ m.held = n.held \cup L
      /\ m.q = n.q /\ m.owner = n.owner /\ m.album = n.album /\ m.todo = n.todo
      /\ m.artist = n.artist /\ m.title = n.title /\ m.vis = n.vis
  BY <1>1, <1>4 DEF StageHolds, HasFields, Fields
<1>7. Naming(n) /\ Naming(m) /\ n.q.op \in NamingOps /\ n.q.op \notin UpsertOps
  BY <1>1, <1>2, <1>6 DEF Naming, NamingOps, UpsertOps
<1>8. StageHolds(m)
  BY <1>1, <1>2, <1>6 DEF StageHolds, Active
<1>9. n.album \in Albums /\ n.todo = <<>> /\ Range(n.todo) = {}
  BY <1>1, <1>7 DEF ValuesHold, Active, Range
<1>10. L \subseteq Locks
  BY <1>3, <1>9 DEF AlbumLocks, Locks
<1>11. ValuesHold(m)
  BY <1>1, <1>2, <1>6, <1>7, <1>9, <1>10 DEF ValuesHold, Active
<1>12. \A a : <<"album", a>> \in L <=> a = n.album /\ a \in DOMAIN albums
  BY <1>3 DEF AlbumLocks
<1>13. TablesHold(m)
  <2>1. LocksHold(m)
    BY <1>1, <1>6, <1>12 DEF LocksHold
  <2>2. ArtistHolds(m)
    BY <1>1, <1>6 DEF ArtistHolds
  <2>3. <<"album", n.album>> \in m.held <=> n.album \in DOMAIN albums
    BY <1>1, <1>6, <1>12 DEF LocksHold
  <2>4. EditHolds(m)
    BY <1>1, <1>2, <1>6, <1>7, <2>3 DEF EditHolds
  <2> QED
    BY <1>1, <1>2, <1>6, <1>7, <2>1, <2>2, <2>3, <2>4
       DEF TablesHold, UpsertHolds, DetachHolds, PublishHolds
<1>14. \A l \in L : \A s \in Slots \ {r} : l \notin req[s].held
  <2>1. Wanted(r) = L /\ At(r, "album")
    BY <1>0, <1>1, <1>3, <1>7, WantedLocks DEF UpdateAlbumRow
  <2> QED
    BY <2>1, Granted
<1>15. at # "committed"
  BY <1>2
<1>16. OrderHolds(m)
  <2>1. m.held \cap TrackLocks(Tracks) = {}
    BY <1>1, <1>3, <1>6 DEF OrderHolds, TrackLocks, AlbumLocks
  <2> QED
    BY <1>1, <1>2, <1>6, <2>1 DEF OrderHolds, OneTrackOps, Ended
<1> QED
  BY <1>16, <1>0, <1>1, <1>5, <1>6, <1>8, <1>11, <1>13, <1>14, <1>15, PrivateStep

LEMMA HiddenTracks ==
    ASSUME CatalogInv, NEW a
    PROVE  Held(a) \subseteq Tracks /\ Held(a) \subseteq DOMAIN tracks
BY DEF Held, CatalogInv, ShelfHolds

LEMMA CheckAlbumKeyHolds ==
    ASSUME ShelfAssumption, CatalogAssumption, CatalogInv, NEW r \in Slots, CheckAlbumKey(r)
    PROVE  Private(r) /\ req'[r].at # "committed"
<1>0. PICK n : n = req[r]
  OBVIOUS
<1>1. /\ n.at = "key" /\ n.q.op = "editAlbum" /\ n.q \in Requests
      /\ StageHolds(n) /\ ValuesHold(n) /\ LocksHold(n) /\ ArtistHolds(n) /\ EditHolds(n)
  BY <1>0, RequestFacts DEF CheckAlbumKey, At, StageHolds, TablesHold
<1>2. CASE ~ (AlbumsNamed(n.artist, n.title) \subseteq {n.album})
  BY <1>0, <1>1, <1>2, EndHolds DEF CheckAlbumKey, Ended
<1>3. CASE AlbumsNamed(n.artist, n.title) \subseteq {n.album}
  <2>1. PICK hidden : hidden = {t \in Held(n.album) : tracks[t].vis # "public"}
    OBVIOUS
  <2>2. PICK T : T = IF n.vis = "public" THEN hidden ELSE {}
    OBVIOUS
  <2>3. PICK order \in Orders(TrackLocks(T)) :
           req' = [req EXCEPT ![r].at = "rows", ![r].todo = order]
    BY <1>0, <1>3, <2>1, <2>2 DEF CheckAlbumKey
  <2>4. T \subseteq Tracks
    BY <2>1, <2>2, HiddenTracks
  <2>5. order \in Seq(Locks) /\ Range(order) = TrackLocks(T)
        /\ TrackLocks(T) \subseteq TrackLocks(Tracks)
    BY <2>3, <2>4, SomeTrackLocks, OrdersAreSequences
  <2>6. PICK m : m = [n EXCEPT !.at = "rows", !.todo = order]
    OBVIOUS
  <2>7. req' = [req EXCEPT ![r] = m] /\ UNCHANGED shelfVars
    BY <1>0, <2>3, <2>6 DEF CheckAlbumKey, CatalogInv
  <2>8. /\ HasFields(Fields, m) /\ m.at = "rows" /\ m.held = n.held
        /\ m.q = n.q /\ m.owner = n.owner /\ m.album = n.album /\ m.todo = order
        /\ m.artist = n.artist /\ m.title = n.title /\ m.vis = n.vis
    BY <1>1, <2>6 DEF StageHolds, HasFields, Fields
  <2>9. Naming(n) /\ Naming(m) /\ n.q.op \in NamingOps /\ n.q.op \notin UpsertOps
    BY <1>1, <2>8 DEF Naming, NamingOps, UpsertOps
  <2>10. StageHolds(m)
    BY <1>1, <2>8 DEF StageHolds, Active
  <2>11. ValuesHold(m)
    BY <1>1, <2>5, <2>8, <2>9 DEF ValuesHold, Active
  <2>12. TablesHold(m)
    <3>1. LocksHold(m)
      BY <1>1, <2>8 DEF LocksHold
    <3>2. ArtistHolds(m)
      BY <1>1, <2>8 DEF ArtistHolds
    <3>3. EditHolds(m)
      BY <1>1, <1>3, <2>8, <2>9 DEF EditHolds
    <3>4. PublishHolds(m)
      <4> SUFFICES ASSUME m.vis = "public", NEW t \in Held(m.album), tracks[t].vis # "public"
                   PROVE  Pending(m, t)
        BY DEF PublishHolds
      <4>1. t \in T
        BY <2>1, <2>2, <2>8
      <4> QED
        BY <2>5, <2>8, <4>1 DEF Pending, TrackLocks
    <3> QED
      BY <1>1, <2>8, <2>9, <3>1, <3>2, <3>3, <3>4 DEF TablesHold, UpsertHolds, DetachHolds
  <2>13. req[r].at # "committed" /\ \A l \in m.held : l \in req[r].held
    BY <1>0, <1>1, <2>8
  <2>14. OrderHolds(m)
    BY <1>1, <2>8 DEF OrderHolds, OneTrackOps, Ended
  <2> QED
    BY <2>14, <2>7, <2>8, <2>10, <2>11, <2>12, <2>13, PrivateStep, ZenonT(40)
<1> QED
  BY <1>2, <1>3

LEMMA DeleteAlbumRowHolds ==
    ASSUME ShelfAssumption, CatalogAssumption, CatalogInv, NEW r \in Slots, DeleteAlbumRow(r)
    PROVE  Private(r) /\ req'[r].at # "committed"
<1>0. PICK n : n = req[r]
  OBVIOUS
<1>1. /\ n.at = "album" /\ n.q.op = "deleteAlbum" /\ n.q \in Requests
      /\ StageHolds(n) /\ ValuesHold(n) /\ LocksHold(n)
  BY <1>0, RequestFacts DEF DeleteAlbumRow, At, StageHolds, TablesHold
<1>2. PICK L : L = AlbumLocks({n.album} \cap DOMAIN albums)
  OBVIOUS
<1>3. PICK order \in Orders(TrackLocks(Held(n.album))) :
         req' = [req EXCEPT ![r].at = "rows", ![r].todo = order, ![r].held = @ \cup L]
  BY <1>0, <1>2 DEF DeleteAlbumRow
<1>4. order \in Seq(Locks) /\ Range(order) = TrackLocks(Held(n.album))
      /\ TrackLocks(Held(n.album)) \subseteq TrackLocks(Tracks)
  BY <1>3, HiddenTracks, SomeTrackLocks, OrdersAreSequences
<1>5. PICK m : m = [n EXCEPT !.at = "rows", !.todo = order, !.held = @ \cup L]
  OBVIOUS
<1>6. req' = [req EXCEPT ![r] = m] /\ UNCHANGED shelfVars
  BY <1>0, <1>3, <1>5 DEF DeleteAlbumRow, CatalogInv
<1>7. /\ HasFields(Fields, m) /\ m.at = "rows" /\ m.held = n.held \cup L
      /\ m.q = n.q /\ m.owner = n.owner /\ m.album = n.album /\ m.todo = order
  BY <1>1, <1>5 DEF StageHolds, HasFields, Fields
<1>8. ~Naming(m) /\ n.q.op \notin NamingOps \cup UpsertOps
  BY <1>1, <1>7 DEF Naming, NamingOps, UpsertOps
<1>9. StageHolds(m)
  BY <1>1, <1>7 DEF StageHolds, Active
<1>10. L \subseteq Locks
  BY <1>2 DEF AlbumLocks, Locks, CatalogInv, ShelfHolds
<1>11. ValuesHold(m)
  BY <1>1, <1>4, <1>7, <1>8, <1>10 DEF ValuesHold, Active
<1>12. \A a : <<"album", a>> \in L <=> a = n.album /\ a \in DOMAIN albums
  BY <1>2 DEF AlbumLocks
<1>13. TablesHold(m)
  <2>1. LocksHold(m)
    BY <1>1, <1>7, <1>12 DEF LocksHold
  <2>2. DetachHolds(m)
    BY <1>4, <1>7 DEF DetachHolds, Pending, TrackLocks
  <2> QED
    BY <1>1, <1>7, <1>8, <2>1, <2>2
       DEF TablesHold, UpsertHolds, ArtistHolds, EditHolds, PublishHolds
<1>14. \A l \in L : \A s \in Slots \ {r} : l \notin req[s].held
  <2>1. Wanted(r) = L /\ At(r, "album")
    BY <1>0, <1>1, <1>2, <1>8, WantedLocks DEF DeleteAlbumRow
  <2> QED
    BY <2>1, Granted
<1>15. \A l \in m.held : l \in req[r].held \/ \A s \in Slots \ {r} : l \notin req[s].held
  BY <1>0, <1>7, <1>14
<1>16. req[r].at # "committed"
  BY <1>0, <1>1
<1>17. OrderHolds(m)
  BY <1>1, <1>7 DEF OrderHolds, OneTrackOps, Ended
<1> QED
  BY <1>17, <1>6, <1>7, <1>9, <1>11, <1>13, <1>15, <1>16, PrivateStep

\* The two UPDATE statements of a deleted user look for their rows.
LEMMA ScansHold ==
    ASSUME ShelfAssumption, CatalogAssumption, CatalogInv, NEW r \in Slots,
           ScanTracks(r) \/ ScanAlbums(r)
    PROVE  Private(r) /\ req'[r].at # "committed"
<1>0. PICK n : n = req[r]
  OBVIOUS
<1>1. /\ n.at \in {"scan", "owned"} /\ n.q.op = "deleteUser" /\ n.q \in Requests
      /\ StageHolds(n) /\ ValuesHold(n) /\ LocksHold(n)
  BY <1>0, RequestFacts DEF ScanTracks, ScanAlbums, At, StageHolds, TablesHold
<1>2. PICK at \in {"owned", "rows"}, order \in Seq(Locks) :
         req' = [req EXCEPT ![r].at = at, ![r].todo = order]
  <2>1. CASE ScanTracks(r)
    <3>1. PICK order \in Orders(TrackLocks(OwnedBy(req[r].q.user, tracks))) :
             req' = [req EXCEPT ![r].at = "owned", ![r].todo = order]
      BY <2>1 DEF ScanTracks
    <3>2. OwnedBy(req[r].q.user, tracks) \subseteq Tracks
      BY DEF OwnedBy, CatalogInv, ShelfHolds
    <3>3. order \in Seq(Locks)
      BY <3>1, <3>2, SomeTrackLocks, OrdersAreSequences
    <3> QED
      BY <3>1, <3>3
  <2>2. CASE ScanAlbums(r)
    <3>1. PICK order \in Orders(AlbumLocks(OwnedBy(req[r].q.user, albums))) :
             req' = [req EXCEPT ![r].at = "rows", ![r].todo = order]
      BY <2>2 DEF ScanAlbums
    <3>2. OwnedBy(req[r].q.user, albums) \subseteq Albums
      BY DEF OwnedBy, CatalogInv, ShelfHolds
    <3>3. order \in Seq(Locks)
      BY <3>1, <3>2, SomeAlbumLocks, OrdersAreSequences
    <3> QED
      BY <3>1, <3>3
  <2> QED
    BY <2>1, <2>2
<1>3. PICK m : m = [n EXCEPT !.at = at, !.todo = order]
  OBVIOUS
<1>4. req' = [req EXCEPT ![r] = m] /\ UNCHANGED shelfVars
  BY <1>0, <1>2, <1>3 DEF ScanTracks, ScanAlbums, CatalogInv
<1>5. /\ HasFields(Fields, m) /\ m.at = at /\ m.held = n.held
      /\ m.q = n.q /\ m.owner = n.owner /\ m.album = n.album /\ m.todo = order
  BY <1>1, <1>3 DEF StageHolds, HasFields, Fields
<1>6. ~Naming(m) /\ n.q.op \notin NamingOps \cup UpsertOps
  BY <1>1, <1>5 DEF Naming, NamingOps, UpsertOps
<1>7. StageHolds(m)
  BY <1>1, <1>2, <1>5 DEF StageHolds, Active
<1>8. ValuesHold(m)
  BY <1>1, <1>2, <1>5, <1>6 DEF ValuesHold, Active
<1>9. TablesHold(m)
  <2>1. LocksHold(m)
    BY <1>1, <1>5 DEF LocksHold
  <2> QED
    BY <1>1, <1>2, <1>5, <1>6, <2>1
       DEF TablesHold, UpsertHolds, ArtistHolds, EditHolds, DetachHolds, PublishHolds
<1>10. req[r].at # "committed" /\ m.at # "committed" /\ \A l \in m.held : l \in req[r].held
  BY <1>0, <1>1, <1>2, <1>5
<1>11. OrderHolds(m)
  BY <1>1, <1>2, <1>5 DEF OrderHolds, OneTrackOps, Ended
<1> QED
  BY <1>11, <1>4, <1>7, <1>8, <1>9, <1>10, PrivateStep

LEMMA LockRowHolds ==
    ASSUME ShelfAssumption, CatalogAssumption, CatalogInv, NEW r \in Slots, LockRow(r)
    PROVE  Private(r) /\ req'[r].at # "committed"
<1>0. PICK n : n = req[r]
  OBVIOUS
<1>1. /\ n.at \in {"owned", "rows"} /\ n.q \in Requests /\ n.todo # <<>> /\ TablesHold(n)
      /\ StageHolds(n) /\ ValuesHold(n)
  BY <1>0, RequestFacts DEF LockRow, At, StageHolds
<1>a. OrderHolds(n)
  BY <1>0, RequestFacts
<1>2. PICK L : L = {Head(n.todo)} \cap (TrackLocks(DOMAIN tracks) \cup AlbumLocks(DOMAIN albums))
  OBVIOUS
<1>3. /\ Head(n.todo) \in Locks /\ Tail(n.todo) \in Seq(Locks)
      /\ Range(n.todo) = {Head(n.todo)} \cup Range(Tail(n.todo))
  BY <1>1, TailHolds DEF ValuesHold
<1>4. PICK m : m = [n EXCEPT !.todo = Tail(@), !.held = @ \cup L]
  OBVIOUS
<1>5. req' = [req EXCEPT ![r] = m] /\ UNCHANGED shelfVars
  BY <1>0, <1>2, <1>4 DEF LockRow, CatalogInv
<1>6. /\ HasFields(Fields, m) /\ m.at = n.at /\ m.held = n.held \cup L
      /\ m.q = n.q /\ m.owner = n.owner /\ m.album = n.album /\ m.todo = Tail(n.todo)
      /\ m.artist = n.artist /\ m.title = n.title /\ m.vis = n.vis
  BY <1>1, <1>4 DEF StageHolds, HasFields, Fields
<1>7. Naming(n) <=> Naming(m)
  BY <1>6 DEF Naming
<1>8. StageHolds(m)
  BY <1>1, <1>6 DEF StageHolds
<1>9. ValuesHold(m)
  BY <1>1, <1>2, <1>3, <1>6, <1>7 DEF ValuesHold, Active
<1>10. TablesHold(m)
  <2>1. LocksHold(m)
    <3>1. \A a : <<"album", a>> \in L => a \in DOMAIN albums
      BY <1>2 DEF TrackLocks, AlbumLocks
    <3> QED
      BY <1>1, <1>6, <3>1 DEF TablesHold, LocksHold
  <2>2. ArtistHolds(m) /\ UpsertHolds(m)
    BY <1>1, <1>6 DEF TablesHold, ArtistHolds, UpsertHolds
  <2>3. ASSUME n.at = "rows", n.q.op \in {"editAlbum", "deleteAlbum"}
        PROVE  <<"album", n.album>> \in m.held <=> <<"album", n.album>> \in n.held
    <3>1. Head(n.todo) \in TrackLocks(Tracks)
      BY <1>1, <1>3, <2>3 DEF ValuesHold
    <3>2. Head(n.todo) # <<"album", n.album>>
      BY <3>1 DEF TrackLocks
    <3> QED
      BY <1>2, <1>6, <3>2
  <2>4. EditHolds(m)
    BY <1>1, <1>6, <1>7, <2>3 DEF TablesHold, EditHolds
  <2>5. ASSUME NEW t \in DOMAIN tracks, Pending(n, t) PROVE Pending(m, t)
    BY <1>2, <1>3, <1>6, <2>5 DEF Pending, TrackLocks
  <2>6. DetachHolds(m)
    BY <1>1, <1>6, <2>3, <2>5, HiddenTracks DEF TablesHold, DetachHolds
  <2>7. PublishHolds(m)
    BY <1>1, <1>6, <2>3, <2>5, HiddenTracks DEF TablesHold, PublishHolds
  <2> QED
    BY <2>1, <2>2, <2>4, <2>6, <2>7 DEF TablesHold
<1>11. \A l \in L : \A s \in Slots \ {r} : l \notin req[s].held
  <2>1. Wanted(r) = {Head(n.todo)} /\ (At(r, "owned") \/ At(r, "rows"))
    BY <1>0, <1>1, WantedLocks DEF LockRow
  <2> QED
    BY <1>2, <2>1, Granted
<1>12. \A l \in m.held : l \in req[r].held \/ \A s \in Slots \ {r} : l \notin req[s].held
  BY <1>0, <1>6, <1>11
<1>13. req[r].at # "committed" /\ m.at # "committed"
  BY <1>0, <1>1, <1>6
<1>14. OrderHolds(m)
  BY <1>a, <1>1, <1>6 DEF OrderHolds, Ended
<1> QED
  BY <1>14, <1>5, <1>8, <1>9, <1>10, <1>12, <1>13, PrivateStep

-----------------------------------------------------------------------------
(* The ends of a request: each is a commit of Shelf or changes nothing.    *)

Mapped == ShelfNext \/ UNCHANGED shelfVars

\* The commit that request r makes, from the values it has in memory.
Done(r) ==
    LET n == req[r] IN
    \/ /\ n.q.op \in {"editAlbum", "deleteAlbum"} /\ n.album \notin Locked(r, "album", albums)
       /\ UNCHANGED shelfVars
    \/ /\ n.q.op \in {"setVisibility", "deleteTrack"}
       /\ n.q.track \notin Locked(r, "track", tracks)
       /\ UNCHANGED shelfVars
    \/ /\ n.q.op = "import"
       /\ n.album \in Albums
       /\ \E t \in Tracks : ImportTrack(n.owner, t, n.album, n.artist, n.title, n.vis)
    \/ /\ n.q.op = "createAlbum"
       /\ CreateAlbum(n.owner, n.album, n.artist, n.title, AlbumVisFor(n.vis))
    \/ /\ n.q.op = "editTrack"
       /\ IF n.q.track \in Locked(r, "track", tracks)
          THEN EditTrack(n.q.track, n.album, n.owner, n.artist, n.title, n.vis)
          ELSE CreateAlbum(n.owner, n.album, n.artist, n.title, AlbumVisFor(n.vis))
    \/ /\ n.q.op = "editAlbum" /\ n.album \in Locked(r, "album", albums)
       /\ \E T \in SUBSET Held(n.album) : EditAlbum(n.album, n.artist, n.title, n.vis, T)
    \/ n.q.op = "deleteAlbum" /\ DeleteAlbum(n.album)
    \/ n.q.op = "setVisibility" /\ SetVisibility(n.q.track, n.vis)
    \/ n.q.op = "deleteTrack" /\ DeleteTrack(n.q.track)
    \/ /\ n.q.op = "deleteUser"
       /\ \E T \in SUBSET DOMAIN tracks, A \in SUBSET DOMAIN albums : Reassign(n.q.user, T, A)

LEMMA SameTables ==
    ASSUME CatalogInv
    PROVE  /\ tracks = [t \in DOMAIN tracks |-> tracks[t]]
           /\ albums = [a \in DOMAIN albums |-> albums[a]]
BY DEF CatalogInv, ShelfHolds

\* What request r knows and holds when its upsert commits.
LEMMA UpsertFacts ==
    ASSUME ShelfAssumption, CatalogInv, NEW r \in Slots, NEW n, n = req[r],
           n.at = "rows", n.q.op \in UpsertOps
    PROVE  /\ <<"album", n.album>> \in n.held /\ <<"artist", n.artist>> \in n.held
           /\ UpsertTarget(n.album, n.artist, n.title) /\ n.album \in Albums
           /\ n.owner \in Owners /\ n.artist \in Artists /\ n.title \in Titles
           /\ n.vis \in TrackVis /\ AlbumVisFor(n.vis) \in AlbumVis
<1>1. StageHolds(n) /\ ValuesHold(n) /\ TablesHold(n)
  BY RequestFacts
<1>2. Naming(n) /\ n.q.op \in NamingOps
  BY DEF Naming, NamingOps
<1>3. /\ <<"album", n.album>> \in n.held /\ <<"artist", n.artist>> \in n.held
      /\ UpsertTarget(n.album, n.artist, n.title)
  BY <1>1, <1>2 DEF TablesHold, UpsertHolds, ArtistHolds
<1>4. n.album \in Albums
  BY <1>3 DEF UpsertTarget, AlbumsNamed, CatalogInv, ShelfHolds
<1>5. AlbumVisFor(n.vis) \in AlbumVis
  BY DEF AlbumVisFor, AlbumVis
<1> QED
  BY <1>1, <1>2, <1>3, <1>4, <1>5 DEF ValuesHold

LEMMA UpsertChanges ==
    ASSUME CatalogInv, NEW b, NEW u \in Owners, NEW ar \in Artists, NEW ti \in Titles,
           NEW v \in AlbumVis, UpsertTarget(b, ar, ti), albums' = Upserted(b, u, ar, ti, v)
    PROVE  /\ DOMAIN albums' = DOMAIN albums \cup {b} /\ albums'[b].artist = ar
           /\ \A a \in DOMAIN albums \ {b} : albums'[a] = albums[a]
<1>1. ShelfHolds
  BY DEF CatalogInv
<1>2. DOMAIN albums' = DOMAIN albums \cup {b}
  BY <1>1, UpsertedAlbums
<1>3. albums'[b].artist = ar
  <2>1. CASE b \in DOMAIN albums
    <3>1. albums[b] \in AlbumRows /\ albums[b].artist = ar
      BY <1>1, <2>1 DEF UpsertTarget, AlbumsNamed, ShelfHolds
    <3>2. albums'[b] = [albums[b] EXCEPT !.vis = MergedVis(albums[b].vis, v)]
      BY <2>1 DEF Upserted
    <3> QED
      BY <3>1, <3>2 DEF AlbumRows
  <2>2. CASE b \notin DOMAIN albums
    <3>1. albums'[b] = [owner |-> u, vis |-> v, artist |-> ar, title |-> ti]
      BY <2>2 DEF Upserted
    <3> QED
      BY <3>1
  <2> QED
    BY <2>1, <2>2
<1>4. \A a \in DOMAIN albums \ {b} : albums'[a] = albums[a]
  BY <1>1, UpsertedAlbums
<1> QED
  BY <1>2, <1>3, <1>4

\* An upsert touches one album, and new rows carry its locked names.
LEMMA UpsertIsolated ==
    ASSUME ShelfAssumption, CatalogInv, NEW r \in Slots, NEW n, n = req[r],
           n.at = "rows", n.q.op \in UpsertOps,
           albums' = Upserted(n.album, n.owner, n.artist, n.title, AlbumVisFor(n.vis)),
           spent \subseteq spent', \A a \in (spent' \ spent) \cap Albums : a = n.album,
           \A t \in DOMAIN tracks' :
              \/ tracks'[t].album = n.album
              \/ /\ t \in DOMAIN tracks /\ tracks'[t].album = tracks[t].album
                 /\ tracks'[t].vis = tracks[t].vis
    PROVE  Isolated(r)
<1>0. /\ n.owner \in Owners /\ n.artist \in Artists /\ n.title \in Titles
      /\ AlbumVisFor(n.vis) \in AlbumVis /\ UpsertTarget(n.album, n.artist, n.title)
  BY UpsertFacts
<1>1. /\ DOMAIN albums' = DOMAIN albums \cup {n.album} /\ albums'[n.album].artist = n.artist
      /\ \A a \in DOMAIN albums \ {n.album} : albums'[a] = albums[a]
  BY <1>0, UpsertChanges
<1>2. \A a \in DOMAIN albums' : a # n.album => a \in DOMAIN albums /\ SameName(a)
  BY <1>1 DEF SameName
<1>3. <<"album", n.album>> \in req[r].held /\ <<"artist", n.artist>> \in req[r].held
  BY UpsertFacts
<1>4. \A a \in DOMAIN albums' \ DOMAIN albums : a \notin spent
  BY <1>0, <1>1 DEF UpsertTarget, AlbumsNamed
<1>6. \A a \in DOMAIN albums' :
         \/ a \in DOMAIN albums /\ SameName(a)
         \/ <<"album", a>> \in req[r].held /\ <<"artist", albums'[a].artist>> \in req[r].held
  BY <1>1, <1>2, <1>3
<1>7. \A a \in DOMAIN albums :
         <<"album", a>> \in req[r].held \/ (a \in DOMAIN albums' /\ SameName(a))
  BY <1>1, <1>2, <1>3
<1> QED
  BY <1>3, <1>4, <1>6, <1>7 DEF Isolated

LEMMA ImportMaps ==
    ASSUME ShelfAssumption, CatalogInv, NEW r \in Slots, CommitImport(r)
    PROVE  Isolated(r) /\ Mapped /\ Done(r)
<1>0. PICK n : n = req[r]
  OBVIOUS
<1>1. n.at = "rows" /\ n.q.op \in UpsertOps
  BY <1>0 DEF CommitImport, Finish, At, UpsertOps
<1>2. PICK t \in Tracks \ spent :
         /\ tracks' = [x \in DOMAIN tracks \cup {t} |->
               IF x = t THEN [owner |-> n.owner, vis |-> n.vis,
                              artist |-> n.artist, album |-> n.album]
               ELSE tracks[x]]
         /\ spent' = spent \cup {t, n.album}
  BY <1>0 DEF CommitImport
<1>3. albums' = Upserted(n.album, n.owner, n.artist, n.title, AlbumVisFor(n.vis))
  BY <1>0 DEF CommitImport, WithUpsert
<1>4. Isolated(r)
  <2>1. t \notin Albums
    BY DEF ShelfAssumption
  <2>2. spent \subseteq spent' /\ \A a \in (spent' \ spent) \cap Albums : a = n.album
    BY <1>2, <2>1
  <2>3. \A x \in DOMAIN tracks' : x = t \/ (x \in DOMAIN tracks /\ tracks'[x] = tracks[x])
    BY <1>2
  <2>4. tracks'[t].album = n.album
    BY <1>2
  <2> QED
    BY <1>0, <1>1, <1>3, <2>2, <2>3, <2>4, UpsertIsolated
<1>5. ImportTrack(n.owner, t, n.album, n.artist, n.title, n.vis)
  BY <1>0, <1>1, <1>2, <1>3, UpsertFacts DEF ImportTrack
<1>6. ShelfNext
  BY <1>0, <1>1, <1>5, UpsertFacts DEF ShelfNext
<1> QED
  BY <1>0, <1>1, <1>4, <1>5, <1>6, UpsertFacts DEF Mapped, Done, CommitImport, Finish

LEMMA CreateMaps ==
    ASSUME ShelfAssumption, CatalogInv, NEW r \in Slots, NEW n, n = req[r],
           n.at = "rows", n.q.op \in UpsertOps,
           albums' = Upserted(n.album, n.owner, n.artist, n.title, AlbumVisFor(n.vis)),
           spent' = spent \cup {n.album}, tracks' = tracks
    PROVE  /\ Isolated(r) /\ Mapped
           /\ CreateAlbum(n.owner, n.album, n.artist, n.title, AlbumVisFor(n.vis))
<1>1. Isolated(r)
  BY UpsertIsolated
<1>2. CreateAlbum(n.owner, n.album, n.artist, n.title, AlbumVisFor(n.vis))
  BY UpsertFacts DEF CreateAlbum
<1>3. ShelfNext
  BY <1>2, UpsertFacts DEF ShelfNext
<1> QED
  BY <1>1, <1>2, <1>3 DEF Mapped

LEMMA CreateAlbumMaps ==
    ASSUME ShelfAssumption, CatalogInv, NEW r \in Slots, CommitCreateAlbum(r)
    PROVE  Isolated(r) /\ Mapped /\ Done(r)
BY CreateMaps DEF CommitCreateAlbum, WithUpsert, Finish, At, UpsertOps, Done

LEMMA EditTrackMaps ==
    ASSUME ShelfAssumption, CatalogInv, NEW r \in Slots, CommitEditTrack(r)
    PROVE  Isolated(r) /\ Mapped /\ Done(r)
<1>0. PICK n : n = req[r]
  OBVIOUS
<1>1. n.at = "rows" /\ n.q.op \in UpsertOps /\ n.q.op = "editTrack"
  BY <1>0 DEF CommitEditTrack, Finish, At, UpsertOps
<1>2. PICK t : t = n.q.track
  OBVIOUS
<1>3. /\ albums' = Upserted(n.album, n.owner, n.artist, n.title, AlbumVisFor(n.vis))
      /\ spent' = spent \cup {n.album}
      /\ tracks' = [x \in DOMAIN tracks |->
            IF x \in {t} \cap Locked(r, "track", tracks)
            THEN [tracks[x] EXCEPT !.vis = n.vis, !.artist = n.artist, !.album = n.album]
            ELSE tracks[x]]
  BY <1>0, <1>2 DEF CommitEditTrack, WithUpsert
<1>4. CASE t \notin Locked(r, "track", tracks)
  <2>1. tracks' = tracks
    BY <1>3, <1>4, SameTables
  <2> QED
    BY <1>0, <1>1, <1>2, <1>3, <1>4, <2>1, CreateMaps DEF Done
<1>5. CASE t \in Locked(r, "track", tracks)
  <2>1. t \in DOMAIN tracks /\ tracks[t] \in TrackRows /\ t \in Tracks
    BY <1>5 DEF Locked, CatalogInv, ShelfHolds
  <2>2. PICK row : row = [tracks[t] EXCEPT !.vis = n.vis, !.artist = n.artist, !.album = n.album]
    OBVIOUS
  <2>3. /\ DOMAIN tracks' = DOMAIN tracks /\ tracks'[t] = row
        /\ \A x \in DOMAIN tracks \ {t} : tracks'[x] = tracks[x]
    BY <1>3, <1>5, <2>1, <2>2
  <2>4. row.album = n.album
    BY <2>1, <2>2 DEF TrackRows
  <2>5. Isolated(r)
    <3>1. spent \subseteq spent' /\ \A a \in (spent' \ spent) \cap Albums : a = n.album
      BY <1>3
    <3>2. \A x \in DOMAIN tracks' :
             \/ tracks'[x].album = n.album
             \/ /\ x \in DOMAIN tracks /\ tracks'[x].album = tracks[x].album
                /\ tracks'[x].vis = tracks[x].vis
      BY <2>3, <2>4
    <3>3. albums' = Upserted(n.album, n.owner, n.artist, n.title, AlbumVisFor(n.vis))
      BY <1>3
    <3> QED
      BY <1>0, <1>1, <3>1, <3>2, <3>3, UpsertIsolated
  <2>6. tracks' = [tracks EXCEPT ![t] = row]
    BY <1>3, <2>1, <2>3, SameTables, ZenonT(40)
  <2>7. [tracks EXCEPT ![t] = row] =
           [tracks EXCEPT ![t].vis = n.vis, ![t].artist = n.artist, ![t].album = n.album]
    BY <2>1, <2>2, SameTables
  <2>8. EditTrack(t, n.album, n.owner, n.artist, n.title, n.vis)
    BY <1>0, <1>1, <1>3, <2>1, <2>6, <2>7, UpsertFacts DEF EditTrack
  <2>9. ShelfNext
    BY <1>0, <1>1, <2>1, <2>8, UpsertFacts DEF ShelfNext
  <2> QED
    BY <1>0, <1>1, <1>2, <1>5, <2>5, <2>8, <2>9 DEF Mapped, Done
<1> QED
  BY <1>4, <1>5

LEMMA EditAlbumMaps ==
    ASSUME ShelfAssumption, CatalogInv, NEW r \in Slots, CommitEditAlbum(r)
    PROVE  Isolated(r) /\ Mapped /\ Done(r)
<1>0. PICK n : n = req[r]
  OBVIOUS
<1>1. n.at = "rows" /\ n.q.op = "editAlbum"
  BY <1>0 DEF CommitEditAlbum, Finish, At
<1>2. StageHolds(n) /\ ValuesHold(n) /\ TablesHold(n)
  BY <1>0, RequestFacts
<1>3. Naming(n) /\ n.q.op \in NamingOps /\ n.q.op \notin UpsertOps
  BY <1>1 DEF Naming, NamingOps, UpsertOps
<1>4. /\ n.album \in Albums /\ n.artist \in Artists /\ n.title \in Titles /\ n.vis \in AlbumVis
      /\ <<"artist", n.artist>> \in n.held
  BY <1>1, <1>2, <1>3 DEF ValuesHold, TablesHold, ArtistHolds
<1>5. PICK edited : edited = {n.album} \cap Locked(r, "album", albums)
  OBVIOUS
<1>6. PICK T : T = {t \in Locked(r, "track", tracks) :
                       n.vis = "public" /\ tracks[t].album \in edited}
  OBVIOUS
<1>7. /\ albums' = [a \in DOMAIN albums |->
            IF a \in edited
            THEN [albums[a] EXCEPT !.artist = n.artist, !.title = n.title, !.vis = n.vis]
            ELSE albums[a]]
      /\ tracks' = [t \in DOMAIN tracks |->
            IF t \in T THEN [tracks[t] EXCEPT !.vis = "public"] ELSE tracks[t]]
      /\ spent' = spent
  BY <1>0, <1>5, <1>6 DEF CommitEditAlbum
<1>8. CASE <<"album", n.album>> \notin n.held
  <2>1. edited = {} /\ T = {}
    BY <1>0, <1>5, <1>6, <1>8 DEF Locked
  <2>2. albums' = albums /\ tracks' = tracks
    BY <1>7, <2>1, SameTables
  <2> QED
    BY <1>0, <1>1, <1>7, <1>8, <2>2, NothingMoves DEF Mapped, shelfVars, Done, Locked
<1>9. CASE <<"album", n.album>> \in n.held
  <2>1. n.album \in DOMAIN albums /\ albums[n.album] \in AlbumRows
    BY <1>2, <1>3, <1>9 DEF TablesHold, LocksHold, CatalogInv, ShelfHolds
  <2>2. edited = {n.album}
    BY <1>0, <1>5, <1>9, <2>1 DEF Locked
  <2>3. AlbumsNamed(n.artist, n.title) \subseteq {n.album}
    BY <1>1, <1>2, <1>9 DEF TablesHold, EditHolds
  <2>4. T \subseteq Held(n.album) /\ (n.vis # "public" => T = {}) /\ T \subseteq DOMAIN tracks
    BY <1>6, <2>2 DEF Held, Locked
  <2>5. PICK row : row = [albums[n.album] EXCEPT !.artist = n.artist, !.title = n.title,
                                                 !.vis = n.vis]
    OBVIOUS
  <2>6. /\ DOMAIN albums' = DOMAIN albums /\ albums'[n.album] = row
        /\ \A a \in DOMAIN albums \ {n.album} : albums'[a] = albums[a]
    BY <1>7, <2>1, <2>2, <2>5
  <2>7. row.artist = n.artist
    BY <2>1, <2>5 DEF AlbumRows
  <2>8. albums' = [albums EXCEPT ![n.album] = row]
    BY <1>7, <2>1, <2>6, SameTables, ZenonT(40)
  <2>9. [albums EXCEPT ![n.album] = row] =
           [albums EXCEPT ![n.album].artist = n.artist, ![n.album].title = n.title,
                          ![n.album].vis = n.vis]
    BY <2>1, <2>5, SameTables
  <2>10. EditAlbum(n.album, n.artist, n.title, n.vis, T)
    BY <1>7, <2>1, <2>3, <2>4, <2>8, <2>9 DEF EditAlbum
  <2>11. ShelfNext
    BY <1>4, <2>4, <2>10 DEF ShelfNext
  <2>12. ASSUME NEW t \in DOMAIN tracks'
         PROVE  /\ t \in DOMAIN tracks /\ tracks'[t].album = tracks[t].album
                /\ tracks[t].vis # "public" \/ tracks'[t].vis = "public"
    <3>1. t \in DOMAIN tracks /\ tracks[t] \in TrackRows
      BY <1>7 DEF CatalogInv, ShelfHolds
    <3>2. tracks'[t] = IF t \in T THEN [tracks[t] EXCEPT !.vis = "public"] ELSE tracks[t]
      BY <1>7, <3>1
    <3> QED
      BY <3>1, <3>2 DEF TrackRows
  <2>13. Isolated(r)
    <3>1. \A a \in DOMAIN albums : <<"album", a>> \in req[r].held
                                  \/ (a \in DOMAIN albums' /\ SameName(a))
      BY <1>0, <1>9, <2>6 DEF SameName
    <3>2. \A a \in DOMAIN albums' :
             \/ a \in DOMAIN albums /\ SameName(a)
             \/ <<"album", a>> \in req[r].held /\ <<"artist", albums'[a].artist>> \in req[r].held
      BY <1>0, <1>4, <1>9, <2>6, <2>7 DEF SameName
    <3> QED
      BY <1>7, <2>6, <2>12, <3>1, <3>2 DEF Isolated
  <2>14. n.album \in Locked(r, "album", albums)
    BY <1>5, <2>2
  <2> QED
    BY <1>0, <1>1, <2>4, <2>10, <2>11, <2>13, <2>14 DEF Mapped, Done
<1> QED
  BY <1>8, <1>9

LEMMA DeleteAlbumMaps ==
    ASSUME ShelfAssumption, CatalogInv, NEW r \in Slots, CommitDeleteAlbum(r)
    PROVE  Isolated(r) /\ Mapped /\ Done(r)
<1>0. PICK n : n = req[r]
  OBVIOUS
<1>1. n.at = "rows" /\ n.q.op = "deleteAlbum" /\ n.todo = <<>>
  BY <1>0 DEF CommitDeleteAlbum, Finish, At
<1>2. StageHolds(n) /\ ValuesHold(n) /\ TablesHold(n)
  BY <1>0, RequestFacts
<1>3. PICK gone : gone = {n.album} \cap Locked(r, "album", albums)
  OBVIOUS
<1>4. PICK T : T = {t \in Locked(r, "track", tracks) : tracks[t].album \in gone}
  OBVIOUS
<1>5. /\ albums' = [x \in DOMAIN albums \ gone |-> albums[x]]
      /\ tracks' = [t \in DOMAIN tracks |->
            IF t \in T THEN [tracks[t] EXCEPT !.album = None] ELSE tracks[t]]
      /\ spent' = spent
  BY <1>0, <1>3, <1>4 DEF CommitDeleteAlbum
<1>6. CASE <<"album", n.album>> \notin n.held
  <2>1. gone = {} /\ T = {}
    BY <1>0, <1>3, <1>4, <1>6 DEF Locked
  <2>2. albums' = albums /\ tracks' = tracks
    BY <1>5, <2>1, SameTables
  <2> QED
    BY <1>0, <1>1, <1>5, <1>6, <2>2, NothingMoves DEF Mapped, shelfVars, Done, Locked
<1>7. CASE <<"album", n.album>> \in n.held
  <2>1. n.q.op \notin UpsertOps /\ Range(n.todo) = {}
    BY <1>1 DEF UpsertOps, Range
  <2>2. n.album \in DOMAIN albums /\ n.album \in Albums
    BY <1>2, <1>7, <2>1 DEF TablesHold, LocksHold, CatalogInv, ShelfHolds
  <2>3. gone = {n.album}
    BY <1>0, <1>3, <1>7, <2>2 DEF Locked
  <2>4. \A t \in Held(n.album) : <<"track", t>> \in n.held
    BY <1>1, <1>2, <1>7, <2>1 DEF TablesHold, DetachHolds, Pending
  <2>5. T = Held(n.album)
    BY <1>0, <1>4, <2>3, <2>4 DEF Held, Locked
  <2>6. DeleteAlbum(n.album)
    BY <1>5, <2>2, <2>3, <2>5 DEF DeleteAlbum
  <2>7. ShelfNext
    BY <2>2, <2>6 DEF ShelfNext
  <2>8. ASSUME NEW t \in DOMAIN tracks'
        PROVE  \/ tracks'[t].album = None
               \/ t \in DOMAIN tracks /\ tracks'[t] = tracks[t]
    <3>1. t \in DOMAIN tracks /\ tracks[t] \in TrackRows
      BY <1>5 DEF CatalogInv, ShelfHolds
    <3>2. tracks'[t] = IF t \in T THEN [tracks[t] EXCEPT !.album = None] ELSE tracks[t]
      BY <1>5, <3>1
    <3> QED
      BY <3>1, <3>2 DEF TrackRows
  <2>9. \A a \in DOMAIN albums : a = n.album \/ (a \in DOMAIN albums' /\ albums'[a] = albums[a])
    BY <1>5, <2>3
  <2>10. DOMAIN albums' \subseteq DOMAIN albums /\ n.album \notin DOMAIN albums'
    BY <1>5, <2>3
  <2>11. Isolated(r)
    BY <1>0, <1>5, <1>7, <2>8, <2>9, <2>10 DEF Isolated, SameName
  <2> QED
    BY <1>0, <1>1, <2>6, <2>7, <2>11 DEF Mapped, Done
<1> QED
  BY <1>6, <1>7

LEMMA DeleteUserMaps ==
    ASSUME ShelfAssumption, CatalogAssumption, CatalogInv, NEW r \in Slots, CommitDeleteUser(r)
    PROVE  Isolated(r) /\ Mapped /\ Done(r)
<1>1. req[r].at = "rows" /\ req[r].q.op = "deleteUser" /\ req[r].q \in Requests
  BY RequestFacts DEF CommitDeleteUser, Finish, At, StageHolds
<1>2. PICK u : u = req[r].q.user
  OBVIOUS
<1>3. u \in Users
  BY <1>1, <1>2, FirstStages DEF WellFormed
<1>4. PICK T : T = Locked(r, "track", tracks) \cap OwnedBy(u, tracks)
  OBVIOUS
<1>5. PICK A : A = Locked(r, "album", albums) \cap OwnedBy(u, albums)
  OBVIOUS
<1>6. /\ tracks' = [t \in DOMAIN tracks |->
            IF t \in T THEN [tracks[t] EXCEPT !.owner = GhostOf(u)] ELSE tracks[t]]
      /\ albums' = [a \in DOMAIN albums |->
            IF a \in A THEN [albums[a] EXCEPT !.owner = GhostOf(u)] ELSE albums[a]]
      /\ spent' = spent
  BY <1>2, <1>4, <1>5 DEF CommitDeleteUser
<1>7. /\ \A t \in T : t \in DOMAIN tracks /\ tracks[t].owner = u
      /\ \A a \in A : a \in DOMAIN albums /\ albums[a].owner = u
  BY <1>4, <1>5 DEF OwnedBy
<1>8. Reassign(u, T, A)
  BY <1>6, <1>7 DEF Reassign
<1>9. ShelfNext
  BY <1>3, <1>7, <1>8 DEF ShelfNext
<1>10. ASSUME NEW t \in DOMAIN tracks'
       PROVE  /\ t \in DOMAIN tracks /\ tracks'[t].album = tracks[t].album
              /\ tracks'[t].vis = tracks[t].vis
  <2>1. t \in DOMAIN tracks /\ tracks[t] \in TrackRows
    BY <1>6 DEF CatalogInv, ShelfHolds
  <2>2. tracks'[t] = IF t \in T THEN [tracks[t] EXCEPT !.owner = GhostOf(u)] ELSE tracks[t]
    BY <1>6, <2>1
  <2> QED
    BY <2>1, <2>2 DEF TrackRows
<1>11. ASSUME NEW a \in DOMAIN albums PROVE a \in DOMAIN albums' /\ SameName(a)
  <2>1. a \in DOMAIN albums' /\ albums[a] \in AlbumRows
    BY <1>6 DEF CatalogInv, ShelfHolds
  <2>2. albums'[a] = IF a \in A THEN [albums[a] EXCEPT !.owner = GhostOf(u)] ELSE albums[a]
    BY <1>6
  <2> QED
    BY <2>1, <2>2 DEF AlbumRows, SameName
<1>12. DOMAIN albums' = DOMAIN albums
  BY <1>6
<1>13. Isolated(r)
  BY <1>6, <1>10, <1>11, <1>12 DEF Isolated
<1>14. T \in SUBSET DOMAIN tracks /\ A \in SUBSET DOMAIN albums
  BY <1>7
<1> QED
  BY <1>1, <1>2, <1>8, <1>9, <1>13, <1>14 DEF Mapped, Done

LEMMA SetVisibilityMaps ==
    ASSUME ShelfAssumption, CatalogInv, NEW r \in Slots, CommitSetVisibility(r),
           req'[r].at = "committed", req'[r].q = req[r].q
    PROVE  Isolated(r) /\ Mapped /\ Done(r)
<1>1. req[r].at = "rows" /\ req[r].q.op = "setVisibility" /\ req[r].vis \in TrackVis
  BY RequestFacts DEF CommitSetVisibility, Finish, At, ValuesHold
<1>2. PICK t : t = req[r].q.track
  OBVIOUS
<1>3. /\ tracks' = [x \in DOMAIN tracks |->
            IF x \in {t} \cap Locked(r, "track", tracks)
            THEN [tracks[x] EXCEPT !.vis = req[r].vis] ELSE tracks[x]]
      /\ albums' = albums /\ spent' = spent
  BY <1>2 DEF CommitSetVisibility
<1>4. CASE t \notin Locked(r, "track", tracks)
  <2>1. tracks' = tracks
    BY <1>3, <1>4, SameTables
  <2> QED
    BY <1>1, <1>2, <1>3, <1>4, <2>1, NothingMoves DEF Mapped, shelfVars, Done
<1>5. CASE t \in Locked(r, "track", tracks)
  <2>1. t \in DOMAIN tracks /\ tracks[t] \in TrackRows /\ t \in Tracks
    BY <1>5 DEF Locked, CatalogInv, ShelfHolds
  <2>2. /\ DOMAIN tracks' = DOMAIN tracks /\ tracks'[t] = [tracks[t] EXCEPT !.vis = req[r].vis]
        /\ \A x \in DOMAIN tracks \ {t} : tracks'[x] = tracks[x]
    BY <1>3, <1>5, <2>1
  <2>3. tracks' = [tracks EXCEPT ![t].vis = req[r].vis]
    BY <1>3, <2>1, <2>2, SameTables
  <2>4. SetVisibility(t, req[r].vis)
    BY <1>3, <2>1, <2>3 DEF SetVisibility
  <2>5. ShelfNext
    BY <1>1, <2>1, <2>4 DEF ShelfNext
  <2>6. tracks'[t].album = tracks[t].album
    BY <2>1, <2>2 DEF TrackRows
  <2>7. Isolated(r)
    BY <1>1, <1>2, <1>3, <2>1, <2>2, <2>6 DEF Isolated, SameName
  <2> QED
    BY <1>1, <1>2, <2>4, <2>5, <2>7 DEF Mapped, Done
<1> QED
  BY <1>4, <1>5

LEMMA DeleteTrackMaps ==
    ASSUME ShelfAssumption, CatalogInv, NEW r \in Slots, CommitDeleteTrack(r)
    PROVE  Isolated(r) /\ Mapped /\ Done(r)
<1>0. req[r].q.op = "deleteTrack"
  BY DEF CommitDeleteTrack, Finish
<1>1. PICK t : t = req[r].q.track
  OBVIOUS
<1>2. /\ tracks' = [x \in DOMAIN tracks \ ({t} \cap Locked(r, "track", tracks)) |-> tracks[x]]
      /\ albums' = albums /\ spent' = spent
  BY <1>1 DEF CommitDeleteTrack
<1>3. Isolated(r)
  BY <1>2 DEF Isolated, SameName
<1>4. CASE t \notin Locked(r, "track", tracks)
  <2>1. DOMAIN tracks \ ({t} \cap Locked(r, "track", tracks)) = DOMAIN tracks
    BY <1>4
  <2>2. tracks' = tracks
    BY <1>2, <2>1, SameTables
  <2> QED
    BY <1>0, <1>1, <1>2, <1>3, <1>4, <2>2 DEF Mapped, shelfVars, Done
<1>5. CASE t \in Locked(r, "track", tracks)
  <2>1. t \in DOMAIN tracks /\ t \in Tracks
    BY <1>5 DEF Locked, CatalogInv, ShelfHolds
  <2>2. {t} \cap Locked(r, "track", tracks) = {t}
    BY <1>5
  <2>3. DeleteTrack(t)
    BY <1>2, <2>1, <2>2 DEF DeleteTrack
  <2> QED
    BY <1>0, <1>1, <1>3, <2>1, <2>3 DEF Mapped, ShelfNext, Done
<1> QED
  BY <1>4, <1>5

\* An id that a rolled back insert has drawn is an id that it had locked.
LEMMA RollbackMaps ==
    ASSUME ShelfAssumption, CatalogInv, NEW r \in Slots, Rollback(r)
    PROVE  Isolated(r) /\ Mapped /\ (UNCHANGED shelfVars \/ LoseId)
<1>0. PICK n : n = req[r]
  OBVIOUS
<1>1. n.at \in Active /\ StageHolds(n) /\ ValuesHold(n) /\ TablesHold(n)
  BY <1>0, RequestFacts DEF Rollback
<1>2. tracks' = tracks /\ albums' = albums
      /\ spent' = spent \cup (IF n.q.op \in UpsertOps THEN {n.album} \cap Albums ELSE {})
  BY <1>0 DEF Rollback
<1>3. ASSUME NEW a \in (spent' \ spent) \cap Albums PROVE <<"album", a>> \in n.held
  <2>1. a = n.album /\ n.q.op \in UpsertOps /\ n.album # None
    BY <1>2, <1>3 DEF ShelfAssumption
  <2>2. n.at = "rows"
    BY <1>1, <2>1 DEF StageHolds, ValuesHold, Active, UpsertOps
  <2> QED
    BY <1>1, <2>1, <2>2 DEF TablesHold, UpsertHolds
<1>4. Isolated(r)
  BY <1>0, <1>2, <1>3 DEF Isolated, SameName
<1>5. CASE spent' = spent
  BY <1>2, <1>4, <1>5 DEF Mapped, shelfVars
<1>6. CASE spent' # spent
  <2>1. spent' = spent \cup {n.album} /\ n.album \in Albums \ spent
    BY <1>2, <1>6
  <2>2. LoseId
    BY <1>2, <2>1 DEF LoseId
  <2> QED
    BY <1>4, <2>2 DEF Mapped, ShelfNext
<1> QED
  BY <1>5, <1>6

-----------------------------------------------------------------------------
(* Every step.                                                             *)

LEMMA PrivateKeeps ==
    ASSUME ShelfAssumption, CatalogInv, NEW r \in Slots, Private(r), Isolated(r), Mapped
    PROVE  CatalogInv'
<1>1. ShelfHolds'
  <2>1. CASE ShelfNext
    BY <2>1, ShelfStep DEF CatalogInv
  <2>2. CASE UNCHANGED shelfVars
    BY <2>2 DEF shelfVars, CatalogInv, ShelfHolds, Shelved
  <2> QED
    BY <2>1, <2>2 DEF Mapped
<1> QED
  BY <1>1, InvariantKept DEF Private

Commit(r) ==
    \/ CommitImport(r) \/ CommitCreateAlbum(r) \/ CommitEditTrack(r)
    \/ CommitEditAlbum(r) \/ CommitDeleteAlbum(r) \/ CommitDeleteUser(r)
    \/ CommitSetVisibility(r) \/ CommitDeleteTrack(r)

LEMMA CommitHolds ==
    ASSUME ShelfAssumption, CatalogAssumption, CatalogInv, NEW r \in Slots, Commit(r)
    PROVE  Private(r) /\ Isolated(r) /\ Mapped /\ Done(r)
<1>1. End(r, "committed") /\ req[r].at = "rows"
  BY DEF Commit, CommitImport, CommitCreateAlbum, CommitEditTrack, CommitEditAlbum,
     CommitDeleteAlbum, CommitDeleteUser, CommitSetVisibility, CommitDeleteTrack, Finish, At
<1>2. Private(r) /\ req'[r].at = "committed" /\ req'[r].q = req[r].q
  BY <1>1, EndHolds DEF Ended
<1>3. Isolated(r) /\ Mapped /\ Done(r)
  BY <1>2, ImportMaps, CreateAlbumMaps, EditTrackMaps, EditAlbumMaps, DeleteAlbumMaps,
     DeleteUserMaps, SetVisibilityMaps, DeleteTrackMaps DEF Commit
<1> QED
  BY <1>2, <1>3

\* A step of request r up to its commit.
LEMMA StatementHolds ==
    ASSUME ShelfAssumption, CatalogAssumption, CatalogInv, NEW r \in Slots,
           Step(r) \/ (\E q \in Requests : Begin(r, q)), ~Commit(r)
    PROVE  /\ Private(r) /\ req'[r].at # "committed"
           /\ UNCHANGED shelfVars
<1>1. CASE \E q \in Requests : Begin(r, q)
  BY <1>1, BeginHolds DEF Begin
<1>2. CASE ReadTrack(r) \/ ReadAlbum(r) \/ CountTracks(r)
  BY <1>2, ReadTrackHolds, ReadAlbumHolds, CountTracksHolds
     DEF ReadTrack, ReadAlbum, CountTracks
<1>3. CASE UpsertArtist(r) \/ UpsertAlbum(r) \/ UpdateAlbumRow(r)
  BY <1>3, UpsertArtistHolds, UpsertAlbumHolds, UpdateAlbumRowHolds
     DEF UpsertArtist, UpsertAlbum, UpdateAlbumRow
<1>4. CASE CheckAlbumKey(r) \/ DeleteAlbumRow(r)
  BY <1>4, CheckAlbumKeyHolds, DeleteAlbumRowHolds DEF CheckAlbumKey, DeleteAlbumRow
<1>5. CASE ScanTracks(r) \/ ScanAlbums(r) \/ LockRow(r)
  BY <1>5, ScansHold, LockRowHolds DEF ScanTracks, ScanAlbums, LockRow
<1> QED
  BY <1>1, <1>2, <1>3, <1>4, <1>5 DEF Step, Commit

LEMMA RollbackHolds ==
    ASSUME ShelfAssumption, CatalogInv, NEW r \in Slots, Rollback(r)
    PROVE  /\ Private(r) /\ Isolated(r) /\ Mapped /\ req'[r].at # "committed"
           /\ UNCHANGED shelfVars \/ LoseId
<1>1. End(r, "failed") /\ req[r].at \notin {"idle", "committed"}
  BY DEF Rollback, Active
<1>2. Private(r) /\ req'[r].at = "failed"
  BY <1>1, EndHolds DEF Ended
<1> QED
  BY <1>2, RollbackMaps

LEMMA CatalogStep ==
    ASSUME ShelfAssumption, CatalogAssumption, CatalogInv, Next
    PROVE  CatalogInv' /\ Mapped
<1>1. PICK r \in Slots : Step(r) \/ Rollback(r) \/ \E q \in Requests : Begin(r, q)
  BY DEF Next
<1>2. Private(r) /\ Isolated(r) /\ Mapped
  <2>1. CASE Commit(r)
    BY <2>1, CommitHolds
  <2>2. CASE Rollback(r)
    BY <2>2, RollbackHolds
  <2>3. CASE ~Commit(r) /\ ~Rollback(r)
    <3>1. Private(r) /\ UNCHANGED shelfVars
      BY <1>1, <2>3, StatementHolds
    <3> QED
      BY <3>1, NothingMoves DEF Mapped
  <2> QED
    BY <2>1, <2>2, <2>3
<1> QED
  BY <1>2, PrivateKeeps

LEMMA CatalogStart ==
    ASSUME Init PROVE CatalogInv
<1>1. \A r \in Slots : req[r] = Idle
  BY DEF Init
<1>2. /\ HasFields(Fields, Idle) /\ Idle.at = "idle" /\ Idle.owner = None /\ Idle.album = None
      /\ Idle.held = {} /\ Idle.todo = <<>>
  BY DEF Idle, HasFields, Fields
<1>3. StageHolds(Idle) /\ ValuesHold(Idle) /\ OrderHolds(Idle)
  BY <1>2 DEF StageHolds, ValuesHold, OrderHolds, Active, Naming
<1>4. TablesHold(Idle)
  BY <1>2 DEF TablesHold, LocksHold, ArtistHolds, UpsertHolds, EditHolds, DetachHolds,
     PublishHolds, Naming
<1>5. ShelfHolds /\ DOMAIN req = Slots
  BY ShelfStart DEF Init
<1> QED
  BY <1>1, <1>2, <1>3, <1>4, <1>5 DEF CatalogInv, RequestHolds, LocksAreExclusive

LEMMA CatalogStutters ==
    ASSUME CatalogInv, UNCHANGED vars PROVE CatalogInv'
<1>1. tracks' = tracks /\ albums' = albums /\ spent' = spent /\ req' = req
  BY DEF vars
<1>2. ASSUME NEW s \in Slots PROVE RequestHolds(s)'
  <2>0. PICK n : n = req[s]
    OBVIOUS
  <2>1. StageHolds(n) /\ ValuesHold(n) /\ OrderHolds(n) /\ TablesHold(n) /\ req'[s] = n
    BY <1>1, <2>0, RequestFacts
  <2>2. /\ LocksHold(n)' /\ ArtistHolds(n)' /\ UpsertHolds(n)' /\ EditHolds(n)'
        /\ DetachHolds(n)'
    BY <1>1, <2>1 DEF TablesHold, LocksHold, ArtistHolds, UpsertHolds, UpsertTarget, EditHolds,
       DetachHolds, AlbumsNamed, Held, Pending, Naming
  <2>3. PublishHolds(n)'
    <3>1. ASSUME NEW t, Moderated(t) PROVE Moderated(t)'
      BY <1>1, <3>1 DEF Moderated
    <3> QED
      BY <1>1, <2>1, <3>1 DEF TablesHold, PublishHolds, Held, Pending
  <2>4. TablesHold(req[s])'
    BY <2>1, <2>2, <2>3 DEF TablesHold, LocksHold, ArtistHolds, UpsertHolds, EditHolds,
       DetachHolds, PublishHolds, Naming, Pending
  <2>5. StageHolds(req[s])' /\ ValuesHold(req[s])' /\ OrderHolds(req[s])'
    BY <2>1 DEF StageHolds, ValuesHold, OrderHolds, Naming
  <2> QED
    BY <2>4, <2>5 DEF RequestHolds
<1>3. ShelfHolds'
  BY <1>1 DEF CatalogInv, ShelfHolds, Shelved
<1> QED
  BY <1>1, <1>2, <1>3 DEF CatalogInv, LocksAreExclusive

LEMMA CatalogInvariant ==
    ASSUME ShelfAssumption, CatalogAssumption PROVE Spec => []CatalogInv
<1>1. CatalogInv /\ [Next]_vars => CatalogInv'
  BY CatalogStep, CatalogStutters
<1> QED
  BY <1>1, CatalogStart, PTL DEF Spec

-----------------------------------------------------------------------------
(* The theorems.                                                           *)

\* However many requests overlap, the tables and the requests have their types.
THEOREM CatalogTyped ==
    ASSUME ShelfAssumption, CatalogAssumption PROVE Spec => []TypeOK
<1>1. CatalogInv => TypeOK
  <2> SUFFICES ASSUME CatalogInv PROVE TypeOK
    OBVIOUS
  <2>1. ASSUME NEW r \in Slots
        PROVE  /\ req[r].at \in Active \cup Ended \cup {"idle"}
               /\ req[r].at = "idle" \/ req[r].q \in Requests
               /\ req[r].owner \in Owners \cup {None}
               /\ req[r].album \in Albums \cup {None}
               /\ req[r].held \subseteq Locks
               /\ req[r].todo \in Seq(Locks)
    BY RequestFacts DEF StageHolds, ValuesHold
  <2>2. ASSUME NEW todo \in Seq(Locks) PROVE Range(todo) \subseteq Locks
    BY DEF Range
  <2> QED
    BY <2>1, <2>2 DEF CatalogInv, ShelfHolds, TypeOK
<1> QED
  BY <1>1, CatalogInvariant, PTL

\* However many requests overlap, a track never points to an album that is gone
\* and no artist has two albums of one title (upsertAlbum, manageUpdateAlbum,
\* manageDeleteAlbum).
THEOREM CatalogShelved ==
    ASSUME ShelfAssumption, CatalogAssumption PROVE Spec => []Shelved
<1>1. CatalogInv => Shelved
  BY DEF CatalogInv, ShelfHolds
<1> QED
  BY <1>1, CatalogInvariant, PTL

-----------------------------------------------------------------------------
(* What a request does in the end is what its input asked for.             *)

\* The values that request r has in memory are those its body names.
InputHolds(n) ==
    n.at \in Active =>
        /\ n.q.artist # Keep => n.artist = n.q.artist
        /\ n.q.title # Keep => n.title = n.q.title
        /\ n.q.vis # Keep => n.vis = n.q.vis
        /\ n.q.op \in {"import", "createAlbum"} => n.owner = n.q.by
        /\ n.q.op \notin UpsertOps => n.album = n.q.album

InputsInv == \A r \in Slots : InputHolds(req[r])

LEMMA InputsStart == ASSUME Init PROVE InputsInv
BY DEF Init, InputsInv, InputHolds, Idle, Active

LEMMA EndedInputs ==
    ASSUME CatalogInv, NEW r \in Slots, NEW outcome \in Ended, End(r, outcome)
    PROVE  InputHolds(req'[r])
<1>1. req'[r].at = outcome
  BY DEF End, Idle, CatalogInv
<1> QED
  BY <1>1 DEF InputHolds, Active, Ended

LEMMA BegunInputs ==
    ASSUME CatalogInv, NEW r \in Slots, NEW q \in Requests, Begin(r, q)
    PROVE  InputHolds(req'[r])
<1>0. PICK at, todo :
         req' = [req EXCEPT ![r] = [q |-> q, owner |-> q.by, artist |-> q.artist,
                    title |-> q.title, vis |-> q.vis, album |-> q.album, held |-> {},
                    todo |-> todo, at |-> at]]
  BY DEF Begin
<1> DEFINE m == [q |-> q, owner |-> q.by, artist |-> q.artist, title |-> q.title,
                 vis |-> q.vis, album |-> q.album, held |-> {}, todo |-> todo, at |-> at]
<1>1. /\ m.q = q /\ m.owner = q.by /\ m.artist = q.artist /\ m.title = q.title
      /\ m.vis = q.vis /\ m.album = q.album
  OBVIOUS
<1>2. req'[r] = m
  BY <1>0 DEF CatalogInv
<1> HIDE DEF m
<1> QED
  BY <1>1, <1>2 DEF InputHolds

\* The reads take from the row only what the body leaves out.
LEMMA ReadInputs ==
    ASSUME CatalogInv, InputsInv, NEW r \in Slots, ReadTrack(r) \/ ReadAlbum(r)
    PROVE  InputHolds(req'[r])
<1>1. CASE End(r, "failed")
  BY <1>1, EndedInputs DEF Ended
<1>2. CASE ~End(r, "failed")
  <2>0. PICK n : n = req[r]
    OBVIOUS
  <2>1. HasFields(Fields, n) /\ n.at \in Active /\ InputHolds(n)
        /\ n.q.op \in {"editTrack", "editAlbum"}
    BY <2>0, RequestFacts DEF StageHolds, InputsInv, ReadTrack, ReadAlbum, At, Active
  <2>2. PICK owner, artist, title, vis :
           /\ req' = [req EXCEPT ![r] = [n EXCEPT !.at = "artist", !.owner = owner,
                         !.artist = Resolved(n.q.artist, artist),
                         !.title = Resolved(n.q.title, title),
                         !.vis = Resolved(n.q.vis, vis)]]
    <3>1. CASE ReadTrack(r)
      <4>1. PICK row : row = tracks[n.q.track]
        OBVIOUS
      <4>2. req' = [req EXCEPT ![r] = [n EXCEPT !.at = "artist", !.owner = row.owner,
                       !.artist = Resolved(n.q.artist, row.artist),
                       !.title = Resolved(n.q.title, TitleOf(n.q.track)),
                       !.vis = Resolved(n.q.vis, row.vis)]]
        BY <1>2, <2>0, <3>1, <4>1 DEF ReadTrack, CatalogInv
      <4> QED
        BY <4>2
    <3>2. CASE ReadAlbum(r)
      <4>1. PICK row : row = albums[n.q.album]
        OBVIOUS
      <4>2. req' = [req EXCEPT ![r] = [n EXCEPT !.at = "artist",
                       !.artist = Resolved(n.q.artist, row.artist),
                       !.title = Resolved(n.q.title, row.title),
                       !.vis = Resolved(n.q.vis, row.vis)]]
        BY <1>2, <2>0, <3>2, <4>1 DEF ReadAlbum, CatalogInv
      <4>3. [n EXCEPT !.at = "artist",
                       !.artist = Resolved(n.q.artist, row.artist),
                       !.title = Resolved(n.q.title, row.title),
                       !.vis = Resolved(n.q.vis, row.vis)]
            = [n EXCEPT !.at = "artist", !.owner = n.owner,
                       !.artist = Resolved(n.q.artist, row.artist),
                       !.title = Resolved(n.q.title, row.title),
                       !.vis = Resolved(n.q.vis, row.vis)]
        BY <2>1 DEF HasFields, Fields
      <4> QED
        BY <4>2, <4>3
    <3> QED
      BY <3>1, <3>2
  <2>3. PICK m : m = [n EXCEPT !.at = "artist", !.owner = owner,
                         !.artist = Resolved(n.q.artist, artist),
                         !.title = Resolved(n.q.title, title),
                         !.vis = Resolved(n.q.vis, vis)]
    OBVIOUS
  <2>4. req'[r] = m
    BY <2>2, <2>3 DEF CatalogInv
  <2>5. /\ m.q = n.q /\ m.album = n.album
        /\ m.artist = Resolved(n.q.artist, artist) /\ m.title = Resolved(n.q.title, title)
        /\ m.vis = Resolved(n.q.vis, vis)
    BY <2>1, <2>3 DEF HasFields, Fields
  <2> QED
    BY <2>1, <2>4, <2>5 DEF InputHolds, Resolved
<1> QED
  BY <1>1, <1>2

\* No other statement changes what the request has in memory, but an upsert its album.
SameValues(m, n) ==
    /\ m.q = n.q /\ m.owner = n.owner /\ m.artist = n.artist /\ m.title = n.title
    /\ m.vis = n.vis /\ (n.q.op \in UpsertOps \/ m.album = n.album)

LEMMA OtherInputs ==
    ASSUME CatalogInv, InputsInv, NEW r \in Slots,
           CountTracks(r) \/ UpsertArtist(r) \/ UpsertAlbum(r) \/ UpdateAlbumRow(r)
              \/ CheckAlbumKey(r) \/ DeleteAlbumRow(r) \/ ScanTracks(r) \/ ScanAlbums(r)
              \/ LockRow(r)
    PROVE  InputHolds(req'[r])
<1>0. PICK n : n = req[r]
  OBVIOUS
<1>1. HasFields(Fields, n) /\ n.at \in Active /\ InputHolds(n)
  <2>1. HasFields(Fields, n) /\ InputHolds(n)
    BY <1>0, RequestFacts DEF StageHolds, InputsInv
  <2>2. n.at \in {"count", "artist", "album", "key", "scan", "owned", "rows"}
    BY <1>0 DEF CountTracks, UpsertArtist, UpsertAlbum, UpdateAlbumRow, CheckAlbumKey,
       DeleteAlbumRow, ScanTracks, ScanAlbums, LockRow, At
  <2> QED
    BY <2>1, <2>2 DEF Active
<1>2. ASSUME NEW m, req' = [req EXCEPT ![r] = m], SameValues(m, n) PROVE InputHolds(req'[r])
  <2>1. req'[r] = m
    BY <1>2 DEF CatalogInv
  <2> QED
    BY <1>1, <1>2, <2>1 DEF SameValues, InputHolds
<1>3. \A at : SameValues([n EXCEPT !.at = at], n)
  BY <1>1 DEF SameValues, HasFields, Fields
<1>4. \A at, held : SameValues([n EXCEPT !.at = at, !.held = held], n)
  BY <1>1 DEF SameValues, HasFields, Fields
<1>5. \A at, todo : SameValues([n EXCEPT !.at = at, !.todo = todo], n)
  BY <1>1 DEF SameValues, HasFields, Fields
<1>6. \A at, todo, held : SameValues([n EXCEPT !.at = at, !.todo = todo, !.held = held], n)
  BY <1>1 DEF SameValues, HasFields, Fields
<1>7. \A todo, held : SameValues([n EXCEPT !.todo = todo, !.held = held], n)
  BY <1>1 DEF SameValues, HasFields, Fields
<1>8. CASE CountTracks(r)
  <2>1. CASE End(r, "refused")
    BY <2>1, EndedInputs DEF Ended
  <2>2. CASE req' = [req EXCEPT ![r].at = "album"]
    <3>1. req' = [req EXCEPT ![r] = [n EXCEPT !.at = "album"]]
      BY <1>0, <2>2
    <3> QED
      BY <1>2, <1>3, <3>1
  <2> QED
    BY <1>8, <2>1, <2>2 DEF CountTracks
<1>9. CASE UpsertArtist(r)
  <2>1. PICK held : req' = [req EXCEPT ![r] = [n EXCEPT !.at = "album", !.held = held]]
    BY <1>0, <1>9 DEF UpsertArtist, CatalogInv
  <2> QED
    BY <1>2, <1>4, <2>1
<1>10. CASE UpsertAlbum(r)
  <2>1. n.q.op \in UpsertOps
    BY <1>0, <1>10 DEF UpsertAlbum
  <2>2. PICK a, held, todo :
           req' = [req EXCEPT ![r] = [n EXCEPT !.album = a, !.at = "rows", !.held = held,
                                               !.todo = todo]]
    BY <1>0, <1>10 DEF UpsertAlbum, CatalogInv
  <2>3. SameValues([n EXCEPT !.album = a, !.at = "rows", !.held = held, !.todo = todo], n)
    BY <1>1, <2>1 DEF SameValues, HasFields, Fields
  <2> QED
    BY <1>2, <2>2, <2>3
<1>11. CASE UpdateAlbumRow(r)
  <2>1. PICK at, held : req' = [req EXCEPT ![r] = [n EXCEPT !.at = at, !.held = held]]
    BY <1>0, <1>11 DEF UpdateAlbumRow, CatalogInv
  <2> QED
    BY <1>2, <1>4, <2>1
<1>12. CASE CheckAlbumKey(r)
  <2>1. CASE End(r, "failed")
    BY <2>1, EndedInputs DEF Ended
  <2>2. CASE ~End(r, "failed")
    <3>1. PICK todo : req' = [req EXCEPT ![r] = [n EXCEPT !.at = "rows", !.todo = todo]]
      BY <1>0, <1>12, <2>2 DEF CheckAlbumKey, CatalogInv
    <3> QED
      BY <1>2, <1>5, <3>1
  <2> QED
    BY <2>1, <2>2
<1>13. CASE DeleteAlbumRow(r)
  <2>0. PICK order :
           req' = [req EXCEPT ![r].at = "rows", ![r].todo = order,
                     ![r].held = @ \cup AlbumLocks({n.album} \cap DOMAIN albums)]
    BY <1>0, <1>13 DEF DeleteAlbumRow
  <2>1. PICK todo, held :
           req' = [req EXCEPT ![r] = [n EXCEPT !.at = "rows", !.todo = todo, !.held = held]]
    BY <1>0, <2>0 DEF CatalogInv
  <2> QED
    BY <1>2, <1>6, <2>1
<1>14. CASE ScanTracks(r) \/ ScanAlbums(r)
  <2>0. PICK stage, order : req' = [req EXCEPT ![r].at = stage, ![r].todo = order]
    <3>1. CASE ScanTracks(r)
      BY <3>1 DEF ScanTracks
    <3>2. CASE ScanAlbums(r)
      BY <3>2 DEF ScanAlbums
    <3> QED
      BY <1>14, <3>1, <3>2
  <2>1. PICK at, todo : req' = [req EXCEPT ![r] = [n EXCEPT !.at = at, !.todo = todo]]
    BY <1>0, <2>0 DEF CatalogInv
  <2> QED
    BY <1>2, <1>5, <2>1
<1>15. CASE LockRow(r)
  <2>1. PICK todo, held :
           req' = [req EXCEPT ![r] = [n EXCEPT !.todo = todo, !.held = held]]
    BY <1>0, <1>15 DEF LockRow, CatalogInv
  <2> QED
    BY <1>2, <1>7, <2>1
<1> QED
  BY <1>8, <1>9, <1>10, <1>11, <1>12, <1>13, <1>14, <1>15

LEMMA InputsStep ==
    ASSUME ShelfAssumption, CatalogAssumption, CatalogInv, InputsInv, Next
    PROVE  InputsInv'
<1>1. PICK r \in Slots : Step(r) \/ Rollback(r) \/ \E q \in Requests : Begin(r, q)
  BY DEF Next
<1>2. OnlyBy(r)
  <2>1. CASE Commit(r)
    BY <2>1, CommitHolds DEF Private
  <2>2. CASE Rollback(r)
    BY <2>2, RollbackHolds DEF Private
  <2>3. CASE ~Commit(r) /\ ~Rollback(r)
    BY <1>1, <2>3, StatementHolds DEF Private
  <2> QED
    BY <2>1, <2>2, <2>3
<1>3. InputHolds(req'[r])
  <2>1. CASE \E outcome \in Ended : End(r, outcome)
    BY <2>1, EndedInputs
  <2>2. CASE Commit(r) \/ Rollback(r)
    <3>1. End(r, "committed") \/ End(r, "failed")
      BY <2>2 DEF Commit, CommitImport, CommitCreateAlbum, CommitEditTrack, CommitEditAlbum,
         CommitDeleteAlbum, CommitDeleteUser, CommitSetVisibility, CommitDeleteTrack, Finish,
         Rollback
    <3> QED
      BY <2>1, <3>1 DEF Ended
  <2>3. CASE \E q \in Requests : Begin(r, q)
    BY <2>3, BegunInputs
  <2>4. CASE ReadTrack(r) \/ ReadAlbum(r)
    BY <2>4, ReadInputs
  <2>5. CASE CountTracks(r) \/ UpsertArtist(r) \/ UpsertAlbum(r) \/ UpdateAlbumRow(r)
              \/ CheckAlbumKey(r) \/ DeleteAlbumRow(r) \/ ScanTracks(r) \/ ScanAlbums(r)
              \/ LockRow(r)
    BY <2>5, OtherInputs
  <2> QED
    BY <1>1, <2>2, <2>3, <2>4, <2>5 DEF Step, Commit
<1>4. \A s \in Slots \ {r} : req'[s] = req[s]
  BY <1>2 DEF OnlyBy
<1> QED
  BY <1>3, <1>4 DEF InputsInv

\* A commit has the whole effect that the input of the request names.
LEMMA CommitIsWhole ==
    ASSUME ShelfAssumption, CatalogAssumption, CatalogInv, InputsInv, NEW r \in Slots, Commit(r)
    PROVE  WholeEffect(r)
<1>0. PICK n, q : n = req[r] /\ q = n.q
  OBVIOUS
<1>1. Done(r) /\ n.at = "rows" /\ n.at \in Active
  BY <1>0, CommitHolds DEF Commit, CommitImport, CommitCreateAlbum, CommitEditTrack,
     CommitEditAlbum, CommitDeleteAlbum, CommitDeleteUser, CommitSetVisibility,
     CommitDeleteTrack, Finish, At, Active
<1>2. StageHolds(n) /\ ValuesHold(n) /\ InputHolds(n) /\ q \in Requests
  BY <1>0, <1>1, RequestFacts DEF StageHolds, InputsInv
<1>3. WellFormed(q)
  BY <1>2, FirstStages
<1>4. CASE q.op \in NamingOps
  <2>1. /\ n.artist \in Artists /\ n.title \in Titles /\ n.vis \in TrackVis
        /\ n.owner \in Owners
    BY <1>0, <1>1, <1>2, <1>4 DEF ValuesHold, Naming
  <2>2. /\ n.artist \in Given(q.artist, Artists) /\ n.title \in Given(q.title, Titles)
        /\ n.vis \in Given(q.vis, TrackVis)
    BY <1>0, <1>1, <1>2, <2>1 DEF InputHolds, Given
  <2>3. CASE q.op \in UpsertOps
    <3>1. n.album \in Albums
      BY <1>0, <1>1, <2>3, UpsertFacts
    <3>2. q.op \in {"import", "createAlbum"} => n.owner = q.by
      BY <1>0, <1>1, <1>2 DEF InputHolds
    <3>3. CASE q.op = "import"
      <4>1. \E t \in Tracks : ImportTrack(q.by, t, n.album, n.artist, n.title, n.vis)
        BY <1>0, <1>1, <3>2, <3>3 DEF Done
      <4>2. NamedEffect(r, n.artist, n.title, n.vis)
        BY <1>0, <3>1, <3>3, <4>1 DEF NamedEffect
      <4> QED
        BY <1>0, <2>2, <4>2 DEF WholeEffect
    <3>4. CASE q.op = "createAlbum"
      <4>1. CreateAlbum(q.by, n.album, n.artist, n.title, AlbumVisFor(n.vis))
        BY <1>0, <1>1, <3>2, <3>4 DEF Done
      <4>2. NamedEffect(r, n.artist, n.title, n.vis)
        BY <1>0, <3>1, <3>4, <4>1 DEF NamedEffect
      <4> QED
        BY <1>0, <2>2, <4>2 DEF WholeEffect
    <3>5. CASE q.op = "editTrack"
      <4>1. IF q.track \in Locked(r, "track", tracks)
            THEN EditTrack(q.track, n.album, n.owner, n.artist, n.title, n.vis)
            ELSE CreateAlbum(n.owner, n.album, n.artist, n.title, AlbumVisFor(n.vis))
        BY <1>0, <1>1, <3>5 DEF Done
      <4>2. NamedEffect(r, n.artist, n.title, n.vis)
        BY <1>0, <2>1, <3>1, <3>5, <4>1 DEF NamedEffect
      <4> QED
        BY <1>0, <2>2, <4>2 DEF WholeEffect
    <3> QED
      BY <2>3, <3>3, <3>4, <3>5 DEF UpsertOps
  <2>4. CASE q.op = "editAlbum"
    <3>1. n.album = q.album
      BY <1>0, <1>1, <1>2, <2>4 DEF InputHolds, UpsertOps
    <3>2. CASE q.album \notin Locked(r, "album", albums)
      BY <1>0, <1>1, <2>4, <3>1, <3>2 DEF Done, RowGone, WholeEffect
    <3>3. CASE q.album \in Locked(r, "album", albums)
      <4>1. \E T \in SUBSET Held(q.album) : EditAlbum(q.album, n.artist, n.title, n.vis, T)
        BY <1>0, <1>1, <2>4, <3>1, <3>3 DEF Done
      <4>2. NamedEffect(r, n.artist, n.title, n.vis)
        BY <1>0, <2>4, <3>3, <4>1 DEF NamedEffect
      <4> QED
        BY <1>0, <2>2, <4>2 DEF WholeEffect
    <3> QED
      BY <3>2, <3>3
  <2> QED
    BY <1>4, <2>3, <2>4 DEF NamingOps
<1>5. CASE q.op \notin NamingOps
  <2>1. q.op \in {"deleteAlbum", "deleteUser", "setVisibility", "deleteTrack"}
    BY <1>2, <1>5, FirstStages DEF NamingOps, UpsertOps
  <2>2. n.album = q.album
    BY <1>0, <1>1, <1>2, <1>5 DEF InputHolds, NamingOps
  <2>3. q.op = "setVisibility" => n.vis = q.vis
    BY <1>0, <1>1, <1>2, <1>3 DEF InputHolds, WellFormed
  <2> QED
    BY <1>0, <1>1, <2>1, <2>2, <2>3 DEF Done, RowGone, PlainEffect, WholeEffect
<1> QED
  BY <1>4, <1>5

WholeStep ==
    IF \E r \in Slots : Commits(r)
    THEN \A r \in Slots : Commits(r) => WholeEffect(r)
    ELSE UNCHANGED shelfVars \/ LoseId

LEMMA StepIsWhole ==
    ASSUME ShelfAssumption, CatalogAssumption, CatalogInv, InputsInv, Next
    PROVE  WholeStep
<1>1. PICK r \in Slots : Step(r) \/ Rollback(r) \/ \E q \in Requests : Begin(r, q)
  BY DEF Next
<1>2. CASE Commit(r)
  <2>1. OnlyBy(r) /\ WholeEffect(r) /\ req'[r].at = "committed"
    <3>1. End(r, "committed")
      BY <1>2 DEF Commit, CommitImport, CommitCreateAlbum, CommitEditTrack, CommitEditAlbum,
         CommitDeleteAlbum, CommitDeleteUser, CommitSetVisibility, CommitDeleteTrack, Finish
    <3> QED
      BY <1>2, <3>1, CommitHolds, CommitIsWhole DEF Private, End, Idle, CatalogInv
  <2>2. Commits(r) /\ \A s \in Slots : Commits(s) => s = r
    BY <2>1 DEF OnlyBy, Commits
  <2> QED
    BY <2>1, <2>2 DEF WholeStep
<1>3. CASE ~Commit(r)
  <2>1. /\ OnlyBy(r) /\ req'[r].at # "committed" /\ (UNCHANGED shelfVars \/ LoseId)
    BY <1>1, <1>3, StatementHolds, RollbackHolds DEF Private
  <2>2. \A s \in Slots : ~Commits(s)
    BY <2>1 DEF OnlyBy, Commits
  <2> QED
    BY <2>1, <2>2 DEF WholeStep
<1> QED
  BY <1>2, <1>3

\* The tables change by whole handlers: a commit makes, to the tables as they are by
\* then, the one change of Shelf that its operation stands for, in both tables at once,
\* on the row and with the artist, title and visibility that its body names; or it
\* changes nothing, because its row was gone when it came to lock it.  Nothing else
\* changes a table, and a rollback leaves a used up id at most.  (Fields that the body
\* leaves out may be old by then: that is OnlyAskedHide, which fails.)
THEOREM CatalogImplementsShelf ==
    ASSUME ShelfAssumption, CatalogAssumption PROVE Spec => ShelfRefined
<1>1. Init => InputsInv /\ ShelfInit
  BY InputsStart DEF Init
<1>2. CatalogInv /\ InputsInv /\ [Next]_vars => InputsInv'
  <2>1. ASSUME InputsInv, UNCHANGED vars PROVE InputsInv'
    BY <2>1 DEF vars, InputsInv
  <2> QED
    BY <2>1, InputsStep
<1>3. CatalogInv /\ InputsInv /\ [Next]_vars => [WholeStep]_vars
  BY StepIsWhole
<1>4. [WholeStep]_vars <=>
      [IF \E r \in Slots : Commits(r)
       THEN \A r \in Slots : Commits(r) => WholeEffect(r)
       ELSE UNCHANGED shelfVars \/ LoseId]_vars
  BY DEF WholeStep
<1> QED
  BY <1>1, <1>2, <1>3, <1>4, CatalogInvariant, PTL DEF Spec, ShelfRefined

\* Each step of the statements is a commit of Shelf or leaves the tables alone.
THEOREM CatalogStepsAreShelfs ==
    ASSUME ShelfAssumption, CatalogAssumption PROVE Spec => ShelfSpec
<1>1. CatalogInv /\ [Next]_vars => [ShelfNext]_shelfVars
  <2>1. CASE Next
    BY <2>1, CatalogStep DEF Mapped
  <2>2. CASE UNCHANGED vars
    BY <2>2 DEF vars, shelfVars
  <2> QED
    BY <2>1, <2>2
<1>2. Init => ShelfInit
  BY DEF Init
<1> QED
  BY <1>1, <1>2, CatalogInvariant, PTL DEF Spec, ShelfSpec

Published(r) ==
    Commits(r) /\ req[r].q.op = "editAlbum" /\ req[r].vis = "public" =>
        \A t \in DOMAIN tracks' :
            \/ tracks'[t].album # req[r].album
            \/ tracks'[t].vis = "public"
            \/ Moderated(t)

LEMMA PublicationHolds ==
    ASSUME ShelfAssumption, CatalogInv, NEW r \in Slots, CommitEditAlbum(r) PROVE Published(r)
<1>0. PICK n : n = req[r]
  OBVIOUS
<1>1. n.at = "rows" /\ n.todo = <<>> /\ StageHolds(n) /\ ValuesHold(n) /\ TablesHold(n)
  BY <1>0, RequestFacts DEF CommitEditAlbum, Finish, At
<1> SUFFICES ASSUME n.q.op = "editAlbum", n.vis = "public", NEW t \in DOMAIN tracks',
                    tracks'[t].album = n.album
             PROVE  tracks'[t].vis = "public" \/ Moderated(t)
  BY <1>0 DEF Published
<1>2. Naming(n) /\ n.album \in Albums /\ n.q.op \notin UpsertOps
  BY <1>1 DEF Naming, NamingOps, ValuesHold, UpsertOps
<1>3. PICK T : T = {x \in Locked(r, "track", tracks) :
                       tracks[x].album \in {n.album} \cap Locked(r, "album", albums)}
  OBVIOUS
<1>4. tracks' = [x \in DOMAIN tracks |->
         IF x \in T THEN [tracks[x] EXCEPT !.vis = "public"] ELSE tracks[x]]
  BY <1>0, <1>3 DEF CommitEditAlbum
<1>5. t \in DOMAIN tracks /\ tracks[t] \in TrackRows
  BY <1>4 DEF CatalogInv, ShelfHolds
<1>6. tracks[t].album = n.album /\ (t \in T => tracks'[t].vis = "public")
      /\ (t \notin T => tracks'[t] = tracks[t])
  BY <1>4, <1>5 DEF TrackRows
<1>7. n.album \in DOMAIN albums
  BY <1>2, <1>5, <1>6 DEF CatalogInv, ShelfHolds, Shelved, ShelfAssumption
<1>8. <<"album", n.album>> \in n.held
  BY <1>1, <1>7 DEF TablesHold, EditHolds
<1>9. tracks[t].vis = "public" \/ Pending(n, t) \/ Moderated(t)
  BY <1>1, <1>5, <1>6, <1>8 DEF TablesHold, PublishHolds, Held
<1>10. Range(n.todo) = {}
  BY <1>1 DEF Range
<1>11. Pending(n, t) => t \in T
  BY <1>0, <1>3, <1>5, <1>6, <1>7, <1>8, <1>10 DEF Pending, Locked
<1> QED
  BY <1>6, <1>9, <1>11

\* When the publication of an album commits, every track the album then holds is
\* public, also one that was imported or moved into it meanwhile, unless an
\* administrator has set the visibility of that very track by then
\* (manageUpdateAlbum, "Hierarchy rule").
THEOREM PublicationReachesAll ==
    ASSUME ShelfAssumption, CatalogAssumption PROVE Spec => PublishReachesAll
<1>1. CatalogInv /\ [Next]_vars => [\A r \in Slots : Published(r)]_vars
  <2> SUFFICES ASSUME CatalogInv, Next, NEW r \in Slots, Commits(r),
                      req[r].q.op = "editAlbum"
               PROVE  Published(r)
    BY DEF Published
  <2>1. PICK s \in Slots : Step(s) \/ Rollback(s) \/ \E q \in Requests : Begin(s, q)
    BY DEF Next
  <2>2. CASE CommitEditAlbum(s)
    <3>1. OnlyBy(s)
      BY <2>2, CommitHolds DEF Commit, Private
    <3>2. r = s
      BY <3>1 DEF OnlyBy, Commits
    <3> QED
      BY <2>2, <3>2, PublicationHolds
  <2>3. CASE Commit(s) /\ ~CommitEditAlbum(s)
    <3>1. OnlyBy(s) /\ req[s].q.op # "editAlbum"
      BY <2>3, CommitHolds DEF Commit, Private, CommitImport, CommitCreateAlbum, CommitEditTrack,
         CommitDeleteAlbum, CommitDeleteUser, CommitSetVisibility, CommitDeleteTrack, Finish
    <3> QED
      BY <3>1 DEF OnlyBy, Commits
  <2>4. CASE ~Commit(s)
    <3>1. OnlyBy(s) /\ req'[s].at # "committed"
      BY <2>1, <2>4, StatementHolds, RollbackHolds DEF Private
    <3> QED
      BY <3>1 DEF OnlyBy, Commits
  <2> QED
    BY <2>2, <2>3, <2>4
<1>2. [\A r \in Slots : Published(r)]_vars <=>
      [\A r \in Slots :
          Commits(r) /\ req[r].q.op = "editAlbum" /\ req[r].vis = "public" =>
              \A t \in DOMAIN tracks' :
                  \/ tracks'[t].album # req[r].album
                  \/ tracks'[t].vis = "public"
                  \/ \E s \in Slots : /\ req[s].at = "committed"
                                      /\ req[s].q.op = "setVisibility"
                                      /\ req[s].q.track = t]_vars
  BY DEF Published, Moderated
<1> QED
  BY <1>1, <1>2, CatalogInvariant, PTL DEF Spec, PublishReachesAll
-----------------------------------------------------------------------------
(* Deadlocks.                                                              *)

\* In a smallest stuck set everybody is waited for.
LEMMA EveryMemberBlocks ==
    ASSUME NEW S \in Cycles, NEW r \in S
    PROVE  \E s \in S : r \in WaitsFor(s)
<1> SUFFICES ASSUME \A s \in S : r \notin WaitsFor(s) PROVE FALSE
  OBVIOUS
<1>1. Stuck(S) /\ \A T \in SUBSET S : Stuck(T) => T = S
  BY DEF Cycles
<1>2. \A s \in S : WaitsFor(s) \cap S # {}
  BY <1>1 DEF Stuck
<1>3. \A s \in S : WaitsFor(s) \cap (S \ {r}) # {}
  BY <1>2
<1>4. S \ {r} # {}
  BY <1>3
<1>5. Stuck(S \ {r})
  BY <1>3, <1>4 DEF Stuck
<1> QED
  BY <1>1, <1>5

\* What r can wait for, and who can have it, among requests that delete no user.
LEMMA WaitsInOrder ==
    ASSUME CatalogAssumption, CatalogInv, NEW r \in Slots, NEW s \in WaitsFor(r),
           req[r].q.op # "deleteUser", req[s].q.op # "deleteUser"
    PROVE  /\ req[r].at \in {"artist", "album", "key", "rows"}
           /\ req[r].at = "rows" =>
                 req[r].todo # <<>> /\ req[r].q.op \notin {"import", "createAlbum"}
           /\ req[r].at = "rows" => req[s].at = "rows"
           /\ req[r].at = "rows" /\ req[s].todo # <<>> => req[s].q.op \notin OneTrackOps
           /\ req[s].at \in {"album", "key", "rows"}
           /\ req[s].at = "album" => req[r].at = "artist"
<1>0. PICK m, n : m = req[r] /\ n = req[s]
  OBVIOUS
<1>1. s \in Slots \ {r} /\ \E l \in Wanted(r) : l \in n.held
  BY <1>0 DEF WaitsFor
<1>2. StageHolds(m) /\ ValuesHold(m) /\ OrderHolds(m) /\ StageHolds(n) /\ OrderHolds(n)
  BY <1>0, <1>1, RequestFacts
<1>3. PICK l \in Wanted(r) : l \in n.held
  BY <1>1
<1>4. m.at \in {"artist", "album", "key", "rows"}
  <2>1. m.at # "owned" /\ m.at \in Active \cup Ended \cup {"idle"}
    BY <1>0, <1>2 DEF StageHolds
  <2>2. m.at \in {"artist", "album", "key", "owned", "rows"}
    BY <1>0, <1>3 DEF Wanted
  <2> QED
    BY <2>1, <2>2
<1>5. n.at \in {"album", "key", "rows"}
  BY <1>0, <1>2, <1>3 DEF OrderHolds, StageHolds, Active, Ended
<1>6. CASE m.at = "rows"
  <2>1. m.todo # <<>> /\ l = Head(m.todo)
    BY <1>0, <1>3, <1>6 DEF Wanted
  <2>2. m.q.op \in Ops
    BY <1>2, <1>6 DEF StageHolds, CatalogAssumption, RequestType
  <2>3. m.q.op \in OneTrackOps \cup {"editAlbum", "deleteAlbum"}
    BY <1>0, <1>2, <1>6, <2>1, <2>2 DEF OrderHolds, Ops, UpsertOps, OneTrackOps
  <2>4. l \in TrackLocks(Tracks)
    <3>1. CASE m.q.op \in OneTrackOps
      BY <1>2, <1>6, <2>1, <3>1 DEF OrderHolds
    <3>2. CASE m.q.op \in {"editAlbum", "deleteAlbum"}
      <4>1. Range(m.todo) \subseteq TrackLocks(Tracks) /\ m.todo \in Seq(Locks)
        BY <1>2, <1>6, <3>2 DEF ValuesHold
      <4>2. l \in Range(m.todo)
        BY <2>1, <4>1, TailHolds
      <4> QED
        BY <4>1, <4>2
    <3> QED
      BY <2>3, <3>1, <3>2
  <2>5. l \notin {"artist"} \X Artists
    BY <2>4 DEF TrackLocks
  <2>6. n.at = "rows"
    BY <1>2, <1>3, <1>5, <2>4, <2>5 DEF OrderHolds
  <2>7. n.todo # <<>> => n.q.op \notin OneTrackOps
    BY <1>2, <1>3, <2>4, <2>6 DEF OrderHolds
  <2> QED
    BY <1>0, <1>6, <2>1, <2>3, <2>6, <2>7 DEF OneTrackOps
<1>7. CASE m.at \in {"album", "key"}
  <2>1. \E A : l \in AlbumLocks(A)
    BY <1>0, <1>3, <1>7 DEF Wanted
  <2>2. l \notin {"artist"} \X Artists
    BY <2>1 DEF AlbumLocks
  <2>3. n.at # "album"
    BY <1>2, <1>3, <2>2 DEF OrderHolds
  <2> QED
    BY <1>0, <1>5, <1>7, <2>3
<1>8. CASE m.at = "artist"
  BY <1>0, <1>5, <1>8
<1> QED
  BY <1>4, <1>6, <1>7, <1>8

LEMMA CyclesAreKnown == ASSUME CatalogAssumption, CatalogInv PROVE OnlyKnownDeadlocks
<1> SUFFICES ASSUME NEW S \in Cycles, \A r \in S : req[r].q.op # "deleteUser"
             PROVE  \/ \A r \in S : req[r].at = "key"
                    \/ \A r \in S : /\ req[r].at = "rows"
                                    /\ req[r].q.op \in {"editAlbum", "deleteAlbum"}
  BY DEF OnlyKnownDeadlocks
<1>1. S \subseteq Slots /\ Stuck(S) /\ \A T \in SUBSET S : Stuck(T) => T = S
  BY DEF Cycles
<1>2. ASSUME NEW r \in S PROVE \E s \in S : s \in WaitsFor(r)
  <2>1. WaitsFor(r) \cap S # {}
    BY <1>1 DEF Stuck
  <2> QED
    BY <2>1
<1>3. \A r \in S : \E s \in S : r \in WaitsFor(s)
  BY EveryMemberBlocks
<1>4. CASE \E r \in S : req[r].at = "rows"
  <2>1. PICK R : R = {r \in S : req[r].at = "rows"}
    OBVIOUS
  <2>2. ASSUME NEW r \in R PROVE WaitsFor(r) \cap R # {}
    <3>1. PICK s \in S : s \in WaitsFor(r)
      BY <1>2, <2>1
    <3>2. req[s].at = "rows"
      BY <1>1, <2>1, <3>1, WaitsInOrder
    <3> QED
      BY <2>1, <3>1, <3>2
  <2>3. R = S
    BY <1>1, <1>4, <2>1, <2>2 DEF Stuck
  <2>4. ASSUME NEW r \in S PROVE req[r].q.op \in {"editAlbum", "deleteAlbum"}
    <3>1. PICK s \in S : r \in WaitsFor(s)
      BY <1>3
    <3>2. PICK t \in S : t \in WaitsFor(r)
      BY <1>2
    <3>3. req[r].todo # <<>> /\ req[r].q.op \notin {"import", "createAlbum"}
      BY <1>1, <2>1, <2>3, <3>2, WaitsInOrder
    <3>4. req[r].q.op \notin OneTrackOps
      BY <1>1, <2>1, <2>3, <3>1, <3>3, WaitsInOrder
    <3>5. req[r].q \in Requests
      BY <1>1, <2>1, <2>3, RequestFacts DEF StageHolds
    <3>6. req[r].q.op \in Ops
      BY <3>5 DEF CatalogAssumption, RequestType
    <3> QED
      BY <3>3, <3>4, <3>6 DEF Ops, UpsertOps, OneTrackOps
  <2> QED
    BY <2>1, <2>3, <2>4
<1>5. CASE \A r \in S : req[r].at # "rows"
  <2>1. ASSUME NEW r \in S PROVE req[r].at \in {"album", "key"}
    <3>1. PICK s \in S : r \in WaitsFor(s)
      BY <1>3
    <3> QED
      BY <1>1, <1>5, <3>1, WaitsInOrder
  <2>2. ASSUME NEW r \in S PROVE req[r].at # "album"
    <3>1. PICK s \in S : r \in WaitsFor(s)
      BY <1>3
    <3>2. req[s].at # "artist"
      BY <2>1
    <3> QED
      BY <1>1, <3>1, <3>2, WaitsInOrder
  <2> QED
    BY <2>1, <2>2
<1> QED
  BY <1>4, <1>5

\* The handlers wait for each other in a circle only in three cases: a user is
\* being deleted, album edits exchange artist and title, or publications and
\* deletions of albums need tracks that were moved between those albums.
THEOREM DeadlocksAreKnown ==
    ASSUME ShelfAssumption, CatalogAssumption PROVE Spec => []OnlyKnownDeadlocks
<1> QED
  BY CyclesAreKnown, CatalogInvariant, PTL

=============================================================================
