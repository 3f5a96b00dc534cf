-------------------------------- MODULE Shelf --------------------------------
(***************************************************************************)
(* The catalog tables as their readers see them: tracks and albums, and    *)
(* what each handler of internal/httpapi/server.go may have done to them   *)
(* once its transaction has committed.  One action is one commit.          *)
(*                                                                         *)
(* Catalog.tla splits the handlers into their statements and row locks and *)
(* implements this module; Library.tla puts the readers on top of it.      *)
(***************************************************************************)
EXTENDS FiniteSets

CONSTANTS Users,      \* subjects of the accounts
          Admins,     \* the users with the role admin
          Tracks,     \* track ids, each used at most once (UUIDs)
          Albums,     \* album ids, each used at most once (BIGSERIAL)
          Artists,    \* artist names
          Titles,     \* album titles
          Blank,      \* the empty title COALESCE gives for a missing album
          TrackVis,   \* the visibilities of tracks that occur
          None        \* no album, no track, no user

ASSUME ShelfAssumption ==
    /\ Admins \subseteq Users
    /\ Blank \in Titles
    /\ {"private", "public"} \subseteq TrackVis
    /\ TrackVis \subseteq {"private", "unlisted", "followers_only", "public"}
    /\ Albums \cap Tracks = {}
    /\ None \notin Albums \cup Tracks \cup Users

VARIABLES tracks,     \* track id -> row, for the rows that exist
          albums,     \* album id -> row, for the rows that exist
          spent       \* the ids handed out so far

shelfVars == <<tracks, albums, spent>>

\* The placeholder that owns what a deleted user left behind.
GhostOf(u) == <<"deleted", u>>
Owners == Users \cup {GhostOf(u) : u \in Users}

AlbumVis == {"private", "public"}
TrackRows == [owner : Owners, vis : TrackVis, artist : Artists,
              album : Albums \cup {None}]
AlbumRows == [owner : Owners, vis : AlbumVis, artist : Artists, title : Titles]

Held(a) == {t \in DOMAIN tracks : tracks[t].album = a}

\* UNIQUE(artist_id, title)
AlbumsNamed(ar, ti) ==
    {a \in DOMAIN albums : albums[a].artist = ar /\ albums[a].title = ti}

TitleOf(t) ==
    IF tracks[t].album = None THEN Blank ELSE albums[tracks[t].album].title

AlbumVisFor(v) == IF v = "public" THEN "public" ELSE "private"

\* A public upsert publishes an album that is there, no upsert hides one.
MergedVis(old, v) == IF old = "public" \/ v = "public" THEN "public" ELSE old

\* The albums once upsertAlbum has found or made album a.
Upserted(a, u, ar, ti, v) ==
    [x \in DOMAIN albums \cup {a} |->
        IF x # a THEN albums[x]
        ELSE IF a \in DOMAIN albums
        THEN [albums[a] EXCEPT !.vis = MergedVis(@, v)]
        ELSE [owner |-> u, vis |-> v, artist |-> ar, title |-> ti]]

\* a is the album upsertAlbum returns for this artist and title.
UpsertTarget(a, ar, ti) ==
    \/ a \in AlbumsNamed(ar, ti)
    \/ AlbumsNamed(ar, ti) = {} /\ a \in Albums \ spent

-----------------------------------------------------------------------------
(* The commits.                                                            *)

ShelfInit ==
    /\ spent \in SUBSET (Tracks \cup Albums)
    /\ tracks \in [spent \cap Tracks -> TrackRows]
    /\ albums \in [spent \cap Albums -> AlbumRows]
    /\ \A t \in DOMAIN tracks : tracks[t].album \in DOMAIN albums \cup {None}
    /\ \A a, b \in DOMAIN albums :
           albums[a].artist = albums[b].artist /\ albums[a].title = albums[b].title
               => a = b

ImportTrack(u, t, a, ar, ti, v) ==
    /\ t \in Tracks \ spent
    /\ UpsertTarget(a, ar, ti)
    /\ spent' = spent \cup {t, a}
    /\ albums' = Upserted(a, u, ar, ti, AlbumVisFor(v))
    /\ tracks' = [x \in DOMAIN tracks \cup {t} |->
                     IF x = t
                     THEN [owner |-> u, vis |-> v, artist |-> ar, album |-> a]
                     ELSE tracks[x]]

CreateAlbum(u, a, ar, ti, v) ==
    /\ UpsertTarget(a, ar, ti)
    /\ albums' = Upserted(a, u, ar, ti, v)
    /\ spent' = spent \cup {a}
    /\ UNCHANGED tracks

EditTrack(t, a, u, ar, ti, v) ==
    /\ t \in DOMAIN tracks
    /\ UpsertTarget(a, ar, ti)
    /\ spent' = spent \cup {a}
    /\ albums' = Upserted(a, u, ar, ti, AlbumVisFor(v))
    /\ tracks' = [tracks EXCEPT ![t].vis = v, ![t].artist = ar, ![t].album = a]

\* The tracks of T are the ones the statement found and published.
EditAlbum(a, ar, ti, v, T) ==
    /\ a \in DOMAIN albums
    /\ AlbumsNamed(ar, ti) \subseteq {a}
    /\ T \subseteq Held(a)
    /\ v # "public" => T = {}
    /\ albums' = [albums EXCEPT ![a].artist = ar, ![a].title = ti, ![a].vis = v]
    /\ tracks' = [t \in DOMAIN tracks |->
                     IF t \in T THEN [tracks[t] EXCEPT !.vis = "public"]
                     ELSE tracks[t]]
    /\ UNCHANGED spent

\* ON DELETE SET NULL
DeleteAlbum(a) ==
    /\ a \in DOMAIN albums
    /\ albums' = [x \in DOMAIN albums \ {a} |-> albums[x]]
    /\ tracks' = [t \in DOMAIN tracks |->
                     IF t \in Held(a) THEN [tracks[t] EXCEPT !.album = None]
                     ELSE tracks[t]]
    /\ UNCHANGED spent

SetVisibility(t, v) ==
    /\ t \in DOMAIN tracks
    /\ tracks' = [tracks EXCEPT ![t].vis = v]
    /\ UNCHANGED <<albums, spent>>

DeleteTrack(t) ==
    /\ t \in DOMAIN tracks
    /\ tracks' = [x \in DOMAIN tracks \ {t} |-> tracks[x]]
    /\ UNCHANGED <<albums, spent>>

\* What user u owns among T and A goes to the placeholder of u.
Reassign(u, T, A) ==
    /\ \A t \in T : t \in DOMAIN tracks /\ tracks[t].owner = u
    /\ \A a \in A : a \in DOMAIN albums /\ albums[a].owner = u
    /\ tracks' = [t \in DOMAIN tracks |->
                     IF t \in T THEN [tracks[t] EXCEPT !.owner = GhostOf(u)]
                     ELSE tracks[t]]
    /\ albums' = [a \in DOMAIN albums |->
                     IF a \in A THEN [albums[a] EXCEPT !.owner = GhostOf(u)]
                     ELSE albums[a]]
    /\ UNCHANGED spent

\* A rolled back insert has used up its id all the same.
LoseId == \E a \in Albums \ spent :
              spent' = spent \cup {a} /\ UNCHANGED <<tracks, albums>>

ShelfNext ==
    \/ LoseId
    \/ \E a \in Albums : DeleteAlbum(a)
    \/ \E t \in Tracks : DeleteTrack(t) \/ \E v \in TrackVis : SetVisibility(t, v)
    \/ \E u \in Users, T \in SUBSET DOMAIN tracks, A \in SUBSET DOMAIN albums :
          Reassign(u, T, A)
    \/ \E a \in Albums, ar \in Artists, ti \in Titles :
          \/ \E u \in Owners, v \in TrackVis, t \in Tracks :
                \/ ImportTrack(u, t, a, ar, ti, v)
                \/ EditTrack(t, a, u, ar, ti, v)
          \/ \E u \in Owners, v \in AlbumVis : CreateAlbum(u, a, ar, ti, v)
          \/ \E v \in AlbumVis : \E T \in SUBSET Held(a) :
                EditAlbum(a, ar, ti, v, T)

ShelfSpec == ShelfInit /\ [][ShelfNext]_shelfVars
=============================================================================
