------------------------------ MODULE MCLibrary ------------------------------
(***************************************************************************)
(* A creator c, a listener l and an administrator r.  Four kinds of        *)
(* behaviours, told apart by what is used up when they begin: the catalog  *)
(* changes under the readers, a playlist is made and kept, tracks are      *)
(* added to a playlist, tracks are played.                                 *)
(***************************************************************************)
EXTENDS Library, TLC

CONSTANTS c, l, r, t1, t2, t3, a1

MCUsers == {c, l, r}
MCAdmins == {r}
MCTracks == {t1, t2, t3}
MCPairs == {<<l, c>>, <<l, GhostOf(c)>>}
MCAlbums == {a1}
MCFavorites == {<<l, t3>>, <<l, a1>>, <<l, "q">>}
MCArtists == {"x", "y"}
MCTitles == {""}
MCTrackVis == {"private", "unlisted", "followers_only", "public"}
MCPlaylists == {"p", "q"}
MCAdds == {0, 1, 2}
MCStreams == {1, 2}

Row(o) == [owner |-> o, vis |-> "public", artist |-> "x", album |-> None]
UsedUp(S) == [x \in S |-> [at |-> "done", seen |-> {}]]

\* The catalog changes.  t1 and the playlists were deleted before, the adds and
\* streams are over.
Browsing ==
    /\ spent = {t1} /\ tracks = <<>> /\ badges = {c}
    /\ playlists = <<>> /\ entries = [p \in Playlists |-> {}]
    /\ adding = UsedUp(Adds) /\ streaming = UsedUp(Streams) /\ now = MaxNow

\* Playlist q is made; one add is left.
Listing ==
    /\ spent = Tracks \cup Albums /\ tracks = (t3 :> Row(c)) /\ badges = {c}
    /\ playlists = <<>> /\ entries = "p" :> {}
    /\ adding = [UsedUp(Adds) EXCEPT ![1] = [at |-> "idle"]]
    /\ streaming = UsedUp(Streams) /\ now = MaxNow

\* Entry 3 of playlist p has outlived entries 1 and 2, and the tracks and the
\* playlist the accounts of their owners: the administrator adds to it.
Adding ==
    /\ spent = Tracks \cup Albums /\ badges = {}
    /\ tracks = (t1 :> Row(GhostOf(r)) @@ t2 :> Row(GhostOf(r)))
    /\ playlists = "p" :> [owner |-> GhostOf(l), vis |-> "public"]
    /\ entries = ("q" :> {} @@ "p" :> {[track |-> t1, pos |-> 3, via |-> 0, added |-> 3]})
    /\ adding = [x \in Adds |-> IF x = 0 THEN UsedUp(Adds)[0] ELSE [at |-> "idle"]]
    /\ streaming = UsedUp(Streams) /\ now = MaxNow

Playing ==
    /\ spent = Tracks \cup Albums /\ tracks = (t3 :> Row(c)) /\ badges = {c}
    /\ playlists = <<>> /\ entries = [p \in Playlists |-> {}]
    /\ adding = UsedUp(Adds) /\ streaming = [s \in Streams |-> [at |-> "idle"]] /\ now = 0

MCInit ==
    /\ Browsing \/ Listing \/ Adding \/ Playing
    /\ albums = <<>> /\ follows = {} /\ favorites = {} /\ tokens = <<>> /\ plays = {}

MCSpec == MCInit /\ [][Next]_vars
=============================================================================
