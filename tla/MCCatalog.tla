------------------------------ MODULE MCCatalog ------------------------------
(***************************************************************************)
(* A small catalog: two albums and two tracks of one uploader, an          *)
(* administrator, and the requests that can meet on those rows.            *)
(***************************************************************************)
EXTENDS Catalog, TLC

CONSTANTS uploader, root

MCUsers == {uploader, root}
MCAdmins == {root}
MCTracks == {"t1", "t2", "t3", "t4", "t5"}
MCAlbums == {"a1", "a2", "a3", "a4", "a5"}
MCArtists == {"x", "y"}
MCTitles == {"", "t1"}
MCTrackVis == {"private", "public"}

R(op, by, x, ar, ti, v) ==
    [op |-> op, by |-> by, artist |-> ar, title |-> ti, vis |-> v,
     user |-> IF op = "deleteUser" THEN x ELSE None,
     track |-> IF op \in {"editTrack", "setVisibility", "deleteTrack"} THEN x ELSE None,
     album |-> IF op \in {"editAlbum", "deleteAlbum"} THEN x ELSE None]

Republish == R("editAlbum", uploader, "a2", "x", Keep, "public")

MCRequests == {
    R("editTrack", uploader, "t1", Keep, Keep, Keep),
    R("editTrack", root, "t2", "y", Keep, "private"),
    R("editAlbum", uploader, "a1", Keep, Keep, "public"),
    R("editAlbum", uploader, "a1", "y", Keep, Keep),
    Republish,
    R("createAlbum", root, None, "y", "", "public"),
    R("import", uploader, None, "x", "t1", "private"),
    R("deleteAlbum", uploader, "a2", Keep, Keep, Keep),
    R("deleteUser", root, uploader, Keep, Keep, Keep),
    R("setVisibility", root, "t1", Keep, Keep, "private"),
    R("deleteTrack", uploader, "t1", Keep, Keep, Keep)}

Row(ar, ti, v) == [owner |-> uploader, vis |-> v, artist |-> ar, title |-> ti]
In(ar, a, v) == [owner |-> uploader, vis |-> v, artist |-> ar, album |-> a]

\* Album 1 with both tracks, all private; album 2 public and empty.
Quiet ==
    /\ albums = ("a1" :> Row("x", "t1", "private") @@ "a2" :> Row("y", "t1", "public"))
    /\ tracks = ("t1" :> In("x", "a1", "private") @@ "t2" :> In("x", "a1", "private"))
    /\ Init

\* Album 2 is being published; it had both tracks when the publication looked
\* for them, and they have been moved to album 1 before it has locked any.
Moved ==
    /\ albums = ("a1" :> Row("y", "t1", "private") @@ "a2" :> Row("x", "", "private"))
    /\ tracks = ("t1" :> In("y", "a1", "private") @@ "t2" :> In("y", "a1", "private"))
    /\ req = [r \in Slots |-> IF r # 1 THEN Idle ELSE
                 [at |-> "rows", q |-> Republish, owner |-> uploader, artist |-> "x",
                  title |-> "", vis |-> "public", album |-> "a2",
                  held |-> {<<"artist", "x">>, <<"album", "a2">>},
                  todo |-> <<<<"track", "t1">>, <<"track", "t2">>>>]]

MCInit == spent = {"a1", "a2", "t1", "t2"} /\ (Quiet \/ Moved)

MCSpec == MCInit /\ [][Next]_vars /\ Fairness
=============================================================================
