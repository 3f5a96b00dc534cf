------------------------------- MODULE Catalog -------------------------------
(***************************************************************************)
(* The handlers of internal/httpapi/server.go that write tracks and        *)
(* albums, statement by statement.  PostgreSQL runs them READ COMMITTED:   *)
(* a plain SELECT locks nothing, a write waits for the rows it touches and *)
(* keeps them until its transaction ends, and what a statement found       *)
(* before it had to wait is checked again afterwards.                      *)
(*                                                                         *)
(* A request is one entry of req: the input q, the stage it is at, the     *)
(* values it has read, the rows it has locked and the locks its statement  *)
(* still needs, in the order the executor happens to visit the rows.  The  *)
(* tables tracks and albums hold what is committed; a transaction's writes *)
(* appear in them when it commits.                                         *)
(***************************************************************************)
EXTENDS Shelf, Naturals, Sequences, Functions

CONSTANTS Slots,      \* 1..n: the requests of a behaviour, in order of arrival
          Requests,   \* the inputs they can have
          Keep        \* a JSON field that is absent from the body

UpsertOps == {"import", "createAlbum", "editTrack"}
Ops == UpsertOps \cup {"editAlbum", "deleteAlbum", "deleteUser",
                       "setVisibility", "deleteTrack"}

\* user is the account that deleteUser deletes.
RequestType == [op : Ops, by : Users, user : Users \cup {None},
                track : Tracks \cup {None}, album : Albums \cup {None},
                artist : Artists \cup {Keep}, title : Titles \cup {Keep},
                vis : TrackVis \cup {Keep}]

\* What the handlers refuse before they do anything is left out.
WellFormed(q) ==
    /\ q.op \in {"import", "createAlbum"} => Keep \notin {q.artist, q.title, q.vis}
    /\ q.op \in {"createAlbum", "editAlbum"} => q.vis \in AlbumVis \cup {Keep}
    /\ q.op \in UpsertOps => q.album = None
    /\ q.op \in {"editTrack", "setVisibility", "deleteTrack"} => q.track # None
    /\ q.op \in {"editAlbum", "deleteAlbum"} => q.album # None
    /\ q.op = "setVisibility" => q.vis # Keep
    /\ q.op = "deleteUser" => q.user \in Users

ASSUME CatalogAssumption ==
    /\ Slots \subseteq Nat /\ IsFiniteSet(Slots)
    /\ IsFiniteSet(Tracks) /\ IsFiniteSet(Albums)
    /\ Requests \subseteq RequestType /\ \A q \in Requests : WellFormed(q)
    /\ Keep \notin Artists \cup Titles \cup TrackVis

VARIABLE req
vars == <<tracks, albums, spent, req>>

Ended == {"committed", "refused", "failed"}
Idle == [at |-> "idle", q |-> None, owner |-> None, artist |-> Keep, title |-> Keep,
         vis |-> Keep, album |-> None, held |-> {}, todo |-> <<>>]
Active == {"read", "artist", "album", "key", "count", "scan", "owned", "rows"}

Locks == ({"artist"} \X Artists) \cup ({"album"} \X Albums)
             \cup ({"track"} \X Tracks)

\* The orders in which a statement may visit the rows of S.
Orders(S) == {s \in [1..Cardinality(S) -> S] : Range(s) = S}

TrackLocks(T) == {<<"track", t>> : t \in T}
AlbumLocks(A) == {<<"album", a>> : a \in A}

\* The locks request r waits for at its stage.
Wanted(r) ==
    LET n == req[r] IN
    CASE n.at = "artist" -> {<<"artist", n.artist>>}
      [] n.at = "album" /\ n.q.op \in UpsertOps ->
             AlbumLocks(AlbumsNamed(n.artist, n.title))
      [] n.at = "album" /\ n.q.op \notin UpsertOps ->
             AlbumLocks({n.album} \cap DOMAIN albums)
      [] n.at = "key" -> AlbumLocks(AlbumsNamed(n.artist, n.title) \ {n.album})
      [] n.at \in {"owned", "rows"} /\ n.todo # <<>> -> {Head(n.todo)}
      [] OTHER -> {}

WaitsFor(r) == {s \in Slots \ {r} : req[s].held \cap Wanted(r) # {}}

At(r, stage) == req[r].at = stage /\ WaitsFor(r) = {}

\* Every request of a stuck set waits for another one of the set.
Stuck(S) == S # {} /\ \A r \in S : WaitsFor(r) \cap S # {}
Cycles == {S \in SUBSET Slots : Stuck(S) /\ \A T \in SUBSET S : Stuck(T) => T = S}

\* Mutant: no deferred Rollback.
EndUnreleased(r, outcome) ==
    req' = [req EXCEPT ![r] = [Idle EXCEPT !.at = outcome, !.q = req[r].q,
               !.held = IF outcome = "failed" THEN req[r].held ELSE {}]]

\* The answer is sent, the transaction and its locks are gone.
End(r, outcome) ==
    req' = [req EXCEPT ![r] = [Idle EXCEPT !.at = outcome, !.q = req[r].q]]

-----------------------------------------------------------------------------
(* Before the first write.                                                 *)

Manages(u, rows, x) ==
    u \in Admins \/ (x \in DOMAIN rows /\ rows[x].owner = u)

Allowed(q) ==
    CASE q.op \in {"editTrack", "deleteTrack"} -> Manages(q.by, tracks, q.track)
      [] q.op \in {"editAlbum", "deleteAlbum"} -> Manages(q.by, albums, q.album)
      [] q.op \in {"setVisibility", "deleteUser"} -> q.by \in Admins
      [] OTHER -> TRUE

FirstStage(op) ==
    CASE op \in {"editTrack", "editAlbum"} -> "read"
      [] op \in {"import", "createAlbum"} -> "artist"
      [] op = "deleteAlbum" -> "count"
      [] op = "deleteUser" -> "scan"
      [] OTHER -> "rows"

\* An account is deleted from Keycloak once, before its rows are looked at.
Deleted(u) == \E s \in Slots : /\ req[s].at \notin {"idle", "refused"}
                              /\ req[s].q.op = "deleteUser" /\ req[s].q.user = u

\* The permission is checked on the pool, before the transaction begins.
Begin(r, q) ==
    /\ req[r].at = "idle"
    /\ \A s \in Slots : s < r => req[s].at # "idle"
    /\ req' = [req EXCEPT ![r] =
          [q |-> q, owner |-> q.by, artist |-> q.artist, title |-> q.title,
           vis |-> q.vis, album |-> q.album, held |-> {},
           todo |-> IF q.op \in {"setVisibility", "deleteTrack"}
                    THEN <<<<"track", q.track>>>> ELSE <<>>,
           at |-> IF ~Allowed(q) THEN "refused"
                  ELSE IF q.op = "deleteUser" /\ Deleted(q.user) THEN "failed"
                  ELSE FirstStage(q.op)]]
    /\ UNCHANGED shelfVars

Resolved(given, current) == IF given = Keep THEN current ELSE given

\* Mutant: the track is read FOR UPDATE, against the lost update.
ReadTrackForUpdate(r) ==
    LET q == req[r].q
        row == tracks[q.track] IN
    /\ At(r, "read") /\ q.op = "editTrack" /\ q.track \in DOMAIN tracks
    /\ \A s \in Slots : <<"track", q.track>> \notin req[s].held
    /\ req' = [req EXCEPT ![r].at = "artist", ![r].owner = row.owner,
                  ![r].held = {<<"track", q.track>>},
                  ![r].artist = Resolved(q.artist, row.artist),
                  ![r].title = Resolved(q.title, TitleOf(q.track)),
                  ![r].vis = Resolved(q.vis, row.vis)]
    /\ UNCHANGED shelfVars

ReadTrack(r) ==
    LET q == req[r].q
        row == tracks[q.track] IN
    /\ At(r, "read") /\ q.op = "editTrack"
    /\ IF q.track \notin DOMAIN tracks
       THEN End(r, "failed")
       ELSE req' = [req EXCEPT ![r].at = "artist", ![r].owner = row.owner,
                        ![r].artist = Resolved(q.artist, row.artist),
                        ![r].title = Resolved(q.title, TitleOf(q.track)),
                        ![r].vis = Resolved(q.vis, row.vis)]
    /\ UNCHANGED shelfVars

ReadAlbum(r) ==
    LET q == req[r].q
        row == albums[q.album] IN
    /\ At(r, "read") /\ q.op = "editAlbum"
    /\ IF q.album \notin DOMAIN albums
       THEN End(r, "failed")
       ELSE req' = [req EXCEPT ![r].at = "artist",
                        ![r].artist = Resolved(q.artist, row.artist),
                        ![r].title = Resolved(q.title, row.title),
                        ![r].vis = Resolved(q.vis, row.vis)]
    /\ UNCHANGED shelfVars

\* Run outside the transaction that deletes.
CountTracks(r) ==
    /\ At(r, "count")
    /\ IF Held(req[r].album) = {} THEN req' = [req EXCEPT ![r].at = "album"]
                                 ELSE End(r, "refused")
    /\ UNCHANGED shelfVars

-----------------------------------------------------------------------------
(* The statements that lock.                                               *)

\* ON CONFLICT (name) DO UPDATE holds the artist's row until the end.
UpsertArtist(r) ==
    /\ At(r, "artist")
    /\ req' = [req EXCEPT ![r].at = "album",
                          ![r].held = @ \cup {<<"artist", req[r].artist>>}]
    /\ UNCHANGED shelfVars

FreshAlbums == {a \in Albums \ spent : \A s \in Slots : req[s].album # a}

\* The row with this artist and title, or a new one.  Whoever could insert
\* the same pair holds the artist's row.
AlbumFor(ar, ti) == CHOOSE a \in IF AlbumsNamed(ar, ti) = {} THEN FreshAlbums
                                 ELSE AlbumsNamed(ar, ti) : TRUE

UpsertAlbum(r) ==
    LET a == AlbumFor(req[r].artist, req[r].title) IN
    /\ At(r, "album") /\ req[r].q.op \in UpsertOps
    /\ FreshAlbums # {}
    /\ req' = [req EXCEPT ![r].album = a, ![r].at = "rows",
                  ![r].held = @ \cup {<<"album", a>>},
                  ![r].todo = IF req[r].q.op = "editTrack"
                              THEN <<<<"track", req[r].q.track>>>> ELSE <<>>]
    /\ UNCHANGED shelfVars

\* The row is locked before the unique index is looked at.
UpdateAlbumRow(r) ==
    LET a == req[r].album IN
    /\ At(r, "album") /\ req[r].q.op = "editAlbum"
    /\ req' = [req EXCEPT ![r].at = IF a \in DOMAIN albums THEN "key" ELSE "rows",
                          ![r].held = @ \cup AlbumLocks({a} \cap DOMAIN albums)]
    /\ UNCHANGED shelfVars

\* Mutant: an album that is public already is taken to have public tracks.
CheckAlbumKeyOnce(r) ==
    LET n == req[r]
        hidden == IF albums[n.album].vis = "public" THEN {}
                  ELSE {t \in Held(n.album) : tracks[t].vis # "public"} IN
    /\ At(r, "key")
    /\ IF AlbumsNamed(n.artist, n.title) \subseteq {n.album}
       THEN \E order \in Orders(TrackLocks(IF n.vis = "public" THEN hidden ELSE {})) :
               req' = [req EXCEPT ![r].at = "rows", ![r].todo = order]
       ELSE End(r, "failed")
    /\ UNCHANGED shelfVars

\* A second album with the artist and title aborts the edit; otherwise the
\* tracks that a publication has to change are found.
CheckAlbumKey(r) ==
    LET n == req[r]
        hidden == {t \in Held(n.album) : tracks[t].vis # "public"} IN
    /\ At(r, "key")
    /\ IF AlbumsNamed(n.artist, n.title) \subseteq {n.album}
       THEN \E order \in Orders(TrackLocks(IF n.vis = "public" THEN hidden ELSE {})) :
               req' = [req EXCEPT ![r].at = "rows", ![r].todo = order]
       ELSE End(r, "failed")
    /\ UNCHANGED shelfVars

\* DELETE FROM albums, whose foreign key detaches the tracks.
DeleteAlbumRow(r) ==
    LET a == req[r].album IN
    /\ At(r, "album") /\ req[r].q.op = "deleteAlbum"
    /\ \E order \in Orders(TrackLocks(Held(a))) :
          req' = [req EXCEPT ![r].at = "rows", ![r].todo = order,
                             ![r].held = @ \cup AlbumLocks({a} \cap DOMAIN albums)]
    /\ UNCHANGED shelfVars

\* reassignDeletedUserReferences updates the user's tracks, then the albums.
OwnedBy(u, rows) == {x \in DOMAIN rows : rows[x].owner = u}

ScanTracks(r) ==
    /\ At(r, "scan")
    /\ \E order \in Orders(TrackLocks(OwnedBy(req[r].q.user, tracks))) :
          req' = [req EXCEPT ![r].at = "owned", ![r].todo = order]
    /\ UNCHANGED shelfVars

ScanAlbums(r) ==
    /\ At(r, "owned") /\ req[r].todo = <<>>
    /\ \E order \in Orders(AlbumLocks(OwnedBy(req[r].q.user, albums))) :
          req' = [req EXCEPT ![r].at = "rows", ![r].todo = order]
    /\ UNCHANGED shelfVars

\* A row that was deleted while the statement waited for it is passed over.
LockRow(r) ==
    /\ At(r, "owned") \/ At(r, "rows")
    /\ req[r].todo # <<>>
    /\ req' = [req EXCEPT ![r].todo = Tail(@), ![r].held = @ \cup
                  ({Head(req[r].todo)} \cap
                      (TrackLocks(DOMAIN tracks) \cup AlbumLocks(DOMAIN albums)))]
    /\ UNCHANGED shelfVars

-----------------------------------------------------------------------------
(* The ends of a request: the rows its statements have locked are changed. *)

Locked(r, kind, rows) == {x \in DOMAIN rows : <<kind, x>> \in req[r].held}

Finish(r, op) ==
    /\ At(r, "rows") /\ req[r].todo = <<>> /\ req[r].q.op = op
    /\ End(r, "committed")

\* The albums with the one the upsert of request r found or made.
WithUpsert(r) == LET n == req[r] IN
    Upserted(n.album, n.owner, n.artist, n.title, AlbumVisFor(n.vis))

\* Mutant: the id of the track is not recorded.
CommitImportUnspent(r) ==
    LET n == req[r] IN
    /\ Finish(r, "import")
    /\ albums' = WithUpsert(r)
    /\ \E t \in {CHOOSE t \in Tracks : t \notin spent} :
          tracks' = [x \in DOMAIN tracks \cup {t} |->
                IF x = t THEN [owner |-> n.owner, vis |-> n.vis,
                               artist |-> n.artist, album |-> n.album]
                ELSE tracks[x]]
    /\ UNCHANGED spent

CommitImport(r) ==
    LET n == req[r] IN
    /\ Finish(r, "import")
    /\ albums' = WithUpsert(r)
    /\ Tracks \ spent # {}
    /\ \E t \in {CHOOSE t \in Tracks \ spent : TRUE} :
          /\ tracks' = [x \in DOMAIN tracks \cup {t} |->
                IF x = t THEN [owner |-> n.owner, vis |-> n.vis,
                               artist |-> n.artist, album |-> n.album]
                ELSE tracks[x]]
          /\ spent' = spent \cup {t, n.album}

CommitCreateAlbum(r) ==
    /\ Finish(r, "createAlbum")
    /\ albums' = WithUpsert(r)
    /\ spent' = spent \cup {req[r].album}
    /\ UNCHANGED tracks

\* The UPDATE of a track that is gone by now has locked and changes no row.
CommitEditTrack(r) ==
    LET n == req[r] IN
    /\ Finish(r, "editTrack")
    /\ albums' = WithUpsert(r)
    /\ spent' = spent \cup {n.album}
    /\ tracks' = [t \in DOMAIN tracks |->
          IF t \in {n.q.track} \cap Locked(r, "track", tracks)
          THEN [tracks[t] EXCEPT !.vis = n.vis, !.artist = n.artist, !.album = n.album]
          ELSE tracks[t]]

\* Mutant: the tracks found before the waits are published unchecked.
CommitEditAlbumUnchecked(r) ==
    LET n == req[r]
        edited == {n.album} \cap Locked(r, "album", albums)
        published == Locked(r, "track", tracks) IN
    /\ Finish(r, "editAlbum")
    /\ albums' = [a \in DOMAIN albums |->
          IF a \in edited
          THEN [albums[a] EXCEPT !.artist = n.artist, !.title = n.title, !.vis = n.vis]
          ELSE albums[a]]
    /\ tracks' = [t \in DOMAIN tracks |->
          IF t \in published THEN [tracks[t] EXCEPT !.vis = "public"] ELSE tracks[t]]
    /\ UNCHANGED spent

CommitEditAlbum(r) ==
    LET n == req[r]
        edited == {n.album} \cap Locked(r, "album", albums)
        published == {t \in Locked(r, "track", tracks) :
                         n.vis = "public" /\ tracks[t].album \in edited} IN
    /\ Finish(r, "editAlbum")
    /\ albums' = [a \in DOMAIN albums |->
          IF a \in edited
          THEN [albums[a] EXCEPT !.artist = n.artist, !.title = n.title, !.vis = n.vis]
          ELSE albums[a]]
    /\ tracks' = [t \in DOMAIN tracks |->
          IF t \in published THEN [tracks[t] EXCEPT !.vis = "public"] ELSE tracks[t]]
    /\ UNCHANGED spent

\* Mutant: only the tracks that were counted, none, are detached.
CommitDeleteAlbumCounted(r) ==
    /\ Finish(r, "deleteAlbum")
    /\ albums' = [x \in DOMAIN albums \ {req[r].album} |-> albums[x]]
    /\ UNCHANGED <<tracks, spent>>

CommitDeleteAlbum(r) ==
    LET gone == {req[r].album} \cap Locked(r, "album", albums)
        detached == {t \in Locked(r, "track", tracks) : tracks[t].album \in gone} IN
    /\ Finish(r, "deleteAlbum")
    /\ albums' = [x \in DOMAIN albums \ gone |-> albums[x]]
    /\ tracks' = [t \in DOMAIN tracks |->
          IF t \in detached THEN [tracks[t] EXCEPT !.album = None] ELSE tracks[t]]
    /\ UNCHANGED spent

CommitDeleteUser(r) ==
    LET u == req[r].q.user
        moved(kind, rows) == Locked(r, kind, rows) \cap OwnedBy(u, rows) IN
    /\ Finish(r, "deleteUser")
    /\ tracks' = [t \in DOMAIN tracks |->
          IF t \in moved("track", tracks)
          THEN [tracks[t] EXCEPT !.owner = GhostOf(u)] ELSE tracks[t]]
    /\ albums' = [a \in DOMAIN albums |->
          IF a \in moved("album", albums)
          THEN [albums[a] EXCEPT !.owner = GhostOf(u)] ELSE albums[a]]
    /\ UNCHANGED spent

CommitSetVisibility(r) ==
    /\ Finish(r, "setVisibility")
    /\ tracks' = [t \in DOMAIN tracks |->
          IF t \in {req[r].q.track} \cap Locked(r, "track", tracks)
          THEN [tracks[t] EXCEPT !.vis = req[r].vis] ELSE tracks[t]]
    /\ UNCHANGED <<albums, spent>>

CommitDeleteTrack(r) ==
    /\ Finish(r, "deleteTrack")
    /\ LET gone == {req[r].q.track} \cap Locked(r, "track", tracks) IN
       tracks' = [t \in DOMAIN tracks \ gone |-> tracks[t]]
    /\ UNCHANGED <<albums, spent>>

\* The deferred Rollback: a client that goes away, a failing statement, or
\* PostgreSQL breaking a deadlock.  Ids drawn from the sequence stay drawn.
Rollback(r) ==
    /\ req[r].at \in Active
    /\ End(r, "failed")
    /\ spent' = spent \cup
          (IF req[r].q.op \in UpsertOps THEN {req[r].album} \cap Albums ELSE {})
    /\ UNCHANGED <<tracks, albums>>

-----------------------------------------------------------------------------
Init == ShelfInit /\ req = [r \in Slots |-> Idle]

Step(r) ==
    \/ ReadTrack(r) \/ ReadAlbum(r) \/ CountTracks(r)
    \/ UpsertArtist(r) \/ UpsertAlbum(r) \/ UpdateAlbumRow(r)
    \/ CheckAlbumKey(r) \/ DeleteAlbumRow(r)
    \/ ScanTracks(r) \/ ScanAlbums(r) \/ LockRow(r)
    \/ CommitImport(r) \/ CommitCreateAlbum(r) \/ CommitEditTrack(r)
    \/ CommitEditAlbum(r) \/ CommitDeleteAlbum(r) \/ CommitDeleteUser(r)
    \/ CommitSetVisibility(r) \/ CommitDeleteTrack(r)

Next == \E r \in Slots :
    Step(r) \/ Rollback(r) \/ \E q \in Requests : Begin(r, q)

BreakDeadlock == \E S \in Cycles : \E r \in S : Rollback(r)

\* Some handler that can run does, and PostgreSQL aborts a member of a cycle of
\* waiting transactions after deadlock_timeout.  No request takes steps for
\* ever, so this much is enough for all of them.
Progress == (\E r \in Slots : Step(r)) \/ BreakDeadlock
Fairness == WF_vars(Progress)

Spec == Init /\ [][Next]_vars /\ Fairness
-----------------------------------------------------------------------------
(* Properties.                                                             *)

\* The tables and every request have their shapes.
TypeOK ==
    /\ tracks \in [DOMAIN tracks -> TrackRows] /\ DOMAIN tracks \subseteq Tracks
    /\ albums \in [DOMAIN albums -> AlbumRows] /\ DOMAIN albums \subseteq Albums
    /\ DOMAIN tracks \cup DOMAIN albums \subseteq spent
    /\ spent \subseteq Tracks \cup Albums
    /\ DOMAIN req = Slots
    /\ \A r \in Slots :
          /\ req[r].at \in Active \cup Ended \cup {"idle"}
          /\ req[r].at = "idle" \/ req[r].q \in Requests
          /\ req[r].owner \in Owners \cup {None}
          /\ req[r].album \in Albums \cup {None}
          /\ req[r].held \subseteq Locks
          /\ Range(req[r].todo) \subseteq Locks

\* However imports, edits, moves and deletions overlap, a track never points
\* to an album that is gone, and no artist has two albums of one title
\* (upsertAlbum, manageUpdateAlbum, manageDeleteAlbum).
Shelved ==
    /\ \A t \in DOMAIN tracks : tracks[t].album \in DOMAIN albums \cup {None}
    /\ \A a, b \in DOMAIN albums :
          albums[a].artist = albums[b].artist /\ albums[a].title = albums[b].title
              => a = b

Commits(r) == req[r].at # "committed" /\ req'[r].at = "committed"

\* When the publication of an album commits, every track the album then holds
\* is public, also one that was imported or moved into it meanwhile, unless an
\* administrator has set the visibility of that very track by then
\* (manageUpdateAlbum, "Hierarchy rule").
PublishReachesAll == [][
    \A r \in Slots :
        Commits(r) /\ req[r].q.op = "editAlbum" /\ req[r].vis = "public" =>
            \A t \in DOMAIN tracks' :
                \/ tracks'[t].album # req[r].album
                \/ tracks'[t].vis = "public"
                \/ \E s \in Slots : /\ req[s].at = "committed"
                                    /\ req[s].q.op = "setVisibility"
                                    /\ req[s].q.track = t
    ]_vars

\* A public track leaves public only by a request that names a visibility
\* (manageUpdateTrack keeps the visibility when the body has none).
OnlyAskedHide == [][
    \A r \in Slots : \A t \in DOMAIN tracks \cap DOMAIN tracks' :
        Commits(r) /\ tracks[t].vis = "public" /\ tracks'[t].vis # "public"
            => req[r].q.vis # Keep
    ]_vars

\* The handlers wait for each other in a circle only where they lock in
\* different orders: the deletion of a user takes tracks before albums, two
\* album edits that exchange artist and title wait for each other's row, and the
\* tracks of an album are locked in any order, so that two publications or
\* deletions meet when the tracks of one album were moved to the other.
OnlyKnownDeadlocks ==
    \A S \in Cycles :
        \/ \E r \in S : req[r].q.op = "deleteUser"
        \/ \A r \in S : req[r].at = "key"
        \/ \A r \in S : req[r].at = "rows" /\ req[r].q.op \in {"editAlbum", "deleteAlbum"}

\* The tables change by whole handlers: a commit makes, to the tables as they are by
\* then, the one change of Shelf that its operation stands for, in both tables at
\* once, on the row and with the artist, title and visibility that its body names,
\* whatever was renamed, moved, hidden or deleted between its statements; or it
\* changes nothing, because its row was gone when it came to lock it.  Nothing else
\* changes a table, and a rollback leaves a used up id at most.
\* Not said: that a field which the body leaves out is still what it was (the values
\* a handler has read may be old by then, see OnlyAskedHide); that an album is
\* empty when it is deleted (it was when its tracks were counted; DeleteAlbum
\* detaches those that came since); and which of a deleted user's rows are
\* reassigned (those that the two statements find).
Given(x, S) == IF x = Keep THEN S ELSE {x}

NamedEffect(r, ar, ti, v) ==
    LET q == req[r].q IN
    \/ /\ q.op = "import"
       /\ \E t \in Tracks, a \in Albums : ImportTrack(q.by, t, a, ar, ti, v)
    \/ /\ q.op = "createAlbum"
       /\ \E a \in Albums : CreateAlbum(q.by, a, ar, ti, AlbumVisFor(v))
    \/ /\ q.op = "editTrack"
       /\ \E a \in Albums, u \in Owners :
             IF q.track \in Locked(r, "track", tracks)
             THEN EditTrack(q.track, a, u, ar, ti, v)
             ELSE CreateAlbum(u, a, ar, ti, AlbumVisFor(v))
    \/ /\ q.op = "editAlbum" /\ q.album \in Locked(r, "album", albums)
       /\ \E T \in SUBSET Held(q.album) : EditAlbum(q.album, ar, ti, v, T)

PlainEffect(r) ==
    LET q == req[r].q IN
    \/ q.op = "deleteAlbum" /\ DeleteAlbum(q.album)
    \/ q.op = "setVisibility" /\ SetVisibility(q.track, q.vis)
    \/ q.op = "deleteTrack" /\ DeleteTrack(q.track)
    \/ /\ q.op = "deleteUser"
       /\ \E T \in SUBSET DOMAIN tracks, A \in SUBSET DOMAIN albums : Reassign(q.user, T, A)

RowGone(r) ==
    LET q == req[r].q IN
    /\ \/ q.op \in {"editAlbum", "deleteAlbum"} /\ q.album \notin Locked(r, "album", albums)
       \/ q.op \in {"setVisibility", "deleteTrack"} /\ q.track \notin Locked(r, "track", tracks)
    /\ UNCHANGED shelfVars

WholeEffect(r) ==
    \/ RowGone(r) \/ PlainEffect(r)
    \/ \E ar \in Given(req[r].q.artist, Artists), ti \in Given(req[r].q.title, Titles),
          v \in Given(req[r].q.vis, TrackVis) : NamedEffect(r, ar, ti, v)

ShelfRefined ==
    /\ ShelfInit
    /\ [][IF \E r \in Slots : Commits(r)
          THEN \A r \in Slots : Commits(r) => WholeEffect(r)
          ELSE UNCHANGED shelfVars \/ LoseId]_vars

\* Every request that has begun is answered in the end (the slots are used up
\* once): no lock outlives its transaction and every deadlock is broken.
EveryRequestEnds == <>[](\A r \in Slots : req[r].at \notin Active)
=============================================================================
