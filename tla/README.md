# A verification project for HEXSONIC

TLA+ models of the parts of HEXSONIC whose correctness depends on what several
processes do at the same time, the TLC runs that check them on small instances,
and proofs, checked by TLAPS, of what holds for every instance.

Paths are relative to the repository. `server.go` stands for
`internal/httpapi/server.go`, `subsonic.go` for `internal/httpapi/subsonic.go`,
`service.go` for `internal/jukebox/service.go`, `worker` for `cmd/hexsonic-worker/main.go`.

## Running it

    tlc -workers 2 -config TranscodePipeline_default.cfg MCTranscodePipeline
    tlc -workers 2 -config JukeboxQueue_sessions.cfg MCJukeboxQueue
    tlc -workers 2 -config Catalog_default.cfg MCCatalog
    tlc -workers 2 -config Library_default.cfg MCLibrary
    tlc -workers 2 -config Accounts_default.cfg MCAccounts
    tlapm TranscodePipelineProofs.tla
    tlapm JukeboxQueueProofs.tla
    tlapm JukeboxBoundsProofs.tla
    tlapm JukeboxFeedbackProofs.tla
    tlapm JukeboxOffersProofs.tla
    tlapm CatalogProofs.tla
    tlapm LibraryProofs.tla
    tlapm AccountsProofs.tla

`PROJECT.json` lists the runs with their modules and properties, the mutants that
show that each property can fail, the source lines behind each definition,
the hazards and the theorems.

## The system

HEXSONIC is a self-hosted music service. Three Go programs share one PostgreSQL
database and one storage directory: the API (`cmd/hexsonic-api`), the transcode
worker (`cmd/hexsonic-worker`, any number of instances) and the jukebox service
(`cmd/hexsonic-jukebox`). They do not call each other for the work modelled here:
they interact through rows, row locks, unique constraints, foreign keys and files.
Keycloak keeps the accounts, ffmpeg runs as a child process, and the web client
keeps queues and tokens of its own.

| Component | State | Operations | What is hard | What makes it correct |
|---|---|---|---|---|
| Upload and import (`importSingleTrack`, server.go:3328) | `tracks`, `track_files`, `transcode_jobs`, `originals/` | receive, look up the hash, rename, insert, commit | racing uploads of one content; the rename comes before the commit; aborts and crashes | one live track for each content; a live track has its original |
| Transcode worker (`claimJob`, `processJob`, worker:64-119) | job status, attempts, `derived/<track>/` | claim, four stages, mark | several workers, lost acknowledgements, crashes, deletion of the track meanwhile | exclusive claims, every job taken, done only with whole files |
| Stream resolution (`resolveStreamPath`, server.go:7824; `processDerived`, server.go:8318) | derived files | look for a file, write files | reads while they are being written; two writers | a served file is whole |
| Jukebox service (service.go) | sessions, queue rows, options; listening events | start, next, feedback, get, reset | each request is a series of autocommitted statements and two tabs overlap; rows age out of one query but not out of a constraint | no repeats, a bounded window, a queue that is refilled and honours the feedback |
| Jukebox client (`web/assets/views/jukebox.js`) | a copy of the queue, a position | advance, feedback, refresh | the copy is stale; a feedback answer replaces it | the client plays what the service offers and marks what it played |
| Catalog (server.go:4920-5683, 7884-7910) | artists, albums, tracks, visibility, owners | edit, publish, create and delete albums, hide, reassign | lost updates, lock order, count-then-delete | public albums hold public tracks; private tracks stay hidden |
| Stream tokens and plays (server.go:3443-3587, `internal/security`) | signed URLs, `stream_play_tokens`, `play_events` | sign, stream, record | repeated range requests, expiry | one play for a token |
| Accounts and users (server.go:831-939, 1245-1793, 5879-6218, 6745-7188, 7692-8108) | invites, profiles, aliases; accounts and roles in Keycloak | sign up, invite, rename, change roles, disable, delete | two stores without a common transaction; check-then-act; lost answers | a sign-up works on its own account; a name leads to one profile; nobody loses a role unasked; no account behind a placeholder |
| Playlists (server.go:2782-2973) | playlists, entries with positions | create, update, delete, add, remove | the next position is read before it is written; the list or the track is deleted in between | a list keeps the order of adding; no entry without its rows |
| Social features (server.go:4458-4690, 7239-7319) | follows, favorites, ratings, comments, notifications | toggle, post, read | follows decide who sees followers-only tracks; favorites outlive their owner's account but not their row | a list with a clause on the visibility shows what may be opened; a profile counts the favorites it lists |
| Authentication, token refresh (`internal/auth`, `core/api.js`) | refresh token of the client | verify, refresh | several refreshes of one rotating token | a valid session is not thrown away |
| Migrations (`internal/db/migrate.go`) | `schema_migrations` | apply in order | two processes start together | each migration once |
| Lists of the web API, discovery, OpenSubsonic API (subsonic.go) | none of their own | some twenty queries, each with a WHERE clause of its own | the same rule is written down in many places, and in three lists not at all | where it is, lists, counts and access checks agree |
| Pages, configuration, deployment | none of their own | rendering, settings | - | not modelled |

## Modules

| Module | Contents |
|---|---|
| `JobLifecycle` | what the pipeline promises about one job, without tables, files or processes |
| `TranscodePipeline` | uploads, workers, derived files and streams over the tables they share |
| `MCTranscodePipeline` | symmetry for TLC |
| `TranscodePipelineProofs` | the inductive invariant, the safety theorems, the refinement of `JobLifecycle` |
| `TrackOffers` | what the jukebox promises about a track of a session, without requests, rows or scores |
| `JukeboxQueue` | sessions, queues and requests of the jukebox service; implements `TrackOffers` |
| `MCJukeboxQueue` | genres of the tracks and symmetry for TLC |
| `JukeboxQueueProofs` | the invariant of overlapping requests; no track twice, no mode without its session |
| `JukeboxBoundsProofs` | how many sessions and rows overlapping requests can leave |
| `JukeboxFeedbackProofs` | what a feedback and a refill answer |
| `JukeboxOffersProofs` | the refinement of `TrackOffers` |
| `Shelf` | tracks and albums; the change that the commit of each handler makes to them |
| `Catalog` | the handlers that write tracks and albums, statement by statement with their row locks; implements `Shelf` |
| `MCCatalog` | a small catalog and the requests that meet on it |
| `CatalogProofs` | the invariant of overlapping requests, the refinement of `Shelf`, publications, deadlocks |
| `Library` | `Shelf` with its readers: both APIs' lists, follows, favorites, playlists, stream tokens and plays |
| `MCLibrary` | four kinds of initial states: browsing, listing, adding, playing |
| `LibraryProofs` | types, references, tokens, lists and the order of playlists |
| `Profiles` | display names, aliases and the saves that change them |
| `Accounts` | `Profiles` with invites, sign-ups, Keycloak and the administration of users |
| `MCAccounts` | three kinds of initial states: signing up, editing, renaming |
| `AccountsProofs` | types, names, sign-ups, invites, edits and removals |

`TranscodePipeline` and `JukeboxQueue` stand alone but for the specifications they implement. `Catalog` and `Library` both extend
`Shelf`: `Catalog` shows that requests which overlap statement by statement change the tables
only by whole actions of `Shelf`, and `Library` takes these actions for its writers. `Accounts`
extends `Profiles`. The deletion of a user occurs in `Catalog` (its locks), in `Library`
(what its owner's followers and lists become) and in `Accounts` (the two stores).

Operators whose comment begins with "Mutant:" are no part of the model: each is the definition
that follows it with a plausible bug, and shows that a property can fail.

### TranscodePipeline

A content stands for its blake3 hash and a track for its UUID. The one
`track_files` and `transcode_jobs` row of a track become functions on tracks:
`fileHash`, `job` (the status), `attempts` and `created`. `originals` and `derived`
are the two directories; a derived file is absent, partial, complete, or mixed when
two writers were at it. `upload`, `worker` and `sync` are the program counters of
the requests, the workers and the `processDerived` goroutines.

An upload has a step for each point at which another process can see or change
something: the lookup (`Deduplicate` and `MissHash`), the rename (`MoveOriginal`),
the inserts, which nobody sees but the unique constraint (`InsertRows` with
`HashFree`), and the commit. `AbortUpload` is any error return; it keeps a renamed
original, as the code does. The jobs are ordered by `created_at`, which is the start
of the transaction and not its commit; `Now` gives each transaction the first time
after those in use.

A worker locks the oldest job that is not locked (`LockJob`, `Claimable`: `FOR UPDATE
SKIP LOCKED`), commits (`CommitClaim`), opens and finishes four files, and marks
the job. The marks go by id, so they do nothing when the track has been deleted.
Faults are an unacknowledged commit, a failed claim, a failed mark (main logs it
and goes on), a worker crash and an API crash. `FailStage` is no fault: ffmpeg may
fail on any input, and the deadline of two hours makes a stage that hangs fail.

A failed lookup, an upload that is not audio and a second upload that is refused by the
constraint all end in `AbortUpload`. Artist and album rows, covers and notifications of
an upload are left to `Catalog`, where an import is one of the requests.

### JukeboxQueue

One listener with several sessions. `queue` holds the unplayed rows of a session in
order and `played` the others, so `InSession` is what `UNIQUE(session_id, track_id)`
ranges over. `recent` holds the rows less than an hour old, which is all
`loadRecentConstraints` looks at. A request keeps what the Go code keeps in local
variables: the options it read, the number of rows it needs, the picks it has still
to insert; each step is one statement.

Scores depend on jitter, play counts and listening signals, so the model leaves open
which admitted tracks are picked (`Liked`, `Ranked`, `Picks`), with what the code
guarantees: banned tracks, tracks of another fixed genre, hidden tracks and recent
tracks of the session are never admitted; a limit on tracks or creators never
empties the choice; a Radio session does not drop tracks above the floor. The modes
of the model are those without a seed. `Unsteady` names the tracks that may be hidden
or deleted while requests run.

`Abort` stands for a request that goes no further: its client has gone (the context is
cancelled and every later statement fails), the service stops, or a statement fails. The
code drops the errors of the statements that end stale sessions, mark rows and clear the
queue (service.go:331, 366-374, 416-429) and goes on: that is `IgnoreError`. `left` is history: the
rows a feedback has found in the queue and not cleared.

A feedback may name any track, or none: `trackByID` looks for it among the tracks and not in the
session (`Named`), so a page that is out of date can give feedback on a track that has no row. The
mark then changes nothing, and what remains of the feedback are the options.

`TrackOffers` is what a listener can rely on: in a session a track is out, waits, or has been
heard, and is gone for good in all sessions once it is deleted. `OfferOf` reads this from the
rows: an unplayed row waits, a played one was heard.

### Shelf and Catalog

`tracks` and `albums` are the committed rows; an artist stands for its name and `spent` holds
the ids that have been handed out. Covers, lyrics, genres, track titles and numbers are left out:
no other field depends on them. So are the audit log, the notifications and the
behaviour events a handler writes after its commit.

`Shelf` has one action for each handler. `UpsertTarget` and `Upserted` are `upsertAlbum`
(server.go:7894): the album with that artist and title or a new one, published if the
caller wants it public and never hidden.

`Catalog` splits the handlers. A request (an entry of `req`) has the fields of its JSON body, the
values it has read, the row locks it holds and those its statement still needs. PostgreSQL runs at READ
COMMITTED: `ReadTrack`, `ReadAlbum` and `CountTracks` lock nothing and what they read
may be stale later; `UpsertArtist` locks the artist's row (`ON CONFLICT DO UPDATE`) until the end, which
is why two requests never insert the same album; an `UPDATE` of several rows (`ScanTracks`,
`ScanAlbums`, the publication in `CheckAlbumKey`) finds its rows first, locks them one by one
in any order (`LockRow`), and changes those that still fit once it has them. `Rollback` may end any request: a
client that has gone, an error, or the deadlock detector. `Cycles` are the smallest sets of
requests that wait for each other. Artists are locked before albums and albums before tracks
by everybody but the deletion of a user; within one kind of row there is no order, and that is where
`OnlyKnownDeadlocks` has its other two cases.

What is to be shown of a commit is `WholeEffect`: on the tables as they are by then it makes the
one change of `Shelf` that its operation stands for, on the row and with the artist, title and
visibility that its body names (`Given`), or none if its row had gone when it came to lock it
(`RowGone`). `ShelfRefined` adds that nothing else changes a table. Three things it leaves open, and the code does not
keep them: a field that the body does not name may be old (finding 3), an album is deleted though a track
came in after the count, and the deletion of a user reassigns the rows it has found.

The permission check runs on the pool before the transaction begins (`Begin`), so it is a
step before the others. What a handler refuses without looking at a row (`WellFormed`) never
becomes a request.

### Library

The viewers are the users and `None`, a visitor who is not logged in. A list of tracks, albums or
playlists that the web API or subsonic.go answers with is an operator: the set of rows that its WHERE clause and its
checks in Go leave to a viewer. They are translated one by one although many come to
the same: that they do is what `ListedIsOpen` and `ApisAgree` check. Three have no
clause on the visibility and show private rows to others: the albums of search3
(`SubsonicSearchAlbums`, subsonic.go:1184, with a song count over all tracks, `SubsonicSearchCount`),
favorites (`FavoritesListed`, on the page of a user for whom they let see it), and the top track of a profile
(`TopTracks`). They are no part of `ListedIsOpen`. Not modelled as lists are the queue of the jukebox, a creator's
statistics of their own rows, and the names and titles in the history of feedback and in
the lists of administrators. The LIMIT clauses are left
out, so the sets are what paging through a list would show; the rows of the lists are ids, and
order is modelled for playlists only.

Anybody may make any row a favorite whose id they know (`AddFavorite`). The row goes with its track, album or
playlist, but not with its user; `userPublicProfile` counts without a JOIN.

A writer is one commit of `Shelf` with the cascades of the foreign keys. `addPlaylistTrack`
has two statements: `AddRead` looks for the next position, `AddInsert` inserts, and the foreign
keys refuse what has been deleted in between. `via` and `seen` are history: which call made an
entry, and which calls had been answered when a call read its position.

A token is the pair of its track and the second in which it was signed, since the
signature is a function of these (the format is left out). `StreamTrack` verifies and opens the
file, `MarkPlayed` is the UPDATE of `recordPlayByToken`, which waits while another transaction
has the token marked, `CountPlay` the INSERT, the DELETE of the tokens that expired more than a day
ago (`Keep`) and the commit, `LosePlay` a rollback. The last second
of a token is ambiguous: the signature compares whole seconds and `expires_at` fractions. So is the second
after which it is deleted; `since` is the second in which the transaction began, which is what `now()` says in it.

### Profiles and Accounts

Names are compared without case and outer blanks, as `claimUserProfileAlias` does. A save has
the steps of `upsertRichUserProfile`: the cooldown (on the pool), the look-up of the
alias, its INSERT, which waits for an open transaction with the same alias, and the
commit. `claimUserProfileAlias` does not look at how many rows its INSERT wrote, so a user can
get a name whose alias went to somebody else in between; `outraced` remembers whom
that happened to and is one exception in `NamesResolve`.

The deletion of an account leaves a profile for its placeholder, named "Deleted User" and without an alias
(`RemoveProfile`, server.go:6177), so all placeholders share that name, also with a user who claims it. They
are the other exception: the name leads to one of them.

Keycloak is outside the program and modelled by what the calls rely on: logins are unique,
ids are not used twice, and a call fails, or has its effect and its answer arrives or is lost
(`Answered`). A sign-up is `signup` call by call; `adminUpdateUser` goes through the parts of a
request in the order of the code (`StageNames`) and stops at the first that fails;
`adminDeleteUser` deletes in Keycloak and then reassigns the rows.

`managedRolesForTop` knows no top role `member`; README.md:24 of the repository lists
`member` where the code has `creator`. `Hierarchy` has both, as `isManagedHierarchyRole` has:
a role `member` goes when a top role is set.

## What the runs check

| Run | Properties | What it shows |
|---|---|---|
| `pipeline` | `TypeOK`, `IInv`, `OneTrackPerContent`, `LiveTrackHasOriginal`, `ClaimIsExclusive`, `ClaimedAtMostOnce`, `DoneMeansDerived` | two uploads, two workers, two contents, deletions and one fault of any kind |
| `pipeline_lifecycle` | `ImplementsLifecycle`, `QueuedJobIsTaken`, `EveryJobSettles` | each job follows `JobLifecycle`; a queued job is taken in spite of a fault and of claims that pass over it or come to nothing; without a fault it settles |
| `pipeline_sync` | `DoneMeansPresent` | with `HEXSONIC_ENABLE_DERIVED_SYNC` on: done files exist, though not all of them need be whole |
| `pipeline_stream` (violation) | `StreamIsComplete` | a stream finds a file that is still being written (finding 2) |
| `jukebox_sessions` | `TypeOK`, `WindowBounded`, `SessionsBounded`, `ModeKeepsSession` | starts and refills that race make a few sessions and rows too many, and no more; no two starts end each other's session |
| `jukebox_feedback` | `NeverPlayedTwice`, `ImplementsOffers` | a played track stays out while another request, or another feedback, inserts picks it chose before; each track of a session goes through the offers of `TrackOffers`, whichever errors are dropped |
| `jukebox_lone` | `RefillsWhileFresh`, `FeedbackRebuildsQueue` | a request nobody disturbs fills the queue in the first hour, and after a feedback with what the new options admit, but for the rows it has failed to clear |
| `jukebox_rolling` (violation) | `QueueIsRolling` | the queue runs dry after an hour with tracks left to play (finding 1) |
| `catalog` | `TypeOK`, `Shelved`, `OnlyKnownDeadlocks`, `PublishReachesAll`, `ShelfRefined`, `EveryRequestEnds` | three requests that overlap statement by statement keep the catalog whole and change the tables only by the whole effect of a handler; they deadlock only where lock orders are known to differ, and all end |
| `catalog_publish` (violation) | `OnlyAskedHide` | an edit that names no visibility takes a track of a published album back to private (finding 3) |
| `library` | `TypeOK`, `ListedIsOpen`, `ApisAgree`, `NothingDangles`, `AddOrderKept`, `OncePerToken` | lists with a clause on the visibility, counts and access checks agree in every state of the tables; entries, favorites, tokens and plays find their rows; playlists keep their order; a token counts once |
| `accounts` | `TypeOK`, `NamesResolve`, `SignupOwnsAccount`, `SignedUpIsComplete`, `InviteAdmitsOnce`, `GhostsAreGone`, `AliasNeverMoves`, `ChangesAreAsked` | sign-ups, saves, edits and removals that overlap, fail or lose answers |

### Bounds

* Two contents, tracks, uploads and workers are what it takes for two uploads of one
  content, an upload behind another track's job, and two claims at a time. The
  safety properties are proved for any number; the runs show that they are not
  vacuous and that the invariant has no slip.
* `MaxStamp = 4` is one more than the start times that two tracks and two uploads can
  hold at once besides 0: times are reused once no row or transaction has them, and
  no upload waits for the bound.
* `MaxFaults = 1`: each fault hits one process once. Safety is proved without it.
* The runs about liveness and the sync goroutine have one upload at a time, which
  still makes jobs overlap, deletes tracks and uploads contents again.
* `Window` is 1 or 2 instead of the 6 of the service: the formulas are the same, and
  with two or three tracks a short window leaves tracks to choose from. A session is
  overfilled, drained and refilled at this size.
* Two overlapping requests in the runs on races; in `jukebox_feedback` both may give
  feedback. One request in `jukebox_lone`, because both properties are about a
  request that nobody disturbs.
* The library has fewer tracks than the 600 candidates the query is limited to.

* `catalog` has three requests out of eleven that are chosen to meet: edits that move tracks into
  each other's album, both directions of an exchange of titles, a publication, imports and
  creations of the same album, deletions and a user deletion. Two users and two tracks and albums
  at the start give every pair of requests rows in common; three requests are what a
  publication, a move and a moderation need together. Five track and album ids leave one for each insert.
  Two publications deadlock on tracks only when two tracks have changed albums in between, which
  takes four requests. The run therefore also starts after the first three (`Moved`): one
  publication has found the tracks of its album and the tracks are in the other album by now.
* `library` starts in one of four kinds of states, so that the dimensions do not multiply: with one
  track and one album that come and go in all visibilities, a follow and a favorite (`Browsing`); with a track
  and a playlist that is made, kept and a favorite (`Listing`); with two
  adds to a list from which tracks were removed (`Adding`); and with two requests for the stream
  of one track (`Playing`). `TTL` and `Keep` of one second and a clock of three (`MaxNow`) let a token expire
  and be swept. The lists are functions of
  the rows and the viewer, so one row of each kind shows what they can disagree on; the theorems
  hold for all tables.
* `accounts` likewise: two sign-ups for one login and invite with a removal and a failure at
  each call (`SigningUp`); two requests that change one account, of four that overlap
  in every part (`Editing`); three saves of two names by two users (`Renaming`).

### Fairness

`FairSpec` is weak fairness of `WorkerStep(w)` for each worker: main's loop
(worker:40-61) never ends, a claim is retried after one or two seconds, and a stage
ends because the deadline cancels ffmpeg. Deletions, uploads, aborts and faults are not
fair: nobody need upload, and the properties do not need a fault to come. `Catalog` has one
weak fairness condition, on `Progress`: some request that can run does, since each has a goroutine of its own
and PostgreSQL a time limit after which it aborts a member of a cycle. No request takes steps for
ever, so the condition on all of them together is enough; that arriving
requests could keep others waiting is outside it, as they are finitely many. `Library` and `Accounts`
are safety only: their steps are requests of users, and their runs end when the calls are used
up (`CHECK_DEADLOCK FALSE`), as those of `Catalog` do. The
jukebox has no liveness property: its requests run only when a client sends them.

## What is proved

`TranscodePipelineProofs` proves, for all sets of contents, tracks, uploads and workers
and all bounds:

* `Invariance`: `Spec => []IInv`;
* `TypeCorrect`, `ContentIsUnique`, `OriginalIsKept`, `ClaimsAreExclusive` and
  `ClaimsAreSingle`, which follow from it;
* `DoneIsDerived`, which assumes `~DerivedSync`: with the flag on the property is false;
* `DoneIsPresent`, what remains of it with the flag on or off;
* `PipelineImplementsLifecycle`: every step of the pipeline is a step of
  `JobLifecycle` or a stutter under `PhaseOf`.

The constants are only assumed to be what `ConstantsAssumption` says: the null values are
outside their sets, the flag is a boolean, the bounds are naturals.

None of the properties is inductive. `OneTrackPerContent` speaks of committed rows and
of open inserts; it needs that two open inserts differ in content and in track, and
that their tracks are new (`UploadsSound`). `LiveTrackHasOriginal` needs that an
upload past its rename has its content on disk. `ClaimIsExclusive` and
`ClaimedAtMostOnce` need that a worker which holds a job finds it `processing` or
deleted, and one that claims a job finds it `queued` (`HoldersSound`). `RowsAgree` ties the rows of a track to each
other and to the UUIDs used, so that a deleted track does not come back while a worker
still holds it. `DoneMeansDerived` needs that the stages a worker has passed are complete
and that nobody else writes them (`StagesSound`). `IInv` is the conjunction. `DoneMeansPresent`
does without the last: whoever writes a file, it is there (`FilesStay`), so the stages that a
worker has passed stay present (`StagesPresent`), and only a worker behind the last stage marks a
job done (`DoneOnlyProcessed`). One
lemma for each action shows that it is preserved, and `NextInv` puts them together.

The refinement takes an upload's commit to `Enqueue`, the commit of a claim to `Take`,
the marks to `Settle`, lost acknowledgements and crashes to `Abandon`, a deletion
to `Remove`, and everything else to a stutter. It uses `IInv`: that claims are exclusive
is what makes a job nobody's when its worker lets it go.

The proofs about the jukebox hold for all sets of sessions, finite sets of tracks and requests and every window
under `ConstantsAssumption`:

* `JukeboxTyped`, `NeverOfferedTwice` and `StartsKeepSession` (`JukeboxQueueProofs`). `JukeboxInv`: the
  rows of a deleted track are gone with it (`GoneIsGone`), a session is opened once
  (`OpenedOnce`), what a request has in memory at each stage (`Shaped`), and that a session a
  start has found is active or has a newer active one of its mode (`Succeeded`). The last is
  what keeps two starts from ending each other's sessions.
* `StartsAreBounded` and `WindowsAreBounded` (`JukeboxBoundsProofs`). The active sessions of a mode and the
  requests about to create one are at most as many as the requests. A request that has counted
  the queue may add what it has then found missing in the window; rows and such promises together
  stay within one window for each request.
* `FeedbackRebuilds` and `RadioRefills` (`JukeboxFeedbackProofs`), for a request that is alone (`Alone`):
  what it has read of the queue changes only by deletions (`Steady`), so each pick still left
  has no row that would make its insert do nothing. Until the queue is cleared it holds what the feedback
  has found there (`left`), and after a clear that has failed that and picks which the options admit.
* `JukeboxImplementsOffers` (`JukeboxOffersProofs`). The two marks are `Hear`, of the first tracks or of one, the
  clear is `Withdraw`, the insert of a pick that is new is `Offer`, the deletion of a track is
  `Delete`, and everything else is a stutter. That a heard track does not wait again needs
  `NeverPlayedTwice`, and that a deleted one is out in all sessions at once needs `GoneIsGone`.

`CatalogProofs` proves for all sets of requests, users, tracks and albums, and any finite number of
requests at a time, assuming `ShelfAssumption` and `CatalogAssumption`:

* `CatalogTyped` and `CatalogShelved`, from the invariant `CatalogInv`: the tables are whole
  (`ShelfHolds`), no lock has two owners (`LocksAreExclusive`), and of each request what its stage and
  values are (`StageHolds`, `ValuesHold`), in which order it locks (`OrderHolds`) and what its
  locks keep true of the tables (`TablesHold`): that an album it is about to use is still the one
  with that artist and title, that a name the unique index let pass is still free, that
  every track of the album it deletes or publishes is locked, still to be locked, or needs no
  change. The argument that one request leaves the others what they rely on is made once
  (`OthersHold`), from two facts shown for each action: it changes only rows it has
  locked (`Isolated`) and takes only locks that are free (`Grabs`).
* `CatalogImplementsShelf`, the property `ShelfRefined`. `InputsInv` says that a request keeps the values its body
  names up to the commit; `TablesHold` says that the rows it writes are as it takes them to be. So each commit is the action of
  `Shelf` with these values (one lemma for each operation, `ImportMaps` to `DeleteTrackMaps`, and
  `CommitIsWhole`), and every other step changes at most the ids that are used up (`PrivateKeeps`,
  `RollbackMaps`). `CatalogStepsAreShelfs` is the weaker fact that each step is one of `ShelfNext`,
  on which the writers of `Library` rest.
* `PublicationReachesAll`: a track in the album at the commit was there when the publication looked, and is
  locked and published, or has come since, for which its request needed the lock of the album.
* `DeadlocksAreKnown`: everybody in a smallest circle is waited for. Without the deletion of a user,
  one that waits for a track holds up others that wait for tracks only, and then all do; if none does,
  nobody waits for an artist or for the first album, and all are in the unique index.

`LibraryProofs` proves for all sets of users, tracks, albums, playlists and calls, assuming
`ShelfAssumption` and `LibraryAssumption`:

* `LibraryTyped`, table by table (`ShelfTyped`, `SocialTyped`, `ListsTyped`, `PlaysTyped`). The rows of
  `Shelf` are typed for each commit on its own. The time at which an entry was added is one more than the
  last, so `ListsTyped` says that any of the rows have a last one (`HasLast`), as `OrderInv` does of
  positions. For sets that grow from nothing row by row this is the same as being finite; an induction over
  finite sets is out of the provers' reach.
* `TokensCountOnce`. The invariant `PlaysInv` says that the token of a request with an open
  transaction is there and not played, that no two such requests have one token, and that the token of a
  counted play is played or has been deleted for good: it was signed in a second that is over, so it will not be signed again (`UsedUp`).
  A deletion of the track waits for the open transactions and takes tokens and plays together.
* `ReferencesFindTheirRows`, from `PlaysInv` and `ReferencesHold`, which says of each kind of
  row what it refers to; the albums of tracks need that an upsert returns an album that is there. Of a play it is
  the track that is there, and not the token, which may have been swept.
* `ListsShowWhatOpens`, of the lists that have a clause, and `TheApisAgree`, which hold in every state whose rows have ids of the
  model (`IdsHold`): a statement about the WHERE clauses and not about steps.
* `PlaylistsKeepTheirOrder`. `OrderInv` ties each entry to the call that made it, has each list
  know its highest position (`HasLast`), and says that an add that has read its position is beyond all calls it has seen.

`AccountsProofs` proves under `ProfilesAssumption` and `AccountsAssumption`:

* `AliasesAreForGood` and `NamesLeadToOneProfile`. `NamesInv`: what an open save has read
  still holds, since aliases never move; one that has inserted its alias is alone with it; a user who bears a name
  of which somebody else has the alias is in `outraced`; and placeholders have no name but "Deleted User" (`PlaceholdersNamed`).
* `NoAccountBehindGhost` and `SignupsWorkOnTheirOwn`. `AccountsInv`: ids of Keycloak are not
  given out twice, so an account once gone stays gone; a removal past its Keycloak call
  has no account; a login belongs to one account, so a sign-up that finds another than its own has
  lost its own.
* `AccountsTyped`. `TypeInv` says of each call what its stage has read. Of an edit it says that the
  request asks for the part it has come to (`Wants`), and that each role still to be removed is unwanted by
  the request (`Unwanted`), although what a user has was read one call to Keycloak earlier.
* `OnlyAskedChanges`, from `Unwanted`: each step is shown to change an account only as
  `AccountChanges` says.
* `SignupsAreComplete`. `WorkInv`: an account past the password call has a password, one past the role call has
  the role unless a request of an administrator names the user; a request once begun keeps its
  fields (`EditsKept`), so what was untouched at the end has been untouched all along.
* `InvitesAdmitOnce`. `InvitesInv`: a sign-up that began after another was done cannot have passed
  the check with the same invite, unless a third has used up the invite for the same user.

Every invariant and every action property of the passing runs is stated by one of these theorems. Model-checked
only are the liveness properties `QueuedJobIsTaken` and `EveryJobSettles` of the pipeline and
`EveryRequestEnds` of `Catalog`: they rest on fairness, whose `ENABLED` the provers do not expand. What the violated
properties say is false, and the runs show it.

## Findings

1. **The jukebox queue can run dry with tracks left** (`jukebox_rolling`,
   service.go:1026). Rows older than an hour are left out of `SessionTrackID`, so tracks
   the session has had are picked again; `ensureQueue` picks only as many as it needs, and
   `ON CONFLICT DO NOTHING` drops those that already have a row. The page says "Queue is rolling. More tracks will be added
   automatically." (`web/assets/views/jukebox.js:177`).
2. **A derived file is served while it is being written** (`pipeline_stream`,
   server.go:7850). The fallback to the original is taken only "if derived file does not
   exist yet" (server.go:7859), and ffmpeg creates the file at its start. A file
   left by a failed stage is served for good.

3. **A publication is undone by an edit that does not mention visibility** (`catalog_publish`,
   server.go:4991). `manageUpdateTrack` reads the visibility without a lock and writes it back
   with the other fields, so an edit of the title that overlaps the publication of the album makes
   the track private again, against the "Hierarchy rule: public album implies all contained
   tracks become public." (server.go:5405).

What the models show besides, without a text that says otherwise: a job whose worker
dies stays `processing` for ever (`JobLifecycle`, `abandoned`; nothing reads
`locked_at`); two starts that overlap both create a session, and overlapping refills make
the queue longer than the window; two sign-ups that were let in at the same time can share
an invite; a sign-up that fails after Keycloak has made the account leaves one that blocks
its login; when the clean-up after a deletion in Keycloak fails, a retry fails too, and the
rows keep their owner for good; the deletion of a user can deadlock with edits, and
PostgreSQL ends one of them; a change of address can enable an account that was disabled meanwhile; a
ban is lost when another feedback or a reset writes the options it had read before, and a feedback
can answer with the old queue when the statement that clears it has failed; search3 lists the titles of
private albums and counts hidden tracks, favorites and the top track of a profile name private rows (their
songs do not open); the deleted users share one display name, which resolves to any of them.

## Not modelled

* The web client: the jukebox page's copy of the queue and the refresh of tokens by several
  calls at once are state of a browser page.
* Migrations: a loop at the start, disturbed only by processes that start together the
  first time.
* Ratings and comments: single statements, on whose averages and lists no other operation depends;
  notifications: rows written after a commit, best effort. Oldest-first claims are modelled (`Claimable`), but that they keep an old job
  from waiting behind a stream of new ones is not shown: the models have two tracks and no such stream.
* Rendering, covers, lyrics, genres, names and rankings; token verification (a library);
  configuration and deployment.

## Plan

Done: the pipeline, the jukebox service, the catalog, playlists, stream tokens and plays, the
lists of both APIs, accounts and names, with proofs of their safety properties. Left, in this order:

1. `JukeboxClient`: the page's copy of the queue over `JukeboxQueue`; that the rows marked
   played are the tracks played, and that a queue of "public tracks" is one.
2. `TokenRefresh` and `Migrations`: small modules.
3. Pure algorithms over bounded inputs: `genreMatchStrength` (service.go:778),
   `diversifyTracks` (service.go:1235) against the cap its test names.
