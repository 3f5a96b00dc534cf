---------------------------- MODULE JukeboxQueue ----------------------------
(***************************************************************************)
(* The jukebox service (internal/jukebox/service.go): the sessions of one  *)
(* listener, their rolling queues, and the Start, Next and Feedback        *)
(* requests.  A request is a series of autocommitted statements, so the    *)
(* requests of two tabs, or of a page and its popout, interleave between   *)
(* any two of them.                                                        *)
(*                                                                         *)
(* Scores contain random jitter, listening signals and play counts: which  *)
(* of the admitted candidates are picked is left open.  The library holds  *)
(* no more than the 600 candidates the service looks at.                   *)
(***************************************************************************)
EXTENDS Integers, Sequences, FiniteSets, SequencesExt

CONSTANTS
    Tracks,
    Unsteady,       \* those that may be hidden or deleted
    Sessions,       \* UUIDs that may be drawn
    Requests,       \* concurrent requests of the listener
    Feedbacks,      \* the actions of a feedback they may choose
    Modes,          \* for_you, radio and try_me
    Radio,          \* the mode that plays the whole library by its charts
    Popular,        \* tracks whose score is above the floor in Radio
    NoTrack, NoSession, NoMode,
    Genre,          \* the genre of each track
    NoGenre,        \* an empty FixedGenre
    Window          \* jukeboxTargetQueueSize

ASSUME ConstantsAssumption ==
    /\ IsFiniteSet(Tracks) /\ IsFiniteSet(Requests)
    /\ Unsteady \subseteq Tracks
    /\ Feedbacks \subseteq {"skip", "less_like_this", "stay_in_genre",
                            "more_like_this"}
    /\ NoTrack \notin Tracks
    /\ NoSession \notin Sessions
    /\ NoMode \notin Modes
    /\ Radio \in Modes
    /\ Popular \subseteq Tracks
    /\ NoGenre \notin {Genre[t] : t \in Tracks}
    /\ Window \in Nat \ {0}

VARIABLES
    visibility, \* of each track: "public", "private" or "deleted"
    status,     \* jukebox_sessions.status, "none" without row
    mode,       \* jukebox_sessions.mode
    options,    \* jukebox_sessions.options_json: what it excludes for good
    opened,     \* the sessions in the order of their created_at
    queue,      \* the unplayed jukebox_session_tracks rows, in order
    played,     \* the played ones
    recent,     \* the rows less than an hour old
    request     \* the requests in progress

rows == <<queue, played, recent>>
vars == <<visibility, status, mode, options, opened, rows, request>>

Genres == {Genre[t] : t \in Tracks}
NoOptions == [banned |-> {}, muted |-> FALSE, fixed |-> NoGenre]
Options == [banned : SUBSET Tracks, muted : BOOLEAN, fixed : Genres \cup {NoGenre}]
InSession(s) == Range(queue[s]) \cup played[s]

\* The statement a request executes next, the session it works on, the
\* options it has in memory and the arguments it still needs; of a feedback
\* also what the queue held when it came and has not been cleared of (left).
IdleRequest == [pc |-> "idle", session |-> NoSession, mode |-> NoMode,
                options |-> NoOptions, track |-> NoTrack,
                feedback |-> FALSE, left |-> {}, count |-> 0, picks |-> <<>>]

Steps == {"idle", "create", "endStale", "mark", "save", "markTrack", "clear",
          "count", "pick", "insert", "reply"}

TypeOK ==
    /\ visibility \in [Tracks -> {"public", "private", "deleted"}]
    /\ status \in [Sessions -> {"none", "active", "ended"}]
    /\ mode \in [Sessions -> Modes \cup {NoMode}]
    /\ options \in [Sessions -> Options]
    /\ opened \in Seq(Sessions)
    /\ queue \in [Sessions -> Seq(Tracks)]
    /\ played \in [Sessions -> SUBSET Tracks]
    /\ recent \in [Sessions -> SUBSET Tracks]
    /\ request \in [Requests ->
          [pc : Steps, session : Sessions \cup {NoSession},
           mode : Modes \cup {NoMode}, options : Options,
           track : Tracks \cup {NoTrack}, feedback : BOOLEAN,
           left : SUBSET Tracks, count : 0..Window, picks : Seq(Tracks)]]

Init ==
    /\ visibility = [t \in Tracks |-> "public"]
    /\ status = [s \in Sessions |-> "none"]
    /\ mode = [s \in Sessions |-> NoMode]
    /\ options = [s \in Sessions |-> NoOptions]
    /\ opened = <<>>
    /\ queue = [s \in Sessions |-> <<>>]
    /\ played = [s \in Sessions |-> {}]
    /\ recent = [s \in Sessions |-> {}]
    /\ request = [r \in Requests |-> IdleRequest]

Goto(r, pc) == request' = [request EXCEPT ![r].pc = pc]
Answering(r) == [IdleRequest EXCEPT !.pc = "reply", !.session = request[r].session]

-----------------------------------------------------------------------------
(* StartSession                                                            *)

ActiveOf(m) == {s \in Sessions : status[s] = "active" /\ mode[s] = m}

\* The session of S created last.
NewestOf(S) == opened[CHOOSE i \in DOMAIN opened :
                        /\ opened[i] \in S
                        /\ \A j \in DOMAIN opened : opened[j] \in S => j <= i]

\* Mutant: no session is ever found.
FindNothing(r, m) ==
    /\ request[r].pc = "idle"
    /\ request' = [request EXCEPT ![r] =
           [IdleRequest EXCEPT !.pc = "create", !.mode = m]]
    /\ UNCHANGED <<visibility, status, mode, options, opened, rows>>

\* findReusableSession: the newest active session of the mode is taken over
\* and the others are stale; without one a session will be created.
FindReusable(r, m) ==
    LET found  == ActiveOf(m)
        newest == NewestOf(found)
    IN  /\ request[r].pc = "idle"
        /\ \/ /\ found = {}
              /\ request' = [request EXCEPT ![r] =
                     [IdleRequest EXCEPT !.pc = "create", !.mode = m]]
           \/ /\ found # {}
              /\ request' = [request EXCEPT ![r] =
                     [IdleRequest EXCEPT !.pc = "endStale", !.mode = m,
                                         !.session = newest,
                                         !.options = options[newest]]]
        /\ UNCHANGED <<visibility, status, mode, options, opened, rows>>

\* Mutant: every other session of the mode.
StaleOthers(m, kept) == ActiveOf(m) \ {kept}

\* The sessions of the mode that the query listed behind the newest one.
Stale(m, kept) ==
    {s \in ActiveOf(m) : \E i, j \in DOMAIN opened :
                            opened[i] = s /\ opened[j] = kept /\ i < j}

EndStale(r) ==
    LET stale == Stale(request[r].mode, request[r].session) IN
    /\ request[r].pc = "endStale"
    /\ status' = [s \in Sessions |-> IF s \in stale THEN "ended" ELSE status[s]]
    /\ Goto(r, "count")
    /\ UNCHANGED <<visibility, mode, options, opened, rows>>

CreateSession(r, s) ==
    /\ request[r].pc = "create"
    /\ status[s] = "none"
    /\ status' = [status EXCEPT ![s] = "active"]
    /\ mode' = [mode EXCEPT ![s] = request[r].mode]
    /\ opened' = Append(opened, s)
    /\ request' = [request EXCEPT ![r].pc = "count", ![r].session = s]
    /\ UNCHANGED <<visibility, options, rows>>

-----------------------------------------------------------------------------
(* Next                                                                    *)

\* loadSession finds only sessions that have not ended.
Loadable(s) == status[s] = "active"

\* The session is loaded for a client that is done with n tracks.
LoadForNext(r, s, n) ==
    /\ request[r].pc = "idle"
    /\ Loadable(s)
    /\ request' = [request EXCEPT ![r] =
           [IdleRequest EXCEPT !.pc = IF n = 0 THEN "count" ELSE "mark",
                               !.session = s, !.options = options[s],
                               !.count = n]]
    /\ UNCHANGED <<visibility, status, mode, options, opened, rows>>

\* The first n unplayed rows become played.
MarkFirst(r) ==
    LET s == request[r].session
        q == queue[s]
        n == IF request[r].count <= Len(q) THEN request[r].count ELSE Len(q)
    IN  /\ request[r].pc = "mark"
        /\ queue' = [queue EXCEPT ![s] = SubSeq(q, n + 1, Len(q))]
        /\ played' = [played EXCEPT ![s] = @ \cup {q[i] : i \in 1..n}]
        /\ Goto(r, "count")
        /\ UNCHANGED <<visibility, status, mode, options, opened, recent>>

-----------------------------------------------------------------------------
(* Feedback                                                                *)

\* applyFeedbackToOptions, for a track or none.  more_like_this stands for
\* surprise_me too: they raise scores and exclude nothing.
Applied(o, t, action) ==
    IF t = NoTrack THEN o
    ELSE CASE action = "skip"           -> [o EXCEPT !.banned = @ \cup {t}]
           [] action = "less_like_this" -> [o EXCEPT !.banned = @ \cup {t}, !.muted = TRUE]
           [] action = "stay_in_genre"  -> [o EXCEPT !.fixed = Genre[t]]
           [] action = "more_like_this" -> o

\* trackByID finds a track whether the session has it or not; a client may
\* also name none.
Named == {t \in Tracks : visibility[t] # "deleted"} \cup {NoTrack}

\* loadSession, trackByID and what the action makes of the options.
LoadForFeedback(r, s, t, action) ==
    /\ request[r].pc = "idle"
    /\ Loadable(s)
    /\ t \in Named
    /\ request' = [request EXCEPT ![r] =
           [IdleRequest EXCEPT !.pc = "save", !.session = s, !.track = t,
                               !.options = Applied(options[s], t, action),
                               !.feedback = TRUE, !.left = Range(queue[s])]]
    /\ UNCHANGED <<visibility, status, mode, options, opened, rows>>

\* options_json is written back as a whole.
SaveOptions(r) ==
    /\ request[r].pc = "save"
    /\ options' = [options EXCEPT ![request[r].session] = request[r].options]
    /\ Goto(r, IF request[r].track = NoTrack THEN "clear" ELSE "markTrack")
    /\ UNCHANGED <<visibility, status, mode, opened, rows>>

\* Whatever the action, the track counts as played, if it has a row.
MarkTrack(r) ==
    LET s == request[r].session
        t == request[r].track
    IN  /\ request[r].pc = "markTrack"
        /\ queue' = [queue EXCEPT ![s] = RemoveFirst(@, t)]
        /\ played' = [played EXCEPT ![s] =
               IF t \in Range(queue[s]) THEN @ \cup {t} ELSE @]
        /\ Goto(r, "clear")
        /\ UNCHANGED <<visibility, status, mode, options, opened, recent>>

\* Mutant: the played rows are dropped instead of the others.
ClearPlayed(r) ==
    LET s == request[r].session IN
    /\ request[r].pc = "clear"
    /\ played' = [played EXCEPT ![s] = {}]
    /\ recent' = [recent EXCEPT ![s] = @ \cap Range(queue[s])]
    /\ request' = [request EXCEPT ![r].pc = "count", ![r].left = {}]
    /\ UNCHANGED <<visibility, status, mode, options, opened, queue>>

\* The rest of the queue is dropped, to be rebuilt with the new options.
ClearUnplayed(r) ==
    LET s == request[r].session IN
    /\ request[r].pc = "clear"
    /\ queue' = [queue EXCEPT ![s] = <<>>]
    /\ recent' = [recent EXCEPT ![s] = @ \ Range(queue[s])]
    /\ request' = [request EXCEPT ![r].pc = "count", ![r].left = {}]
    /\ UNCHANGED <<visibility, status, mode, options, opened, played>>

\* The errors of the statements that end stale sessions, mark rows and clear
\* the queue are dropped: the request goes on as if they had been executed.
Unheeded == [endStale |-> "count", mark |-> "count", markTrack |-> "clear",
             clear |-> "count"]

IgnoreError(r) ==
    /\ request[r].pc \in DOMAIN Unheeded
    /\ Goto(r, Unheeded[request[r].pc])
    /\ UNCHANGED <<visibility, status, mode, options, opened, rows>>

-----------------------------------------------------------------------------
(* ensureQueue                                                             *)

\* Mutant: the rows that exist are not set off.
CountFromZero(r) ==
    /\ request[r].pc = "count"
    /\ request' = [request EXCEPT ![r].pc = "pick", ![r].count = Window]
    /\ UNCHANGED <<visibility, status, mode, options, opened, rows>>

\* Mutant: a queue that is long enough is not left alone.
CountUnguarded(r) ==
    /\ request[r].pc = "count"
    /\ request' = [request EXCEPT ![r].pc = "pick",
           ![r].count = Window - Len(queue[request[r].session])]
    /\ UNCHANGED <<visibility, status, mode, options, opened, rows>>

CountUnplayed(r) ==
    LET n == Len(queue[request[r].session]) IN
    /\ request[r].pc = "count"
    /\ request' = [request EXCEPT ![r] =
           IF n >= Window THEN Answering(r)
           ELSE [@ EXCEPT !.pc = "pick", !.count = Window - n]]
    /\ UNCHANGED <<visibility, status, mode, options, opened, rows>>

\* loadCandidates: all public tracks, whatever the genre or the creator.
Candidates == {t \in Tracks : visibility[t] = "public"}

\* Mutant: the tracks of the session are not left out.
AdmittedRepeats(s, o) ==
    {t \in Candidates : /\ t \notin o.banned
                        /\ o.fixed \in {NoGenre, Genre[t]}}

\* scoreCandidate knows nothing of rows that are more than an hour old.
Admitted(s, o) ==
    {t \in Candidates : /\ t \notin recent[s]
                        /\ t \notin o.banned
                        /\ o.fixed \in {NoGenre, Genre[t]}}

\* filterCandidatesForMode and the floor of the score leave out any tracks,
\* but in an unmuted Radio session not the popular ones.
Liked(m, o) ==
    {K \in SUBSET Tracks : m = Radio /\ ~o.muted => Popular \subseteq K}

\* rankCandidates: the tracks at an hourly limit, theirs or their creator's,
\* are passed over unless there are no others.
Ranked(candidates, limited) ==
    IF candidates \ limited # {} THEN candidates \ limited ELSE candidates

\* diversifyTracks picks as many as are needed, if there are as many.
Picks(ranked, needed) ==
    LET n == IF needed <= Cardinality(ranked) THEN needed ELSE Cardinality(ranked)
    IN  {p \in [1..n -> ranked] : IsInjective(p)}

ChoosePicks(r) ==
    LET s == request[r].session
        o == request[r].options
    IN  /\ request[r].pc = "pick"
        /\ \E K \in Liked(mode[s], o), limited \in SUBSET Tracks :
             \E p \in Picks(Ranked(Admitted(s, o) \cap K, limited), request[r].count) :
                request' = [request EXCEPT ![r] =
                    IF p = <<>> THEN Answering(r)
                    ELSE [@ EXCEPT !.pc = "insert", !.picks = p, !.count = 0]]
        /\ UNCHANGED <<visibility, status, mode, options, opened, rows>>

\* Mutant: a track has one unplayed row in a session.
IsNewUnplayed(s, t) == visibility[t] # "deleted" /\ t \notin Range(queue[s])

\* Mutant: nothing keeps the row of a deleted track out.
IsNewUnreferenced(s, t) == t \notin InSession(s)

\* UNIQUE(session_id, track_id): a track has one row in a session.
IsNew(s, t) == visibility[t] # "deleted" /\ t \notin InSession(s)

\* INSERT ... ON CONFLICT DO NOTHING.  The insert of a deleted track fails,
\* and with it the request.
InsertPick(r) ==
    LET s == request[r].session
        t == Head(request[r].picks)
        rest == Tail(request[r].picks)
    IN  /\ request[r].pc = "insert"
        /\ queue' = [queue EXCEPT ![s] = IF IsNew(s, t) THEN Append(@, t) ELSE @]
        /\ recent' = [recent EXCEPT ![s] = IF IsNew(s, t) THEN @ \cup {t} ELSE @]
        /\ request' = [request EXCEPT ![r] =
               CASE visibility[t] = "deleted" -> IdleRequest
                 [] visibility[t] # "deleted" /\ rest = <<>> -> Answering(r)
                 [] OTHER -> [@ EXCEPT !.picks = rest]]
        /\ UNCHANGED <<visibility, status, mode, options, opened, played>>

\* snapshot reads the first Window rows of the queue and answers.
Reply(r) ==
    /\ request[r].pc = "reply"
    /\ request' = [request EXCEPT ![r] = IdleRequest]
    /\ UNCHANGED <<visibility, status, mode, options, opened, rows>>

\* The client goes away, the service stops or one of the statements fails whose
\* error is the answer.
Abort(r) ==
    /\ request[r].pc \notin {"idle", "reply"}
    /\ request' = [request EXCEPT ![r] = IdleRequest]
    /\ UNCHANGED <<visibility, status, mode, options, opened, rows>>

-----------------------------------------------------------------------------
(* What happens around the service                                         *)

\* meJukeboxReset of the API: one UPDATE clears the options.
ResetOptions ==
    /\ options' = [s \in Sessions |->
                      IF status[s] = "active" THEN NoOptions ELSE options[s]]
    /\ UNCHANGED <<visibility, status, mode, opened, rows, request>>

\* An hour has gone by since the row was created.
RowAges(s, t) ==
    /\ t \in recent[s]
    /\ recent' = [recent EXCEPT ![s] = @ \ {t}]
    /\ UNCHANGED <<visibility, status, mode, options, opened, queue, played,
                   request>>

\* Its owner or an admin hides a track or makes it public again.
SetVisibility(t, v) ==
    /\ visibility[t] \notin {v, "deleted"}
    /\ visibility' = [visibility EXCEPT ![t] = v]
    /\ UNCHANGED <<status, mode, options, opened, rows, request>>

\* The rows of a deleted track go with it.
DeleteTrack(t) ==
    /\ visibility[t] # "deleted"
    /\ visibility' = [visibility EXCEPT ![t] = "deleted"]
    /\ queue' = [s \in Sessions |-> RemoveFirst(queue[s], t)]
    /\ played' = [s \in Sessions |-> played[s] \ {t}]
    /\ recent' = [s \in Sessions |-> recent[s] \ {t}]
    /\ UNCHANGED <<status, mode, options, opened, request>>

-----------------------------------------------------------------------------
RequestStep(r) ==
    \/ \E m \in Modes : FindReusable(r, m)
    \/ EndStale(r)
    \/ \E s \in Sessions : CreateSession(r, s)
    \/ \E s \in Sessions, n \in 0..Window : LoadForNext(r, s, n)
    \/ MarkFirst(r)
    \/ \E s \in Sessions, t \in Tracks \cup {NoTrack}, action \in Feedbacks :
          LoadForFeedback(r, s, t, action)
    \/ SaveOptions(r)
    \/ MarkTrack(r)
    \/ ClearUnplayed(r)
    \/ IgnoreError(r)
    \/ CountUnplayed(r)
    \/ ChoosePicks(r)
    \/ InsertPick(r)
    \/ Reply(r)
    \/ Abort(r)

Next ==
    \/ \E r \in Requests : RequestStep(r)
    \/ ResetOptions
    \/ \E s \in Sessions, t \in Tracks : RowAges(s, t)
    \/ \E t \in Unsteady, v \in {"public", "private"} : SetVisibility(t, v)
    \/ \E t \in Unsteady : DeleteTrack(t)

Spec == Init /\ [][Next]_vars

-----------------------------------------------------------------------------
(* Properties                                                              *)

\* A track is offered once in a session: it is in the queue once, and not
\* when it has been played, whatever the requests were doing in between.
NeverPlayedTwice ==
    \A s \in Sessions : /\ IsInjective(queue[s])
                        /\ Range(queue[s]) \cap played[s] = {}

\* Each request that found the queue short fills it up on its own account:
\* the rolling window is exceeded, but no further than by one window for
\* each other request in progress.
WindowBounded ==
    \A s \in Sessions : Len(queue[s]) <= Window * Cardinality(Requests)

\* Starts that race leave at most one active session for each of them.
SessionsBounded ==
    \A m \in Modes : Cardinality(ActiveOf(m)) <= Cardinality(Requests)

\* Starts that retire stale sessions never retire each other's: a mode with
\* an active session keeps one.
ModeKeepsSession ==
    [][\A m \in Modes : ActiveOf(m) # {} => ActiveOf(m)' # {}]_vars

\* The step with which a request is done with the queue, and what it could
\* still have put there in a Radio session.
Filled(r) == request[r].pc # "reply" /\ request'[r].pc = "reply"
Playable(r) ==
    LET s == request[r].session
        o == request[r].options
    IN  {t \in Admitted(s, o) \cap Popular :
            mode[s] = Radio /\ ~o.muted /\ t \notin InSession(s)}
Refills(r) == Playable(r) # {} => queue'[request[r].session] # <<>>
IsFresh(s) == InSession(s) \subseteq recent[s]

\* A request of a Radio session answers with an empty queue only if nothing
\* is left to play, in the first hour of the session.
RefillsWhileFresh ==
    [][\A r \in Requests :
          Filled(r) /\ IsFresh(request[r].session) => Refills(r)]_vars

\* The same at any time: an empty queue is said to be filled up
\* automatically.
QueueIsRolling == [][\A r \in Requests : Filled(r) => Refills(r)]_vars

\* After a feedback, with no other request about, the queue holds only tracks
\* the new options admit, and those the feedback has failed to clear it of.
FeedbackRebuildsQueue ==
    [][\A r \in Requests :
          Filled(r) /\ request[r].feedback =>
            \A t \in Range(queue'[request[r].session]) :
                \/ t \in request[r].left
                \/ /\ t \notin request[r].options.banned
                   /\ request[r].options.fixed \in {NoGenre, Genre[t]}]_vars

-----------------------------------------------------------------------------
(* Refinement of TrackOffers                                               *)

OfferOf(s, t) ==
    CASE t \in Range(queue[s]) -> "waiting"
      [] t \in played[s] \ Range(queue[s]) -> "heard"
      [] OTHER -> "out"

Offers == INSTANCE TrackOffers WITH
    offer <- [s \in Sessions |-> [t \in Tracks |-> OfferOf(s, t)]],
    gone <- {t \in Tracks : visibility[t] = "deleted"}

\* Each track of a session goes through the offers of TrackOffers: whatever
\* the requests do in between, a track that was heard does not wait again,
\* and one that is deleted is never offered again.
ImplementsOffers == Offers!Spec
=============================================================================
