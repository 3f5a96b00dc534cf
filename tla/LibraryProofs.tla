---------------------------- MODULE LibraryProofs ----------------------------
(***************************************************************************)
(* Proofs about Library: a stream token counts once, nothing refers to a   *)
(* row that has been deleted, the lists agree with the access checks, a    *)
(* playlist keeps the order of adding, and all rows keep their types.      *)
(***************************************************************************)
EXTENDS Library, TLAPS

HasFields(F, record) == F \subseteq DOMAIN record

-----------------------------------------------------------------------------
(* What calls on playlists, on streams, and on follows and favorites leave *)
(* alone.                                                                  *)

LEMMA ListFrame == ListNext => KeepOthers
BY DEF ListNext, CreatePlaylist, UpdatePlaylist, DeletePlaylist, RemovePlaylistTrack, AddRead,
       AddInsert

LEMMA PlayFrame == PlayNext => KeepRest
BY DEF PlayNext, Tick, SignStream, StreamTrack, MarkPlayed, CountPlay, LosePlay

LEMMA SocialFrame == SocialNext => UNCHANGED <<shelfVars, listVars, playVars>>
BY DEF SocialNext, FollowUser, UnfollowUser, AddFavorite, RemoveFavorite, KeepAllElse

-----------------------------------------------------------------------------
(* Plays.                                                                  *)

\* A token that no later request can be counted with: it is marked, or it was
\* swept some time after the second in which it was signed.
UsedUp(k) == IF k \in DOMAIN tokens THEN tokens[k] = TRUE ELSE k[2] \in 0 .. (now - 1)

\* The token of an open transaction is not yet played, that of a counted one is
\* used up.
StreamHolds(s) ==
    /\ HasFields({"at"}, streaming[s])
    /\ streaming[s].at # "idle" => HasFields({"token"}, streaming[s])
    /\ streaming[s].at \in {"mark", "count"} =>
          HasFields({"since"}, streaming[s]) /\ streaming[s].since \in 0 .. now
    /\ streaming[s].at = "count" =>
          streaming[s].token \in DOMAIN tokens /\ tokens[streaming[s].token] = FALSE
    /\ s \in plays => streaming[s].at = "done" /\ UsedUp(streaming[s].token)

OneMarking ==
    \A s, r \in Streams :
        /\ streaming[s].at = "count" /\ streaming[r].at = "count"
        /\ streaming[s].token = streaming[r].token
        => s = r

PlaysTyped ==
    /\ now \in 0 .. MaxNow
    /\ DOMAIN tokens \subseteq Tracks \X (0 .. MaxNow)
    /\ \A s \in Streams : streaming[s].at \in {"idle", "mark", "count", "done"}

PlaysInv ==
    /\ PlaysTyped
    /\ DOMAIN streaming = Streams /\ plays \subseteq Streams
    /\ tokens \in [DOMAIN tokens -> BOOLEAN]
    /\ \A s \in Streams : StreamHolds(s)
    /\ OneMarking /\ OncePerToken

\* The steps of Next as far as plays are concerned.
PlayStep ==
    \/ UNCHANGED <<now, tokens, streaming, plays>>
    \/ Tick
    \/ \E t : RemoveTrack(t)
    \/ \E v : \E t \in Tracks : SignStream(v, t)
    \/ \E s \in Streams :
          \/ MarkPlayed(s) \/ CountPlay(s) \/ LosePlay(s)
          \/ \E k : StreamTrack(s, k)

LEMMA NextIsPlayStep == [Next]_vars => PlayStep
<1> SUFFICES ASSUME [Next]_vars PROVE PlayStep
  OBVIOUS
<1>1. CASE UNCHANGED vars
  BY <1>1 DEF vars, PlayStep
<1>2. CASE CatalogNext
  BY <1>2 DEF CatalogNext, Upload, RemoveUser, ManageTrack, Moderate, ManageAlbum, RemoveAlbum,
     CatalogOnly, libraryVars, playVars, PlayStep
<1>3. CASE SocialNext
  BY <1>3, SocialFrame DEF playVars, PlayStep
<1>4. CASE ListNext
  BY <1>4, ListFrame DEF KeepOthers, playVars, PlayStep
<1>5. CASE PlayNext
  BY <1>5 DEF PlayNext, Tick, PlayStep
<1> QED
  BY <1>1, <1>2, <1>3, <1>4, <1>5 DEF Next

\* A step of request s that leaves tokens and plays alone.
LEMMA OneStreamStep ==
    ASSUME PlaysInv, UNCHANGED <<now, tokens, plays>>, NEW s \in Streams,
           NEW n, streaming' = [streaming EXCEPT ![s] = n],
           s \notin plays, HasFields({"at", "token"}, n), n.at \in {"mark", "count", "done"},
           n.at \in {"mark", "count"} => HasFields({"since"}, n) /\ n.since \in 0 .. now,
           n.at = "count" =>
               /\ n.token \in DOMAIN tokens /\ tokens[n.token] = FALSE
               /\ \A r \in Streams : streaming[r].at = "count" => streaming[r].token # n.token
    PROVE  PlaysInv'
<1>0. /\ DOMAIN streaming' = Streams /\ streaming'[s] = n
      /\ \A r \in Streams \ {s} : streaming'[r] = streaming[r]
  BY DEF PlaysInv
<1>1. ASSUME NEW r \in Streams \ {s} PROVE StreamHolds(r)'
  <2>1. StreamHolds(r) /\ streaming'[r] = streaming[r]
    BY <1>0 DEF PlaysInv
  <2> QED
    BY <2>1 DEF StreamHolds, UsedUp
<1>2. StreamHolds(s)'
  BY <1>0 DEF StreamHolds, HasFields
<1>3. OneMarking'
  BY <1>0 DEF PlaysInv, OneMarking
<1>4. OncePerToken'
  BY <1>0 DEF PlaysInv, OncePerToken
<1>5. PlaysTyped'
  BY <1>0 DEF PlaysInv, PlaysTyped
<1> QED
  BY <1>0, <1>1, <1>2, <1>3, <1>4, <1>5 DEF PlaysInv

\* A request that ends without a count.
LEMMA FinishedStep ==
    ASSUME PlaysInv, UNCHANGED <<now, tokens, plays>>, NEW s \in Streams,
           streaming[s].at \in {"mark", "count"}, streaming' = Finished(s)
    PROVE  PlaysInv'
<1> DEFINE n == [at |-> "done", token |-> streaming[s].token]
<1>1. streaming' = [streaming EXCEPT ![s] = n]
  BY DEF Finished
<1>2. s \notin plays
  BY DEF PlaysInv, StreamHolds
<1>3. HasFields({"at", "token"}, n) /\ n.at = "done"
  BY DEF HasFields
<1> HIDE DEF n
<1> QED
  BY <1>1, <1>2, <1>3, OneStreamStep

LEMMA CountStep ==
    ASSUME PlaysInv, NEW s \in Streams, CountPlay(s)
    PROVE  PlaysInv'
<1> DEFINE k == streaming[s].token
           b == streaming[s].since
<1>1. /\ streaming[s].at = "count" /\ StreamHolds(s) /\ now' = now
      /\ plays' = plays \cup {s}
      /\ streaming' = [streaming EXCEPT ![s] = [at |-> "done", token |-> k]]
  BY DEF CountPlay, PlaysInv, Finished
<1>2. PICK old \in SUBSET {x \in DOMAIN tokens : MayBeOld(x, b)} :
          /\ \A x \in old : Marking(x) = {}
          /\ tokens' = [x \in DOMAIN tokens \ old |-> tokens[x] \/ x = k]
  BY DEF CountPlay
<1>3. /\ streaming'[s].at = "done" /\ streaming'[s].token = k
      /\ HasFields({"at", "token"}, streaming'[s]) /\ DOMAIN streaming' = Streams
      /\ \A r \in Streams \ {s} : streaming'[r] = streaming[r]
  BY <1>1 DEF PlaysInv, HasFields
<1>4. k \in DOMAIN tokens /\ tokens[k] = FALSE /\ b \in 0 .. now
  BY <1>1 DEF StreamHolds
<1>5. \A r \in Streams : streaming[r].at = "count" => streaming[r].token \notin old
  BY <1>2 DEF Marking
<1>6. k \notin old
  BY <1>1, <1>5
<1>7. /\ \A x \in DOMAIN tokens : tokens[x] \in BOOLEAN
      /\ now \in Nat /\ \A x \in DOMAIN tokens : x[2] \in Nat
  BY LibraryAssumption DEF PlaysInv, PlaysTyped
<1> HIDE DEF k, b
<1>8. /\ DOMAIN tokens' = DOMAIN tokens \ old /\ tokens'[k] = TRUE
      /\ \A x \in DOMAIN tokens' \ {k} : tokens'[x] = tokens[x]
      /\ tokens' \in [DOMAIN tokens' -> BOOLEAN]
  <2>1. \A x \in DOMAIN tokens \ old : (tokens[x] \/ x = k) \in BOOLEAN
    OBVIOUS
  <2>2. tokens' \in [DOMAIN tokens' -> BOOLEAN] /\ DOMAIN tokens' = DOMAIN tokens \ old
    BY <1>2, <2>1
  <2>3. tokens'[k] = TRUE
    BY <1>2, <1>4, <1>6
  <2>4. ASSUME NEW x \in DOMAIN tokens', x # k PROVE tokens'[x] = tokens[x]
    <3>1. tokens'[x] = (tokens[x] \/ x = k)
      BY <1>2, <2>2
    <3> QED
      BY <1>7, <2>2, <2>4, <3>1
  <2> QED
    BY <2>2, <2>3, <2>4
<1>9. ASSUME NEW x \in old PROVE x \in DOMAIN tokens /\ x[2] \in 0 .. (now - 1)
  <2>1. TTL \in Nat /\ TTL > 0 /\ Keep \in Nat /\ b \in Nat /\ b <= now
    BY <1>4, <1>7, LibraryAssumption
  <2>2. x \in DOMAIN tokens /\ b >= x[2] + TTL + Keep
    BY <1>2 DEF MayBeOld
  <2>3. x[2] \in Nat
    BY <1>7, <2>2
  <2> QED
    BY <1>7, <2>1, <2>2, <2>3
<1>10. StreamHolds(s)'
  BY <1>1, <1>3, <1>4, <1>6, <1>8 DEF StreamHolds, HasFields, UsedUp
<1>11. ASSUME NEW r \in Streams \ {s} PROVE StreamHolds(r)'
  <2>1. StreamHolds(r) /\ streaming'[r] = streaming[r] /\ (r \in plays' => r \in plays)
    BY <1>1, <1>3 DEF PlaysInv
  <2>2. streaming[r].at = "count" => streaming[r].token # k /\ streaming[r].token \notin old
    BY <1>1, <1>5 DEF PlaysInv, OneMarking, k
  <2>3. r \in plays => UsedUp(streaming[r].token)'
    BY <1>1, <1>8, <1>9, <2>1 DEF StreamHolds, UsedUp
  <2>4. streaming[r].at = "count" =>
            /\ streaming[r].token \in DOMAIN tokens'
            /\ tokens'[streaming[r].token] = FALSE
    BY <1>8, <2>1, <2>2 DEF StreamHolds
  <2> QED
    BY <1>1, <2>1, <2>3, <2>4 DEF StreamHolds, UsedUp
<1>12. OneMarking'
  <2> SUFFICES ASSUME NEW q \in Streams, NEW r \in Streams,
                      streaming'[q].at = "count", streaming'[r].at = "count",
                      streaming'[q].token = streaming'[r].token
               PROVE  q = r
    BY DEF OneMarking
  <2>1. q # s /\ r # s
    BY <1>3
  <2>2. streaming'[q] = streaming[q] /\ streaming'[r] = streaming[r]
    BY <1>3, <2>1
  <2> QED
    BY <2>2 DEF PlaysInv, OneMarking
<1>13. ASSUME NEW r \in plays
       PROVE  r \in Streams \ {s} /\ streaming'[r] = streaming[r] /\ streaming[r].token # k
  BY <1>1, <1>3, <1>4 DEF PlaysInv, StreamHolds, UsedUp
<1>14. OncePerToken'
  <2> SUFFICES ASSUME NEW q \in plays', NEW r \in plays',
                      streaming'[q].token = streaming'[r].token
               PROVE  q = r
    BY DEF OncePerToken
  <2>1. CASE q \in plays /\ r \in plays
    <3>1. streaming[q].token = streaming[r].token
      BY <1>13, <2>1
    <3> QED
      BY <2>1, <3>1 DEF PlaysInv, OncePerToken
  <2>2. CASE q = s /\ r \in plays
    BY <1>3, <1>13, <2>2
  <2>3. CASE r = s /\ q \in plays
    BY <1>3, <1>13, <2>3
  <2> QED
    BY <1>1, <2>1, <2>2, <2>3
<1>15. PlaysTyped'
  BY <1>1, <1>3, <1>8 DEF PlaysInv, PlaysTyped
<1> QED
  BY <1>1, <1>3, <1>8, <1>10, <1>11, <1>12, <1>14, <1>15 DEF PlaysInv

LEMMA PlaysInvStep == PlaysInv /\ PlayStep => PlaysInv'
<1> SUFFICES ASSUME PlaysInv, PlayStep PROVE PlaysInv'
  OBVIOUS
<1>1. CASE UNCHANGED <<now, tokens, streaming, plays>>
  BY <1>1 DEF PlaysInv, PlaysTyped, StreamHolds, UsedUp, OneMarking, OncePerToken
<1>2. ASSUME NEW t, RemoveTrack(t) PROVE PlaysInv'
  <2>1. /\ DOMAIN tokens' = {k \in DOMAIN tokens : k[1] # t}
        /\ \A k \in DOMAIN tokens' : tokens'[k] = tokens[k]
        /\ plays' = {s \in plays : streaming[s].token[1] # t}
        /\ streaming' = streaming /\ now' = now
    BY <1>2 DEF RemoveTrack
  <2>2. \A k \in DOMAIN tokens : k[1] = t => Marking(k) = {}
    BY <1>2 DEF RemoveTrack
  <2>3. ASSUME NEW s \in Streams PROVE StreamHolds(s)'
    <3>1. StreamHolds(s)
      BY DEF PlaysInv
    <3>2. streaming[s].at = "count" => streaming[s].token[1] # t
      BY <2>2, <3>1 DEF StreamHolds, Marking
    <3>3. s \in plays' => UsedUp(streaming[s].token)'
      BY <2>1, <3>1 DEF StreamHolds, UsedUp
    <3> QED
      BY <2>1, <3>1, <3>2, <3>3 DEF StreamHolds, UsedUp
  <2>4. tokens' \in [DOMAIN tokens' -> BOOLEAN]
    BY <1>2, <2>1 DEF RemoveTrack, PlaysInv
  <2> QED
    BY <2>1, <2>3, <2>4 DEF PlaysInv, PlaysTyped, OneMarking, OncePerToken
<1>3. ASSUME NEW v, NEW t \in Tracks, SignStream(v, t) PROVE PlaysInv'
  <2> DEFINE signed == <<t, now>>
  <2>1. /\ tokens' = [k \in DOMAIN tokens \cup {signed} |-> k \in DOMAIN tokens /\ tokens[k]]
        /\ streaming' = streaming /\ plays' = plays /\ now' = now
    BY <1>3 DEF SignStream
  <2>2. signed[2] \notin 0 .. (now - 1) /\ signed \in Tracks \X (0 .. MaxNow)
    BY LibraryAssumption DEF PlaysInv, PlaysTyped
  <2> HIDE DEF signed
  <2>3. \A k \in DOMAIN tokens : tokens[k] \in BOOLEAN
    BY DEF PlaysInv
  <2>4. \A k \in DOMAIN tokens : k \in DOMAIN tokens' /\ tokens'[k] = tokens[k]
    BY <2>1, <2>3
  <2>5. tokens' \in [DOMAIN tokens' -> BOOLEAN] /\ DOMAIN tokens' = DOMAIN tokens \cup {signed}
    BY <2>1
  <2>6. ASSUME NEW s \in Streams PROVE StreamHolds(s)'
    <3>1. StreamHolds(s)
      BY DEF PlaysInv
    <3>2. s \in plays => UsedUp(streaming[s].token)'
      BY <2>1, <2>2, <2>4, <2>5, <3>1 DEF StreamHolds, UsedUp
    <3> QED
      BY <2>1, <2>4, <3>1, <3>2 DEF StreamHolds, UsedUp
  <2> QED
    BY <2>1, <2>2, <2>5, <2>6 DEF PlaysInv, PlaysTyped, OneMarking, OncePerToken
<1>4. ASSUME NEW s \in Streams, NEW k, StreamTrack(s, k) PROVE PlaysInv'
  <2> DEFINE n == [at |-> "mark", token |-> k, since |-> now]
  <2>1. /\ UNCHANGED <<now, tokens, plays>> /\ streaming[s].at = "idle"
        /\ streaming' = [streaming EXCEPT ![s] = n]
    BY <1>4 DEF StreamTrack
  <2>2. s \notin plays
    BY <2>1 DEF PlaysInv, StreamHolds
  <2>3. HasFields({"at", "token", "since"}, n) /\ n.at = "mark" /\ n.since \in 0 .. now
    BY LibraryAssumption DEF HasFields, PlaysInv, PlaysTyped
  <2> HIDE DEF n
  <2> QED
    BY <2>1, <2>2, <2>3, OneStreamStep DEF HasFields
<1>5. ASSUME NEW s \in Streams, MarkPlayed(s) PROVE PlaysInv'
  <2> DEFINE k == streaming[s].token
  <2>1. UNCHANGED <<now, tokens, plays>> /\ streaming[s].at = "mark" /\ Marking(k) = {}
    BY <1>5 DEF MarkPlayed
  <2>2. PICK b \in streaming[s].since .. now :
            \/ k \in DOMAIN tokens /\ ~tokens[k] /\ streaming' = Marked(s, b)
            \/ streaming' = Finished(s)
    BY <1>5 DEF MarkPlayed
  <2>3. CASE streaming' = Finished(s)
    BY <2>1, <2>3, FinishedStep
  <2>4. CASE k \in DOMAIN tokens /\ ~tokens[k] /\ streaming' = Marked(s, b)
    <3> DEFINE n == [at |-> "count", token |-> k, since |-> b]
    <3>1. streaming' = [streaming EXCEPT ![s] = n]
      BY <2>4 DEF Marked
    <3>2. s \notin plays /\ streaming[s].since \in 0 .. now
      BY <2>1 DEF PlaysInv, StreamHolds
    <3>3. HasFields({"at", "token", "since"}, n) /\ n.at = "count" /\ n.token = k /\ n.since = b
      BY DEF HasFields
    <3>4. b \in 0 .. now
      BY <3>2, LibraryAssumption DEF PlaysInv, PlaysTyped
    <3>5. tokens[k] = FALSE
      BY <2>4 DEF PlaysInv
    <3>6. \A r \in Streams : streaming[r].at = "count" => streaming[r].token # k
      BY <2>1 DEF Marking
    <3> HIDE DEF n, k
    <3> QED
      BY <2>1, <2>4, <3>1, <3>2, <3>3, <3>4, <3>5, <3>6, OneStreamStep DEF HasFields
  <2> QED
    BY <2>2, <2>3, <2>4
<1>6. ASSUME NEW s \in Streams, LosePlay(s) PROVE PlaysInv'
  BY <1>6, FinishedStep DEF LosePlay
<1>7. CASE Tick
  <2>1. UNCHANGED <<tokens, streaming, plays>> /\ now' = now + 1 /\ now' \in 0 .. MaxNow
    BY <1>7, LibraryAssumption DEF Tick, PlaysInv, PlaysTyped
  <2>2. now \in Nat /\ \A k \in DOMAIN tokens : k[2] \in Nat
    BY LibraryAssumption DEF PlaysInv, PlaysTyped
  <2>3. ASSUME NEW s \in Streams PROVE StreamHolds(s)'
    <3>1. StreamHolds(s)
      BY DEF PlaysInv
    <3>2. streaming[s].at \in {"mark", "count"} => streaming[s].since \in 0 .. now'
      BY <2>1, <2>2, <3>1 DEF StreamHolds
    <3>3. ASSUME NEW k, UsedUp(k) PROVE UsedUp(k)'
      <4>1. CASE k \in DOMAIN tokens
        BY <2>1, <3>3, <4>1 DEF UsedUp
      <4>2. CASE k \notin DOMAIN tokens
        <5>1. k[2] \in 0 .. (now - 1)
          BY <3>3, <4>2 DEF UsedUp
        <5> QED
          BY <2>1, <2>2, <4>2, <5>1 DEF UsedUp
      <4> QED
        BY <4>1, <4>2
    <3> QED
      BY <2>1, <3>1, <3>2, <3>3 DEF StreamHolds
  <2> QED
    BY <2>1, <2>3 DEF PlaysInv, PlaysTyped, OneMarking, OncePerToken
<1> QED
  BY <1>1, <1>2, <1>3, <1>4, <1>5, <1>6, <1>7, CountStep DEF PlayStep

LEMMA PlaysInvariant == Spec => []PlaysInv
<1>1. Init => PlaysInv
  BY LibraryAssumption DEF Init, PlaysInv, PlaysTyped, StreamHolds, HasFields, OneMarking,
     OncePerToken
<1>2. PlaysInv /\ [Next]_vars => PlaysInv'
  BY NextIsPlayStep, PlaysInvStep
<1> QED
  BY <1>1, <1>2, PTL DEF Spec

\* However many requests a player sends with a token, for any number of them, and
\* whatever is deleted, rolled back or signed again meanwhile, one is counted.
THEOREM TokensCountOnce == Spec => []OncePerToken
<1>1. PlaysInv => OncePerToken
  BY DEF PlaysInv
<1> QED
  BY PlaysInvariant, <1>1, PTL

-----------------------------------------------------------------------------
(* References.                                                             *)

RowHolds(t) ==
    /\ HasFields({"owner", "vis", "artist", "album"}, tracks[t])
    /\ tracks[t].album \in DOMAIN albums \cup {None}

RowsHold == \A t \in DOMAIN tracks : RowHolds(t)

LEMMA ShelfRows ==
    ASSUME RowsHold
    PROVE  /\ \A u, t, a, ar, ti, v : ImportTrack(u, t, a, ar, ti, v) => RowsHold'
           /\ \A u, t, a, ar, ti, v : EditTrack(t, a, u, ar, ti, v) => RowsHold'
           /\ \A a, ar, ti, v, T : EditAlbum(a, ar, ti, v, T) => RowsHold'
           /\ \A a : DeleteAlbum(a) => RowsHold'
           /\ \A t, v : SetVisibility(t, v) => RowsHold'
           /\ \A t : DeleteTrack(t) => RowsHold'
           /\ \A u, T, A : Reassign(u, T, A) => RowsHold'
<1>1. ASSUME NEW u, NEW t, NEW a, NEW ar, NEW ti, NEW v, ImportTrack(u, t, a, ar, ti, v)
      PROVE  RowsHold'
  <2>1. DOMAIN albums' = DOMAIN albums \cup {a}
    BY <1>1 DEF ImportTrack, Upserted
  <2>2. /\ DOMAIN tracks' = DOMAIN tracks \cup {t}
        /\ tracks'[t] = [owner |-> u, vis |-> v, artist |-> ar, album |-> a]
        /\ \A x \in DOMAIN tracks \ {t} : tracks'[x] = tracks[x]
    BY <1>1 DEF ImportTrack
  <2>3. RowHolds(t)'
    BY <2>1, <2>2 DEF RowHolds, HasFields
  <2>4. ASSUME NEW x \in DOMAIN tracks \ {t} PROVE RowHolds(x)'
    BY <2>1, <2>2 DEF RowsHold, RowHolds
  <2> QED
    BY <2>2, <2>3, <2>4 DEF RowsHold
<1>2. ASSUME NEW u, NEW t, NEW a, NEW ar, NEW ti, NEW v, EditTrack(t, a, u, ar, ti, v)
      PROVE  RowsHold'
  <2>1. DOMAIN albums' = DOMAIN albums \cup {a}
    BY <1>2 DEF EditTrack, Upserted
  <2>2. /\ DOMAIN tracks' = DOMAIN tracks /\ t \in DOMAIN tracks
        /\ tracks'[t] = [tracks[t] EXCEPT !.vis = v, !.artist = ar, !.album = a]
        /\ \A x \in DOMAIN tracks \ {t} : tracks'[x] = tracks[x]
    BY <1>2 DEF EditTrack
  <2>3. RowHolds(t)'
    BY <2>1, <2>2 DEF RowsHold, RowHolds, HasFields
  <2>4. ASSUME NEW x \in DOMAIN tracks \ {t} PROVE RowHolds(x)'
    BY <2>1, <2>2 DEF RowsHold, RowHolds
  <2> QED
    BY <2>2, <2>3, <2>4 DEF RowsHold
<1>3. ASSUME NEW a, NEW ar, NEW ti, NEW v, NEW T, EditAlbum(a, ar, ti, v, T) PROVE RowsHold'
  <2>1. DOMAIN albums' = DOMAIN albums /\ DOMAIN tracks' = DOMAIN tracks
    BY <1>3 DEF EditAlbum
  <2>2. ASSUME NEW t \in DOMAIN tracks PROVE RowHolds(t)'
    <3>1. tracks'[t] = tracks[t] \/ tracks'[t] = [tracks[t] EXCEPT !.vis = "public"]
      BY <1>3 DEF EditAlbum
    <3> QED
      BY <2>1, <3>1 DEF RowsHold, RowHolds, HasFields
  <2> QED
    BY <2>1, <2>2 DEF RowsHold
<1>4. ASSUME NEW a, DeleteAlbum(a) PROVE RowsHold'
  <2>1. DOMAIN albums' = DOMAIN albums \ {a} /\ DOMAIN tracks' = DOMAIN tracks
    BY <1>4 DEF DeleteAlbum
  <2>2. ASSUME NEW t \in DOMAIN tracks PROVE RowHolds(t)'
    <3>1. CASE t \in Held(a)
      <4>1. tracks'[t] = [tracks[t] EXCEPT !.album = None]
        BY <1>4, <3>1 DEF DeleteAlbum
      <4> QED
        BY <4>1 DEF RowsHold, RowHolds, HasFields
    <3>2. CASE t \notin Held(a)
      <4>1. tracks'[t] = tracks[t] /\ tracks[t].album # a
        BY <1>4, <3>2 DEF DeleteAlbum, Held
      <4> QED
        BY <2>1, <4>1 DEF RowsHold, RowHolds
    <3> QED
      BY <3>1, <3>2
  <2> QED
    BY <2>1, <2>2 DEF RowsHold
<1>5. ASSUME NEW t, NEW v, SetVisibility(t, v) PROVE RowsHold'
  BY <1>5 DEF SetVisibility, RowsHold, RowHolds, HasFields
<1>6. ASSUME NEW t, DeleteTrack(t) PROVE RowsHold'
  BY <1>6 DEF DeleteTrack, RowsHold, RowHolds
<1>7. ASSUME NEW u, NEW T, NEW A, Reassign(u, T, A) PROVE RowsHold'
  <2>1. DOMAIN albums' = DOMAIN albums /\ DOMAIN tracks' = DOMAIN tracks
    BY <1>7 DEF Reassign
  <2>2. ASSUME NEW t \in DOMAIN tracks PROVE RowHolds(t)'
    <3>1. tracks'[t] = tracks[t] \/ tracks'[t] = [tracks[t] EXCEPT !.owner = GhostOf(u)]
      BY <1>7 DEF Reassign
    <3> QED
      BY <2>1, <3>1 DEF RowsHold, RowHolds, HasFields
  <2> QED
    BY <2>1, <2>2 DEF RowsHold
<1> QED
  BY <1>1, <1>2, <1>3, <1>4, <1>5, <1>6, <1>7

\* What refers to a playlist or to a track finds it.
ReferencesHold ==
    /\ \A p \in DOMAIN entries : entries[p] # {} => p \in DOMAIN playlists
    /\ \A p \in DOMAIN entries : \A e \in entries[p] : e.track \in DOMAIN tracks
    /\ \A k \in DOMAIN tokens : k[1] \in DOMAIN tracks

\* Only the deletion of a track takes a track away.
LEMMA RowsStep ==
    ASSUME RowsHold, [Next]_vars
    PROVE  RowsHold' /\ (DOMAIN tracks \subseteq DOMAIN tracks' \/ \E t : RemoveTrack(t))
<1>0. CASE UNCHANGED shelfVars
  BY <1>0 DEF shelfVars, RowsHold, RowHolds
<1>1. ASSUME NEW t, RemoveTrack(t) PROVE RowsHold'
  BY <1>1, ShelfRows DEF RemoveTrack
<1>2. ASSUME NEW u, Upload(u) \/ RemoveUser(u)
      PROVE  RowsHold' /\ DOMAIN tracks \subseteq DOMAIN tracks'
  <2>1. CASE Upload(u)
    <3>1. PICK t, a, ar, ti, v : ImportTrack(u, t, a, ar, ti, v)
      BY <2>1 DEF Upload
    <3> QED
      BY <3>1, ShelfRows DEF ImportTrack
  <2>2. CASE RemoveUser(u)
    <3>1. Reassign(u, Own(u, tracks), Own(u, albums))
      BY <2>2 DEF RemoveUser
    <3>2. DOMAIN tracks' = DOMAIN tracks
      BY <3>1 DEF Reassign
    <3> QED
      BY <3>1, <3>2, ShelfRows
  <2> QED
    BY <1>2, <2>1, <2>2
<1>3. ASSUME NEW t, NEW v, ManageTrack(t) \/ Moderate(t, v)
      PROVE  RowsHold' /\ DOMAIN tracks \subseteq DOMAIN tracks'
  <2>1. CASE ManageTrack(t)
    <3>1. PICK a, ar, ti, w : EditTrack(t, a, tracks[t].owner, ar, ti, w)
      BY <2>1 DEF ManageTrack
    <3>2. DOMAIN tracks' = DOMAIN tracks
      BY <3>1 DEF EditTrack
    <3> QED
      BY <3>1, <3>2, ShelfRows
  <2>2. CASE Moderate(t, v)
    BY <2>2, ShelfRows DEF Moderate, SetVisibility
  <2> QED
    BY <1>3, <2>1, <2>2
<1>4. ASSUME NEW a, ManageAlbum(a) \/ RemoveAlbum(a)
      PROVE  RowsHold' /\ DOMAIN tracks \subseteq DOMAIN tracks'
  <2>1. CASE ManageAlbum(a)
    <3>1. PICK ar, ti, v : EditAlbum(a, ar, ti, v, IF v = "public" THEN Held(a) ELSE {})
      BY <2>1 DEF ManageAlbum
    <3>2. DOMAIN tracks' = DOMAIN tracks
      BY <3>1 DEF EditAlbum
    <3> QED
      BY <3>1, <3>2, ShelfRows
  <2>2. CASE RemoveAlbum(a)
    BY <2>2, ShelfRows DEF RemoveAlbum, DeleteAlbum
  <2> QED
    BY <1>4, <2>1, <2>2
<1>5. CASE CatalogNext
  BY <1>1, <1>2, <1>3, <1>4, <1>5 DEF CatalogNext
<1>6. CASE SocialNext
  BY <1>0, <1>6, SocialFrame DEF shelfVars
<1>7. CASE ListNext
  BY <1>0, <1>7, ListFrame DEF KeepOthers, shelfVars
<1>8. CASE PlayNext
  BY <1>0, <1>8, PlayFrame DEF KeepRest, shelfVars
<1> QED
  BY <1>0, <1>5, <1>6, <1>7, <1>8 DEF Next, vars, shelfVars

\* A step that keeps the tracks and the playlists, or adds to them.
LEMMA QuietReferences ==
    ASSUME ReferencesHold, DOMAIN tracks \subseteq DOMAIN tracks',
           DOMAIN playlists \subseteq DOMAIN playlists', entries' = entries,
           DOMAIN tokens' \subseteq DOMAIN tokens
    PROVE  ReferencesHold'
  BY DEF ReferencesHold

\* A step on the entries of one playlist that exists.
LEMMA OneListStep ==
    ASSUME ReferencesHold, UNCHANGED <<tracks, tokens>>, playlists' = playlists,
           NEW p, NEW rows, entries' = [entries EXCEPT ![p] = rows],
           \A e \in rows : e.track \in DOMAIN tracks, rows # {} => p \in DOMAIN playlists
    PROVE  ReferencesHold'
  BY DEF ReferencesHold

LEMMA ListReferences == ReferencesHold /\ ListNext => ReferencesHold'
<1> SUFFICES ASSUME ReferencesHold, ListNext PROVE ReferencesHold'
  OBVIOUS
<1>0. UNCHANGED <<tracks, tokens>>
  BY ListFrame DEF KeepOthers, shelfVars, playVars
<1>1. ASSUME NEW u, NEW p, NEW v, CreatePlaylist(u, p, v) PROVE ReferencesHold'
  BY <1>0, <1>1 DEF CreatePlaylist, ReferencesHold
<1>2. ASSUME NEW u, NEW p, NEW v, UpdatePlaylist(u, p, v) PROVE ReferencesHold'
  BY <1>0, <1>2, QuietReferences DEF UpdatePlaylist
<1>3. ASSUME NEW u, NEW p, DeletePlaylist(u, p) PROVE ReferencesHold'
  BY <1>0, <1>3 DEF DeletePlaylist, ReferencesHold
<1>4. ASSUME NEW u, NEW p, NEW t, RemovePlaylistTrack(u, p, t) PROVE ReferencesHold'
  <2> DEFINE rows == {e \in entries[p] : e.track # t}
  <2>1. /\ p \in DOMAIN entries /\ playlists' = playlists
        /\ entries' = [entries EXCEPT ![p] = rows]
    BY <1>4 DEF RemovePlaylistTrack
  <2>2. (\A e \in rows : e.track \in DOMAIN tracks) /\ (rows # {} => p \in DOMAIN playlists)
    BY <2>1 DEF ReferencesHold
  <2> HIDE DEF rows
  <2> QED
    BY <1>0, <2>1, <2>2, OneListStep
<1>5. ASSUME NEW u, NEW p, NEW t, NEW r, AddRead(r, u, p, t) PROVE ReferencesHold'
  BY <1>0, <1>5, QuietReferences DEF AddRead
<1>6. ASSUME NEW r \in Adds, AddInsert(r) PROVE ReferencesHold'
  <2> DEFINE n == adding[r]
             row == [track |-> n.track, pos |-> n.pos, via |-> r,
                     added |-> Highest("added", entries[n.list]) + 1]
             rows == {e \in entries[n.list] : e.track # n.track} \cup {row}
  <2>1. playlists' = playlists
    BY <1>6 DEF AddInsert
  <2>2. CASE entries' = entries
    BY <1>0, <2>1, <2>2, QuietReferences
  <2>3. CASE /\ n.list \in DOMAIN playlists /\ n.track \in DOMAIN tracks
             /\ entries' = [entries EXCEPT ![n.list] = rows]
    <3>1. CASE n.list \in DOMAIN entries
      <4>1. \A e \in rows : e.track \in DOMAIN tracks
        BY <2>3, <3>1 DEF ReferencesHold
      <4> HIDE DEF rows
      <4> QED
        BY <1>0, <2>1, <2>3, <4>1, OneListStep
    <3>2. CASE n.list \notin DOMAIN entries
      <4>1. DOMAIN entries' = DOMAIN entries /\ \A p \in DOMAIN entries : entries'[p] = entries[p]
        BY <2>3, <3>2
      <4> QED
        BY <1>0, <2>1, <4>1 DEF ReferencesHold
    <3> QED
      BY <3>1, <3>2
  <2> QED
    BY <1>6, <2>2, <2>3 DEF AddInsert
<1> QED
  BY <1>1, <1>2, <1>3, <1>4, <1>5, <1>6 DEF ListNext

LEMMA ReferencesStep ==
    ASSUME ReferencesHold, [Next]_vars,
           DOMAIN tracks \subseteq DOMAIN tracks' \/ \E t : RemoveTrack(t)
    PROVE  ReferencesHold'
<1>0. CASE /\ UNCHANGED <<entries, tokens>> /\ DOMAIN playlists' = DOMAIN playlists
           /\ DOMAIN tracks \subseteq DOMAIN tracks'
  BY <1>0, QuietReferences
<1>1. ASSUME NEW t, RemoveTrack(t) PROVE ReferencesHold'
  <2>1. /\ DOMAIN tracks' = DOMAIN tracks \ {t} /\ playlists' = playlists
        /\ entries' = [p \in DOMAIN entries |-> {e \in entries[p] : e.track # t}]
        /\ DOMAIN tokens' = {k \in DOMAIN tokens : k[1] # t}
    BY <1>1 DEF RemoveTrack, DeleteTrack
  <2> QED
    BY <2>1 DEF ReferencesHold
<1>2. CASE CatalogNext /\ DOMAIN tracks \subseteq DOMAIN tracks'
  <2>1. ASSUME NEW u, RemoveUser(u) PROVE DOMAIN playlists' = DOMAIN playlists
    BY <2>1 DEF RemoveUser
  <2> QED
    BY <1>0, <1>1, <1>2, <2>1 DEF CatalogNext, Upload, ManageTrack, Moderate, ManageAlbum,
       RemoveAlbum, RemoveUser, CatalogOnly, libraryVars, listVars, playVars
<1>3. CASE SocialNext
  BY <1>0, <1>3, SocialFrame DEF shelfVars, listVars, playVars
<1>4. CASE ListNext
  BY <1>4, ListReferences
<1>5. ASSUME NEW v, NEW t, SignStream(v, t) PROVE ReferencesHold'
  <2>1. /\ DOMAIN tokens' = DOMAIN tokens \cup {<<t, now>>} /\ t \in DOMAIN tracks
        /\ UNCHANGED <<tracks, playlists, entries>>
    BY <1>5 DEF SignStream, CanAccessTrack, KeepRest, shelfVars, listVars
  <2> QED
    BY <2>1 DEF ReferencesHold
<1>6. ASSUME NEW s, CountPlay(s) PROVE ReferencesHold'
  <2>1. DOMAIN tokens' \subseteq DOMAIN tokens /\ UNCHANGED <<tracks, playlists, entries>>
    BY <1>6 DEF CountPlay, KeepRest, shelfVars, listVars
  <2> QED
    BY <2>1, QuietReferences
<1>7. CASE PlayNext
  BY <1>0, <1>5, <1>6, <1>7 DEF PlayNext, Tick, StreamTrack, MarkPlayed, LosePlay, KeepRest,
     shelfVars, listVars
<1> QED
  BY <1>0, <1>1, <1>2, <1>3, <1>4, <1>7 DEF Next, vars

\* A play that was counted finds its track, though its token may be swept.
PlaysFound == \A s \in plays : streaming[s].token[1] \in DOMAIN tracks

LEMMA PlaysFoundStep ==
    ASSUME PlaysInv, ReferencesHold, PlaysFound, [Next]_vars,
           DOMAIN tracks \subseteq DOMAIN tracks' \/ \E t : RemoveTrack(t)
    PROVE  PlaysFound'
<1>1. ASSUME NEW t, RemoveTrack(t) PROVE PlaysFound'
  <2>1. /\ DOMAIN tracks' = DOMAIN tracks \ {t} /\ streaming' = streaming
        /\ plays' = {s \in plays : streaming[s].token[1] # t}
    BY <1>1 DEF RemoveTrack, DeleteTrack
  <2> QED
    BY <2>1 DEF PlaysFound
<1>2. ASSUME DOMAIN tracks \subseteq DOMAIN tracks', plays' = plays,
             \A r \in plays : streaming'[r] = streaming[r]
      PROVE  PlaysFound'
  BY <1>2 DEF PlaysFound
<1>3. \A s \in Streams : streaming[s].at \in {"idle", "mark", "count"} => s \notin plays
  BY DEF PlaysInv, StreamHolds
<1>4. DOMAIN streaming = Streams /\ plays \subseteq Streams
  BY DEF PlaysInv
<1>5. ASSUME NEW s \in Streams, NEW k, DOMAIN tracks \subseteq DOMAIN tracks',
             MarkPlayed(s) \/ LosePlay(s) \/ StreamTrack(s, k)
      PROVE  PlaysFound'
  <2>1. streaming[s].at \in {"idle", "mark", "count"} /\ plays' = plays
    BY <1>5 DEF MarkPlayed, LosePlay, StreamTrack
  <2>2. \E n : streaming' = [streaming EXCEPT ![s] = n]
    BY <1>5 DEF MarkPlayed, LosePlay, StreamTrack, Marked, Finished
  <2> QED
    BY <1>2, <1>3, <1>4, <1>5, <2>1, <2>2
<1>6. ASSUME NEW s \in Streams, DOMAIN tracks \subseteq DOMAIN tracks', CountPlay(s)
      PROVE  PlaysFound'
  <2>1. /\ streaming[s].at = "count" /\ plays' = plays \cup {s}
        /\ streaming' = [streaming EXCEPT ![s] = [at |-> "done", token |-> streaming[s].token]]
    BY <1>6 DEF CountPlay, Finished
  <2>2. streaming'[s].token = streaming[s].token /\ streaming[s].token[1] \in DOMAIN tracks
    BY <1>4, <2>1 DEF PlaysInv, StreamHolds, ReferencesHold
  <2>3. \A r \in plays : r # s /\ streaming'[r] = streaming[r]
    BY <1>3, <1>4, <2>1
  <2> QED
    BY <1>6, <2>1, <2>2, <2>3 DEF PlaysFound
<1>7. PlayStep
  BY NextIsPlayStep
<1> QED
  BY <1>1, <1>2, <1>5, <1>6, <1>7 DEF PlayStep, Tick, SignStream

\* A favorite finds its row.
FavoriteHolds(f) ==
    f = <<f[1], f[2]>> /\ f[2] \in DOMAIN tracks \cup DOMAIN albums \cup DOMAIN playlists

FavoritesHold == \A f \in favorites : FavoriteHolds(f)

\* A step that adds no favorite and takes no row away.
LEMMA QuietFavorites ==
    ASSUME FavoritesHold, favorites' \subseteq favorites, DOMAIN tracks \subseteq DOMAIN tracks',
           DOMAIN albums \subseteq DOMAIN albums', DOMAIN playlists \subseteq DOMAIN playlists'
    PROVE  FavoritesHold'
  BY DEF FavoritesHold, FavoriteHolds

LEMMA FavoritesStep == FavoritesHold /\ [Next]_vars => FavoritesHold'
<1> SUFFICES ASSUME FavoritesHold, [Next]_vars PROVE FavoritesHold'
  OBVIOUS
<1>0. CASE UNCHANGED <<shelfVars, favorites, listVars>>
  BY <1>0, QuietFavorites DEF shelfVars, listVars
<1>1. ASSUME NEW u, Upload(u) PROVE FavoritesHold'
  <2>1. PICK t, a, ar, ti, v : ImportTrack(u, t, a, ar, ti, v)
    BY <1>1 DEF Upload
  <2>2. DOMAIN tracks \subseteq DOMAIN tracks' /\ DOMAIN albums \subseteq DOMAIN albums'
    BY <2>1 DEF ImportTrack, Upserted
  <2> QED
    BY <1>1, <2>2, QuietFavorites DEF Upload, CatalogOnly, libraryVars
<1>2. ASSUME NEW t, ManageTrack(t) PROVE FavoritesHold'
  <2>1. PICK a, ar, ti, v : EditTrack(t, a, tracks[t].owner, ar, ti, v)
    BY <1>2 DEF ManageTrack
  <2>2. DOMAIN tracks \subseteq DOMAIN tracks' /\ DOMAIN albums \subseteq DOMAIN albums'
    BY <2>1 DEF EditTrack, Upserted
  <2> QED
    BY <1>2, <2>2, QuietFavorites DEF ManageTrack, CatalogOnly, libraryVars
<1>3. ASSUME NEW a, ManageAlbum(a) PROVE FavoritesHold'
  <2>1. PICK ar, ti, v : EditAlbum(a, ar, ti, v, IF v = "public" THEN Held(a) ELSE {})
    BY <1>3 DEF ManageAlbum
  <2>2. DOMAIN tracks \subseteq DOMAIN tracks' /\ DOMAIN albums \subseteq DOMAIN albums'
    BY <2>1 DEF EditAlbum
  <2> QED
    BY <1>3, <2>2, QuietFavorites DEF ManageAlbum, CatalogOnly, libraryVars
<1>4. ASSUME NEW t, NEW v, Moderate(t, v) PROVE FavoritesHold'
  BY <1>4, QuietFavorites DEF Moderate, SetVisibility, CatalogOnly, libraryVars
<1>5. ASSUME NEW u, RemoveUser(u) PROVE FavoritesHold'
  <2>1. Reassign(u, Own(u, tracks), Own(u, albums)) /\ favorites' = favorites
    BY <1>5 DEF RemoveUser
  <2>2. DOMAIN tracks' = DOMAIN tracks /\ DOMAIN albums' = DOMAIN albums
    BY <2>1 DEF Reassign
  <2>3. DOMAIN playlists' = DOMAIN playlists
    BY <1>5 DEF RemoveUser
  <2> QED
    BY <2>1, <2>2, <2>3, QuietFavorites
<1>6. ASSUME NEW t, RemoveTrack(t) PROVE FavoritesHold'
  <2>1. /\ DOMAIN tracks' = DOMAIN tracks \ {t} /\ UNCHANGED <<albums, playlists>>
        /\ favorites' = {f \in favorites : f[2] # t}
    BY <1>6 DEF RemoveTrack, DeleteTrack, Unfavored
  <2> QED
    BY <2>1 DEF FavoritesHold, FavoriteHolds
<1>7. ASSUME NEW a, RemoveAlbum(a) PROVE FavoritesHold'
  <2>1. /\ DOMAIN albums' = DOMAIN albums \ {a} /\ DOMAIN tracks' = DOMAIN tracks
        /\ playlists' = playlists /\ favorites' = {f \in favorites : f[2] # a}
    BY <1>7 DEF RemoveAlbum, DeleteAlbum, Unfavored, listVars
  <2> QED
    BY <2>1 DEF FavoritesHold, FavoriteHolds
<1>8. ASSUME NEW u, NEW p, DeletePlaylist(u, p) PROVE FavoritesHold'
  <2>1. /\ DOMAIN playlists' = DOMAIN playlists \ {p} /\ UNCHANGED <<tracks, albums>>
        /\ favorites' = {f \in favorites : f[2] # p}
    BY <1>8 DEF DeletePlaylist, KeepOthers, shelfVars, Unfavored
  <2> QED
    BY <2>1 DEF FavoritesHold, FavoriteHolds
<1>9. CASE ListNext
  <2>1. ASSUME NEW u, NEW p, NEW v, CreatePlaylist(u, p, v) \/ UpdatePlaylist(u, p, v)
        PROVE  FavoritesHold'
    <3>1. DOMAIN playlists \subseteq DOMAIN playlists' /\ UNCHANGED <<tracks, albums, favorites>>
      BY <2>1 DEF CreatePlaylist, UpdatePlaylist, KeepOthers, shelfVars
    <3> QED
      BY <3>1, QuietFavorites
  <2>2. ASSUME UNCHANGED <<favorites, playlists>> PROVE FavoritesHold'
    BY <1>9, <2>2, ListFrame, QuietFavorites DEF KeepOthers, shelfVars
  <2> QED
    BY <1>8, <1>9, <2>1, <2>2 DEF ListNext, RemovePlaylistTrack, AddRead, AddInsert
<1>10. CASE SocialNext
  <2>1. ASSUME NEW f \in Favorites, AddFavorite(f[1], f[2]) PROVE FavoritesHold'
    <3>1. f = <<f[1], f[2]>>
      BY LibraryAssumption
    <3>2. /\ f[2] \in DOMAIN tracks \cup DOMAIN albums \cup DOMAIN playlists
          /\ favorites' = favorites \cup {f} /\ UNCHANGED <<tracks, albums, playlists>>
      BY <2>1, <3>1 DEF AddFavorite, KeepAllElse, shelfVars, listVars
    <3> QED
      BY <3>1, <3>2 DEF FavoritesHold, FavoriteHolds
  <2>2. ASSUME favorites' \subseteq favorites PROVE FavoritesHold'
    BY <1>10, <2>2, SocialFrame, QuietFavorites DEF shelfVars, listVars
  <2> QED
    BY <1>10, <2>1, <2>2 DEF SocialNext, FollowUser, UnfollowUser, RemoveFavorite
<1>11. CASE CatalogNext
  BY <1>1, <1>2, <1>3, <1>4, <1>5, <1>6, <1>7, <1>11 DEF CatalogNext
<1>12. CASE PlayNext
  BY <1>0, <1>12, PlayFrame DEF KeepRest
<1> QED
  BY <1>0, <1>9, <1>10, <1>11, <1>12 DEF Next, vars, shelfVars, listVars

\* However adds, counts and deletions overlap, no entry, token, favorite or play is
\* left without the row it refers to, and no track without its album.  (The token
\* of a play may be swept; its track is there.)
THEOREM ReferencesFindTheirRows == Spec => []NothingDangles
<1>1. Init => RowsHold /\ ReferencesHold
  <2> SUFFICES ASSUME Init PROVE RowsHold /\ ReferencesHold
    OBVIOUS
  <2>1. \A t \in DOMAIN tracks : tracks[t] \in TrackRows
    BY DEF Init, ShelfInit
  <2>2. RowsHold
    BY <2>1 DEF Init, ShelfInit, RowsHold, RowHolds, HasFields, TrackRows
  <2> QED
    BY <2>2 DEF Init, ReferencesHold
<1>2. Init => PlaysFound /\ FavoritesHold
  BY DEF Init, PlaysFound, FavoritesHold
<1>3. PlaysInv /\ RowsHold /\ ReferencesHold /\ PlaysFound /\ FavoritesHold /\ [Next]_vars
      => RowsHold' /\ ReferencesHold' /\ PlaysFound' /\ FavoritesHold'
  BY RowsStep, ReferencesStep, PlaysFoundStep, FavoritesStep
<1>4. RowsHold /\ ReferencesHold /\ PlaysFound /\ FavoritesHold => NothingDangles
  <2> SUFFICES ASSUME RowsHold, ReferencesHold, PlaysFound, FavoritesHold PROVE NothingDangles
    OBVIOUS
  <2>1. ASSUME NEW u, NEW f \in FavoritesCounted(u)
        PROVE  f \in {<<u, x>> : x \in FavoritesListed(u)}
    <3>1. f \in favorites /\ f[1] = u
      BY DEF FavoritesCounted
    <3>2. f = <<u, f[2]>> /\ f[2] \in DOMAIN tracks \cup DOMAIN albums \cup DOMAIN playlists
      BY <3>1 DEF FavoritesHold, FavoriteHolds
    <3> QED
      BY <3>1, <3>2 DEF FavoritesListed
  <2>2. ASSUME NEW u, NEW x \in FavoritesListed(u) PROVE <<u, x>> \in FavoritesCounted(u)
    <3>1. <<u, x>> \in favorites
      BY DEF FavoritesListed
    <3>2. <<u, x>>[1] = u
      OBVIOUS
    <3> QED
      BY <3>1, <3>2 DEF FavoritesCounted
  <2>3. \A u \in Users : FavoritesCounted(u) = {<<u, x>> : x \in FavoritesListed(u)}
    BY <2>1, <2>2
  <2> QED
    BY <2>3 DEF RowsHold, RowHolds, ReferencesHold, PlaysFound, NothingDangles
<1> QED
  BY PlaysInvariant, <1>1, <1>2, <1>3, <1>4, PTL DEF Spec

-----------------------------------------------------------------------------
(* Lists.                                                                  *)

IdsHold == DOMAIN tracks \subseteq Tracks /\ DOMAIN albums \subseteq Albums

LEMMA IdsInvariant == Spec => []IdsHold
<1>1. Init => IdsHold
  BY DEF Init, ShelfInit, IdsHold
<1>2. ASSUME IdsHold, [Next]_vars PROVE IdsHold'
  <2>0. CASE UNCHANGED shelfVars
    BY <1>2, <2>0 DEF shelfVars, IdsHold
  <2>1. CASE CatalogNext
    <3>1. ASSUME NEW t, NEW a, NEW u, NEW ar, NEW ti, NEW v,
                 UpsertTarget(a, ar, ti), albums' = Upserted(a, u, ar, ti, v),
                 DOMAIN tracks' \subseteq DOMAIN tracks \cup {t}, t \in Tracks
          PROVE  IdsHold'
      BY <1>2, <3>1 DEF UpsertTarget, AlbumsNamed, Upserted, IdsHold
    <3>2. ASSUME NEW u, Upload(u) PROVE IdsHold'
      <4>1. PICK t, a, ar, ti, v : t \in Tracks /\ ImportTrack(u, t, a, ar, ti, v)
        BY <3>2 DEF Upload, ImportTrack
      <4> QED
        BY <3>1, <4>1 DEF ImportTrack
    <3>3. ASSUME NEW t \in Tracks, ManageTrack(t) PROVE IdsHold'
      <4>1. PICK a, ar, ti, v : EditTrack(t, a, tracks[t].owner, ar, ti, v)
        BY <3>3 DEF ManageTrack
      <4>2. DOMAIN tracks' = DOMAIN tracks
        BY <4>1 DEF EditTrack
      <4> QED
        BY <3>1, <3>3, <4>1, <4>2 DEF EditTrack
    <3>4. ASSUME DOMAIN tracks' \subseteq DOMAIN tracks, DOMAIN albums' \subseteq DOMAIN albums
          PROVE  IdsHold'
      BY <1>2, <3>4 DEF IdsHold
    <3>5. ASSUME NEW u, RemoveUser(u) PROVE IdsHold'
      <4>1. Reassign(u, Own(u, tracks), Own(u, albums))
        BY <3>5 DEF RemoveUser
      <4> QED
        BY <3>4, <4>1 DEF Reassign
    <3>6. ASSUME NEW t, NEW v, RemoveTrack(t) \/ Moderate(t, v) PROVE IdsHold'
      BY <3>4, <3>6 DEF RemoveTrack, Moderate, DeleteTrack, SetVisibility
    <3>7. ASSUME NEW a, ManageAlbum(a) PROVE IdsHold'
      <4>1. PICK ar, ti, v : EditAlbum(a, ar, ti, v, IF v = "public" THEN Held(a) ELSE {})
        BY <3>7 DEF ManageAlbum
      <4> QED
        BY <3>4, <4>1 DEF EditAlbum
    <3>8. ASSUME NEW a, RemoveAlbum(a) PROVE IdsHold'
      BY <3>4, <3>8 DEF RemoveAlbum, DeleteAlbum
    <3> QED
      BY <2>1, <3>2, <3>3, <3>5, <3>6, <3>7, <3>8 DEF CatalogNext
  <2>2. CASE SocialNext
    BY <2>0, <2>2, SocialFrame DEF shelfVars
  <2>3. CASE ListNext
    BY <2>0, <2>3, ListFrame DEF KeepOthers, shelfVars
  <2>4. CASE PlayNext
    BY <2>0, <2>4, PlayFrame DEF KeepRest, shelfVars
  <2> QED
    BY <1>2, <2>0, <2>1, <2>2, <2>3, <2>4 DEF Next, vars, shelfVars
<1> QED
  BY <1>1, <1>2, PTL DEF Spec

LEMMA TracksShownOpen ==
    ASSUME IdsHold, NEW v, NEW t \in TracksShown(v)
    PROVE  t \in TrackDetail(v)
<1> SUFFICES CanAccessTrack(v, t)
  BY DEF TrackDetail, CanAccessTrack, IdsHold
<1>1. ASSUME t \in DOMAIN tracks, v \in Admins \/ Listed(v, t) PROVE CanAccessTrack(v, t)
  BY <1>1 DEF Listed, Public, Own, Owns, CanAccessTrack
<1>2. CASE t \in ListTracks(v)
  BY <1>1, <1>2 DEF ListTracks
<1>3. CASE t \in DiscoveryTracks
  BY <1>3 DEF DiscoveryTracks, Public, CanAccessTrack
<1>4. CASE t \in SubsonicSearchSongs(v)
  BY <1>4 DEF SubsonicSearchSongs
<1>5. ASSUME NEW u, t \in UploadedTracks(v, u) PROVE CanAccessTrack(v, t)
  <2>1. t \in DOMAIN tracks /\ u # None /\ tracks[t].owner = u
    BY <1>5 DEF UploadedTracks, Own, Owns
  <2> QED
    BY <1>5, <2>1 DEF UploadedTracks, Public, CanAccessTrack, Owns
<1>6. ASSUME NEW p \in DOMAIN playlists \ Own(v, playlists), t \in ListPlaylistTracks(v, p)
      PROVE  CanAccessTrack(v, t)
  <2>1. t \in DOMAIN tracks /\ ~Owns(v, playlists[p])
    BY <1>6 DEF ListPlaylistTracks, EntryTracks, Own
  <2> QED
    BY <1>1, <1>6, <2>1 DEF ListPlaylistTracks
<1>7. ASSUME NEW p, t \in SubsonicPlaylistSongs(v, p) PROVE CanAccessTrack(v, t)
  BY <1>7 DEF SubsonicPlaylistSongs
<1>8. \/ t \in ListTracks(v) \/ t \in DiscoveryTracks \/ t \in SubsonicSearchSongs(v)
      \/ \E u : t \in UploadedTracks(v, u)
      \/ \E p \in DOMAIN playlists \ Own(v, playlists) : t \in ListPlaylistTracks(v, p)
      \/ \E p : t \in SubsonicPlaylistSongs(v, p)
  BY DEF TracksShown
<1> QED
  BY <1>2, <1>3, <1>4, <1>5, <1>6, <1>7, <1>8

LEMMA AlbumsShownOpen ==
    ASSUME IdsHold, NEW v, NEW a \in AlbumsShown(v) \cup SubsonicAlbums(v)
    PROVE  a \in AlbumDetail(v)
<1> SUFFICES CanAccessAlbum(v, a)
  BY DEF AlbumDetail, CanAccessAlbum, IdsHold
<1>1. ASSUME NEW u, a \in UploadedAlbums(v, u) PROVE CanAccessAlbum(v, a)
  <2>1. a \in DOMAIN albums /\ u # None /\ albums[a].owner = u
    BY <1>1 DEF UploadedAlbums, Own, Owns
  <2> QED
    BY <1>1, <2>1 DEF UploadedAlbums, Public, CanAccessAlbum, Owns
<1>2. CASE a \in ListAlbums(v) \cup DiscoveryAlbums \cup AlbumCovers(v) \cup SubsonicAlbums(v)
  BY <1>2 DEF ListAlbums, DiscoveryAlbums, AlbumCovers, SubsonicAlbums, Public, Own, Owns,
     CanAccessAlbum
<1>3. ASSUME NEW u, a \in FeaturedAlbums(v, u) PROVE a \in UploadedAlbums(v, u)
  BY <1>3 DEF FeaturedAlbums, UploadedAlbums
<1>4. \/ a \in ListAlbums(v) \cup DiscoveryAlbums \cup AlbumCovers(v) \cup SubsonicAlbums(v)
      \/ \E u : a \in UploadedAlbums(v, u) \cup FeaturedAlbums(v, u)
  BY DEF AlbumsShown
<1> QED
  BY <1>1, <1>2, <1>3, <1>4

LEMMA PlaylistsShownOpen ==
    ASSUME NEW v, NEW p \in PlaylistsShown(v) \cup SubsonicPlaylists(v)
    PROVE  CanAccessPlaylist(v, p)
<1>1. ASSUME NEW u, p \in UploadedPlaylists(v, u) PROVE CanAccessPlaylist(v, p)
  <2>1. p \in DOMAIN playlists /\ u # None /\ playlists[p].owner = u
    BY <1>1 DEF UploadedPlaylists, Own, Owns
  <2> QED
    BY <1>1, <2>1 DEF UploadedPlaylists, Public, CanAccessPlaylist, Owns
<1>2. ASSUME NEW u, p \in FeaturedPlaylists(v, u) PROVE p \in UploadedPlaylists(v, u)
  BY <1>2 DEF FeaturedPlaylists, UploadedPlaylists
<1>3. CASE p \in ListPlaylists(v) \cup SubsonicPlaylists(v)
  BY <1>3 DEF ListPlaylists, SubsonicPlaylists, Public, Own, Owns, CanAccessPlaylist
<1> QED
  BY <1>1, <1>2, <1>3 DEF PlaylistsShown

LEMMA AlbumSongsOpen ==
    ASSUME IdsHold, NEW v, NEW a, NEW t \in SubsonicAlbumSongs(v, a)
    PROVE  t \in TrackDetail(v)
  BY DEF SubsonicAlbumSongs, Held, SubsonicSees, SubsonicListed, Listed, Public, Own, Owns,
     TrackDetail, CanAccessTrack, IdsHold

\* Whatever the tables hold, for any catalog and any users: no list that has a
\* clause on the visibility shows a row that its viewer may not open, and an album
\* that search3 shows all the same stays shut.
THEOREM ListsShowWhatOpens == Spec => []ListedIsOpen
<1>1. IdsHold => ListedIsOpen
  <2> SUFFICES ASSUME IdsHold PROVE ListedIsOpen
    OBVIOUS
  <2>1. ASSUME NEW v PROVE TracksShown(v) \subseteq TrackDetail(v)
    BY TracksShownOpen
  <2>2. ASSUME NEW v
        PROVE  AlbumsShown(v) \subseteq AlbumDetail(v) /\ SubsonicAlbums(v) \subseteq AlbumDetail(v)
    BY AlbumsShownOpen
  <2>3. ASSUME NEW v
        PROVE  \A p \in PlaylistsShown(v) \cup SubsonicPlaylists(v) : CanAccessPlaylist(v, p)
    BY PlaylistsShownOpen
  <2>4. ASSUME NEW v, NEW a PROVE SubsonicAlbumSongs(v, a) \subseteq TrackDetail(v)
    BY AlbumSongsOpen
  <2>5. ASSUME NEW v, NEW a \in SubsonicSearchAlbums \ AlbumDetail(v)
        PROVE  SubsonicAlbumSongs(v, a) = {}
    <3>1. ~CanAccessAlbum(v, a)
      BY DEF SubsonicSearchAlbums, AlbumDetail, IdsHold
    <3> QED
      BY <3>1 DEF SubsonicAlbumSongs
  <2> QED
    BY <2>1, <2>2, <2>3, <2>4, <2>5 DEF ListedIsOpen
<1> QED
  BY IdsInvariant, <1>1, PTL

\* For every content of the tables: a user's own lists agree, and the count of an
\* album, its songs and the index of artists do, in the lists of albums for every
\* user and in search3 for administrators.
THEOREM TheApisAgree == Spec => []ApisAgree
<1>1. ApisAgree
  <2> SUFFICES ASSUME NEW v \in Users
               PROVE  /\ ManageListTracks(v) \subseteq ListTracks(v)
                      /\ ManageListAlbums(v) \subseteq ListAlbums(v) \cap SubsonicAlbums(v)
                      /\ \A a \in SubsonicAlbums(v) :
                            /\ SubsonicSongCount(v, a) = Cardinality(SubsonicAlbumSongs(v, a))
                            /\ \A t \in SubsonicAlbumSongs(v, a) :
                                   tracks[t].artist \in SubsonicArtists(v)
                      /\ v \in Admins => \A a \in SubsonicSearchAlbums :
                            SubsonicSearchCount(a) = Cardinality(SubsonicAlbumSongs(v, a))
    BY DEF ApisAgree
  <2>1. ManageListTracks(v) \subseteq ListTracks(v)
    BY DEF ManageListTracks, ListTracks, Listed, Own
  <2>2. ManageListAlbums(v) \subseteq ListAlbums(v) \cap SubsonicAlbums(v)
    BY DEF ManageListAlbums, ListAlbums, SubsonicAlbums
  <2>3. ASSUME NEW a \in SubsonicAlbums(v)
        PROVE  SubsonicSongCount(v, a) = Cardinality(SubsonicAlbumSongs(v, a))
    <3> DEFINE counted == {t \in Held(a) :
                  \/ v \in Admins
                  \/ t \in Own(v, tracks) \/ tracks[t].vis \in {"public", "unlisted"}
                  \/ tracks[t].vis = "followers_only" /\ Follows(v, tracks[t].owner)}
    <3>1. CanAccessAlbum(v, a)
      BY DEF SubsonicAlbums, Public, Own, Owns, CanAccessAlbum
    <3>2. ASSUME NEW t \in Held(a)
          PROVE  (t \in counted) <=> SubsonicSees(v, t)
      BY DEF SubsonicSees, SubsonicListed, Listed, Public, Held
    <3>3. counted = SubsonicAlbumSongs(v, a)
      BY <3>1, <3>2 DEF SubsonicAlbumSongs
    <3> QED
      BY <3>3 DEF SubsonicSongCount
  <2>4. ASSUME NEW a, NEW t \in SubsonicAlbumSongs(v, a)
        PROVE  tracks[t].artist \in SubsonicArtists(v)
    <3>1. t \in DOMAIN tracks /\ SubsonicSees(v, t)
      BY DEF SubsonicAlbumSongs, Held
    <3>2. \/ v \in Admins
          \/ Owns(v, tracks[t]) \/ tracks[t].vis \in {"public", "unlisted"}
          \/ tracks[t].vis = "followers_only" /\ Follows(v, tracks[t].owner)
      BY <3>1 DEF SubsonicSees, SubsonicListed, Listed, Public, Own
    <3> QED
      BY <3>1, <3>2 DEF SubsonicArtists
  <2>5. ASSUME v \in Admins, NEW a \in SubsonicSearchAlbums
        PROVE  SubsonicSearchCount(a) = Cardinality(SubsonicAlbumSongs(v, a))
    <3>1. SubsonicAlbumSongs(v, a) = Held(a)
      BY <2>5 DEF SubsonicSearchAlbums, SubsonicAlbumSongs, CanAccessAlbum, SubsonicSees
    <3> QED
      BY <3>1 DEF SubsonicSearchCount
  <2> QED
    BY <2>1, <2>2, <2>3, <2>4, <2>5
<1> QED
  BY <1>1, PTL

-----------------------------------------------------------------------------
(* The order of a playlist.                                                *)

AddFields == {"at", "list", "track", "pos", "seen"}

\* A call that has read its position is after every entry of a call it has seen.
AddHolds(r) ==
    /\ HasFields({"at"}, adding[r])
    /\ adding[r].at # "idle" =>
          /\ HasFields(AddFields, adding[r]) /\ adding[r].pos \in Nat
          /\ \A a \in adding[r].seen : a \in Adds /\ adding[a].at = "done"
          /\ adding[r].list \in DOMAIN entries =>
                \A e \in entries[adding[r].list] :
                    e.via \in adding[r].seen => e.pos < adding[r].pos

\* An entry has the position that its call has read.
EntryHolds(p, e) ==
    /\ e.pos \in Nat /\ e.via \in Adds
    /\ adding[e.via].at = "done" /\ adding[e.via].list = p /\ adding[e.via].pos = e.pos

\* Any of the rows have a last one among them, as finite sets of rows do.
HasLast(field, rows) ==
    \A some \in SUBSET rows :
        some # {} => \E m \in some : \A e \in some : e[field] <= m[field]

OrderInv ==
    /\ DOMAIN adding = Adds /\ \A r \in Adds : AddHolds(r)
    /\ \A p \in DOMAIN entries :
          HasLast("pos", entries[p]) /\ \A e \in entries[p] : EntryHolds(p, e)

LEMMA HighestBounds ==
    ASSUME NEW field, NEW rows, HasLast(field, rows), \A e \in rows : e[field] \in Nat
    PROVE  /\ Highest(field, rows) \in Nat
           /\ \A e \in rows : e[field] <= Highest(field, rows)
<1>1. CASE rows = {}
  BY <1>1 DEF Highest
<1>2. CASE rows # {}
  <2> DEFINE positions == {e[field] : e \in rows}
  <2>1. \E n \in positions : \A e \in rows : e[field] <= n
    BY <1>2 DEF HasLast
  <2>2. Highest(field, rows) =
            CHOOSE n \in positions : \A e \in rows : e[field] <= n
    BY <1>2 DEF Highest
  <2>3. /\ Highest(field, rows) \in positions
        /\ \A e \in rows : e[field] <= Highest(field, rows)
    BY <2>1, <2>2
  <2> QED
    BY <2>3
<1> QED
  BY <1>1, <1>2

LEMMA LastOfMore ==
    ASSUME NEW field, NEW rows, NEW row, NEW less \in SUBSET rows, HasLast(field, rows),
           row[field] \in Nat, \A e \in rows : e[field] \in Nat
    PROVE  HasLast(field, less \cup {row})
<1> SUFFICES ASSUME NEW some \in SUBSET (less \cup {row}), some # {}
             PROVE  \E m \in some : \A e \in some : e[field] <= m[field]
  BY DEF HasLast
<1>1. CASE some \ {row} = {}
  <2>1. some = {row}
    BY <1>1
  <2> QED
    BY <2>1
<1>2. CASE some \ {row} # {}
  <2>1. PICK m \in some \ {row} : \A e \in some \ {row} : e[field] <= m[field]
    BY <1>2 DEF HasLast
  <2>2. m[field] \in Nat /\ \A e \in some : e[field] \in Nat
    OBVIOUS
  <2>3. CASE row \in some /\ row[field] > m[field]
    <3>1. \A e \in some : e[field] <= row[field]
      BY <2>1, <2>2, <2>3
    <3> QED
      BY <2>3, <3>1
  <2>4. CASE row \notin some \/ row[field] <= m[field]
    <3>1. \A e \in some : e[field] <= m[field]
      BY <2>1, <2>2, <2>4
    <3> QED
      BY <3>1
  <2> QED
    BY <2>2, <2>3, <2>4
<1> QED
  BY <1>1, <1>2

\* Entries are only taken away.
LEMMA FewerEntries ==
    ASSUME OrderInv, adding' = adding,
           \A p \in DOMAIN entries' :
               \/ entries'[p] = {}
               \/ p \in DOMAIN entries /\ entries'[p] \subseteq entries[p]
    PROVE  OrderInv'
<1>1. ASSUME NEW p \in DOMAIN entries'
      PROVE  HasLast("pos", entries'[p]) /\ \A e \in entries'[p] : EntryHolds(p, e)'
  BY DEF OrderInv, HasLast, EntryHolds
<1>2. ASSUME NEW r \in Adds PROVE AddHolds(r)'
  BY DEF OrderInv, AddHolds
<1> QED
  BY <1>1, <1>2 DEF OrderInv, HasLast

LEMMA AddReadOrder ==
    ASSUME OrderInv, NEW r \in Adds, NEW u, NEW p, NEW t, AddRead(r, u, p, t)
    PROVE  OrderInv'
<1>1. /\ adding[r].at = "idle" /\ p \in DOMAIN entries /\ entries' = entries
      /\ adding'[r] = [at |-> "insert", list |-> p, track |-> t, pos |-> NextPosition(p),
                        seen |-> {a \in Adds : adding[a].at = "done"}]
      /\ DOMAIN adding' = Adds /\ \A q \in Adds \ {r} : adding'[q] = adding[q]
  BY DEF AddRead, OrderInv
<1>2. /\ adding'[r].at = "insert" /\ adding'[r].list = p
      /\ adding'[r].pos = NextPosition(p)
      /\ adding'[r].seen = {a \in Adds : adding[a].at = "done"}
      /\ HasFields(AddFields, adding'[r])
  BY <1>1 DEF HasFields, AddFields
<1>3. NextPosition(p) \in Nat /\ \A e \in entries[p] : e.pos < NextPosition(p)
  <2>1. HasLast("pos", entries[p]) /\ \A e \in entries[p] : e.pos \in Nat
    BY <1>1 DEF OrderInv, EntryHolds
  <2>2. /\ Highest("pos", entries[p]) \in Nat
        /\ \A e \in entries[p] : e.pos <= Highest("pos", entries[p])
    BY <2>1, HighestBounds
  <2> QED
    BY <2>1, <2>2 DEF NextPosition
<1>4. AddHolds(r)'
  BY <1>1, <1>2, <1>3 DEF AddHolds, HasFields, AddFields
<1>5. ASSUME NEW q \in Adds \ {r} PROVE AddHolds(q)'
  BY <1>1 DEF OrderInv, AddHolds
<1>6. ASSUME NEW o \in DOMAIN entries, NEW e \in entries[o] PROVE EntryHolds(o, e)'
  <2>1. EntryHolds(o, e) /\ e.via # r
    BY <1>1 DEF OrderInv, EntryHolds
  <2> QED
    BY <1>1, <2>1 DEF EntryHolds
<1> QED
  BY <1>1, <1>4, <1>5, <1>6 DEF OrderInv, HasLast

LEMMA AddInsertOrder ==
    ASSUME OrderInv, NEW r \in Adds, AddInsert(r)
    PROVE  OrderInv'
<1> DEFINE p == adding[r].list
           others == {e \in entries[p] : e.track # adding[r].track}
           row == [track |-> adding[r].track, pos |-> adding[r].pos, via |-> r,
                   added |-> Highest("added", entries[p]) + 1]
<1>1. /\ adding[r].at = "insert" /\ AddHolds(r)
      /\ adding'[r] = [adding[r] EXCEPT !.at = "done"]
      /\ DOMAIN adding' = Adds /\ \A q \in Adds \ {r} : adding'[q] = adding[q]
      /\ entries' = entries \/ entries' = [entries EXCEPT ![p] = others \cup {row}]
  BY DEF AddInsert, OrderInv
<1>2. /\ adding'[r].at = "done" /\ adding'[r].list = p
      /\ adding'[r].pos = adding[r].pos /\ adding[r].pos \in Nat
      /\ adding'[r].seen = adding[r].seen
      /\ HasFields(AddFields, adding'[r])
  BY <1>1 DEF AddHolds, HasFields, AddFields
<1>3. row.via = r /\ row.pos = adding[r].pos
  OBVIOUS
<1>4. DOMAIN entries' = DOMAIN entries
  BY <1>1
<1>5. ASSUME NEW o \in DOMAIN entries
      PROVE  /\ \A e \in entries'[o] : e \in entries[o] \/ (o = p /\ e = row)
             /\ entries'[o] = entries[o] \/ (o = p /\ entries'[o] = others \cup {row})
  <2>1. others \subseteq entries[p]
    OBVIOUS
  <2> HIDE DEF others, row, p
  <2>2. entries'[o] = entries[o] \/ (o = p /\ entries'[o] = others \cup {row})
    BY <1>1
  <2> QED
    BY <2>1, <2>2
<1> HIDE DEF others, row
<1>6. ASSUME NEW o \in DOMAIN entries PROVE HasLast("pos", entries'[o])
  <2>1. HasLast("pos", entries[o]) /\ \A e \in entries[o] : e.pos \in Nat
    BY DEF OrderInv, EntryHolds
  <2>2. o = p => others \in SUBSET entries[o]
    BY DEF others
  <2>3. o = p => HasLast("pos", others \cup {row})
    BY <1>2, <1>3, <2>1, <2>2, LastOfMore
  <2> QED
    BY <1>5, <2>1, <2>3
<1>7. ASSUME NEW o \in DOMAIN entries, NEW e \in entries'[o] PROVE EntryHolds(o, e)'
  <2>1. CASE e \in entries[o]
    <3>1. EntryHolds(o, e) /\ e.via # r
      BY <1>1, <2>1 DEF OrderInv, EntryHolds
    <3> QED
      BY <1>1, <3>1 DEF EntryHolds
  <2>2. CASE o = p /\ e = row
    BY <1>2, <1>3, <2>2 DEF EntryHolds
  <2> QED
    BY <1>5, <2>1, <2>2
<1>8. ASSUME NEW q \in Adds PROVE AddHolds(q)'
  <2>1. AddHolds(q) /\ (q # r => adding'[q] = adding[q])
    BY <1>1 DEF OrderInv
  <2>2. /\ HasFields({"at"}, adding'[q])
        /\ adding'[q].at # "idle" =>
              HasFields(AddFields, adding'[q]) /\ adding'[q].pos \in Nat
    BY <1>2, <2>1 DEF AddHolds, HasFields, AddFields
  <2>3. adding'[q].at # "idle" =>
            /\ adding[q].at # "idle" /\ adding'[q].list = adding[q].list
            /\ adding'[q].pos = adding[q].pos /\ adding'[q].seen = adding[q].seen
    BY <1>1, <1>2, <2>1
  <2>4. ASSUME adding'[q].at # "idle", NEW a \in adding'[q].seen
        PROVE  a \in Adds /\ adding'[a].at = "done" /\ a # r
    <3>1. a \in Adds /\ adding[a].at = "done"
      BY <2>1, <2>3, <2>4 DEF AddHolds
    <3> QED
      BY <1>1, <3>1
  <2>5. ASSUME adding'[q].at # "idle", adding'[q].list \in DOMAIN entries',
               NEW e \in entries'[adding'[q].list], e.via \in adding'[q].seen
        PROVE  e.pos < adding'[q].pos
    <3>1. e.via # r
      BY <2>4, <2>5
    <3>2. e \in entries[adding[q].list]
      BY <1>3, <1>4, <1>5, <2>3, <2>5, <3>1
    <3> QED
      BY <1>4, <2>1, <2>3, <2>5, <3>2 DEF AddHolds
  <2> QED
    BY <2>2, <2>4, <2>5 DEF AddHolds
<1> QED
  BY <1>1, <1>4, <1>6, <1>7, <1>8 DEF OrderInv, HasLast

LEMMA OrderInvStep == OrderInv /\ [Next]_vars => OrderInv'
<1> SUFFICES ASSUME OrderInv, [Next]_vars PROVE OrderInv'
  OBVIOUS
<1>0. CASE UNCHANGED <<entries, adding>>
  BY <1>0, FewerEntries
<1>1. ASSUME NEW t, RemoveTrack(t) PROVE OrderInv'
  BY <1>1, FewerEntries DEF RemoveTrack
<1>2. ASSUME NEW u, NEW p, NEW v, CreatePlaylist(u, p, v) PROVE OrderInv'
  BY <1>2, FewerEntries DEF CreatePlaylist
<1>3. ASSUME NEW u, NEW p, DeletePlaylist(u, p) PROVE OrderInv'
  BY <1>3, FewerEntries DEF DeletePlaylist
<1>4. ASSUME NEW u, NEW p, NEW t, RemovePlaylistTrack(u, p, t) PROVE OrderInv'
  BY <1>4, FewerEntries DEF RemovePlaylistTrack
<1>5. CASE CatalogNext
  BY <1>0, <1>1, <1>5 DEF CatalogNext, Upload, RemoveUser, ManageTrack, Moderate, ManageAlbum,
     RemoveAlbum, CatalogOnly, libraryVars, listVars
<1>6. CASE SocialNext
  BY <1>0, <1>6, SocialFrame DEF listVars
<1>7. CASE ListNext
  BY <1>0, <1>2, <1>3, <1>4, <1>7, AddReadOrder, AddInsertOrder DEF ListNext, UpdatePlaylist
<1>8. CASE PlayNext
  BY <1>0, <1>8, PlayFrame DEF KeepRest, listVars
<1> QED
  BY <1>0, <1>5, <1>6, <1>7, <1>8 DEF Next, vars

LEMMA OrderInvariant == Spec => []OrderInv
<1>1. Init => OrderInv
  BY DEF Init, OrderInv, AddHolds, HasFields
<1> QED
  BY <1>1, OrderInvStep, PTL DEF Spec

\* A playlist lists its tracks in the order of adding, for any number of lists,
\* tracks and overlapping calls.
THEOREM PlaylistsKeepTheirOrder == Spec => []AddOrderKept
<1>1. OrderInv => AddOrderKept
  <2> SUFFICES ASSUME OrderInv, NEW p \in DOMAIN entries, NEW e \in entries[p],
                      NEW f \in entries[p], e.via \in adding[f.via].seen
               PROVE  e.pos < f.pos
    BY DEF AddOrderKept
  <2>1. EntryHolds(p, f) /\ f.via \in Adds /\ AddHolds(f.via)
    BY DEF OrderInv, EntryHolds
  <2> QED
    BY <2>1 DEF EntryHolds, AddHolds
<1> QED
  BY <1>1, OrderInvariant, PTL
-----------------------------------------------------------------------------
(* Types.                                                                  *)

ShelfTyped ==
    /\ spent \subseteq Tracks \cup Albums
    /\ DOMAIN tracks \subseteq spent \cap Tracks /\ tracks \in [DOMAIN tracks -> TrackRows]
    /\ DOMAIN albums \subseteq spent \cap Albums /\ albums \in [DOMAIN albums -> AlbumRows]

LEMMA RowUpdates ==
    /\ \A row \in TrackRows, v \in TrackVis : [row EXCEPT !.vis = v] \in TrackRows
    /\ \A row \in TrackRows, u \in Owners : [row EXCEPT !.owner = u] \in TrackRows
    /\ \A row \in TrackRows, a \in Albums \cup {None} : [row EXCEPT !.album = a] \in TrackRows
    /\ \A row \in TrackRows, v \in TrackVis, ar \in Artists, a \in Albums :
           [row EXCEPT !.vis = v, !.artist = ar, !.album = a] \in TrackRows
    /\ \A row \in AlbumRows, v \in AlbumVis : [row EXCEPT !.vis = v] \in AlbumRows
    /\ \A row \in AlbumRows, u \in Owners : [row EXCEPT !.owner = u] \in AlbumRows
    /\ \A row \in AlbumRows, ar \in Artists, ti \in Titles, v \in AlbumVis :
           [row EXCEPT !.artist = ar, !.title = ti, !.vis = v] \in AlbumRows
<1>1. \A row \in TrackRows, v \in TrackVis : [row EXCEPT !.vis = v] \in TrackRows
  BY DEF TrackRows
<1>2. \A row \in TrackRows, u \in Owners : [row EXCEPT !.owner = u] \in TrackRows
  BY DEF TrackRows
<1>3. \A row \in TrackRows, a \in Albums \cup {None} : [row EXCEPT !.album = a] \in TrackRows
  BY DEF TrackRows
<1>4. \A row \in TrackRows, v \in TrackVis, ar \in Artists, a \in Albums :
           [row EXCEPT !.vis = v, !.artist = ar, !.album = a] \in TrackRows
  BY DEF TrackRows
<1>5. \A row \in AlbumRows, v \in AlbumVis : [row EXCEPT !.vis = v] \in AlbumRows
  BY DEF AlbumRows
<1>6. \A row \in AlbumRows, u \in Owners : [row EXCEPT !.owner = u] \in AlbumRows
  BY DEF AlbumRows
<1>7. \A row \in AlbumRows, ar \in Artists, ti \in Titles, v \in AlbumVis :
           [row EXCEPT !.artist = ar, !.title = ti, !.vis = v] \in AlbumRows
  BY DEF AlbumRows
<1> QED
  BY <1>1, <1>2, <1>3, <1>4, <1>5, <1>6, <1>7

\* upsertAlbum: the target is an album id, the table keeps its type.
LEMMA UpsertTyped ==
    ASSUME ShelfTyped, NEW u \in Owners, NEW a, NEW ar \in Artists, NEW ti \in Titles,
           NEW v \in AlbumVis, UpsertTarget(a, ar, ti), albums' = Upserted(a, u, ar, ti, v)
    PROVE  /\ a \in Albums /\ DOMAIN albums' = DOMAIN albums \cup {a}
           /\ albums' \in [DOMAIN albums' -> AlbumRows]
<1>1. a \in Albums
  BY DEF UpsertTarget, AlbumsNamed, ShelfTyped
<1>2. DOMAIN albums' = DOMAIN albums \cup {a}
  BY DEF Upserted
<1>3. [owner |-> u, vis |-> v, artist |-> ar, title |-> ti] \in AlbumRows
  BY DEF AlbumRows
<1>4. ASSUME a \in DOMAIN albums
      PROVE  [albums[a] EXCEPT !.vis = MergedVis(@, v)] \in AlbumRows
  <2>1. albums[a] \in AlbumRows
    BY <1>4 DEF ShelfTyped
  <2>2. MergedVis(albums[a].vis, v) \in AlbumVis
    BY <2>1 DEF AlbumRows, MergedVis, AlbumVis
  <2> QED
    BY <2>1, <2>2, RowUpdates
<1>5. ASSUME NEW x \in DOMAIN albums' PROVE albums'[x] \in AlbumRows
  BY <1>2, <1>3, <1>4, <1>5 DEF Upserted, ShelfTyped
<1>6. albums' = [x \in DOMAIN albums' |-> albums'[x]]
  BY DEF Upserted
<1> QED
  BY <1>1, <1>2, <1>5, <1>6

LEMMA ImportTyped ==
    ASSUME ShelfTyped, NEW u \in Owners, NEW t, NEW a, NEW ar \in Artists, NEW ti \in Titles,
           NEW v \in TrackVis, ImportTrack(u, t, a, ar, ti, v)
    PROVE  ShelfTyped'
<1>1. AlbumVisFor(v) \in AlbumVis
  BY DEF AlbumVisFor, AlbumVis
<1>2. /\ a \in Albums /\ DOMAIN albums' = DOMAIN albums \cup {a}
      /\ albums' \in [DOMAIN albums' -> AlbumRows]
  BY <1>1, UpsertTyped DEF ImportTrack
<1>3. [owner |-> u, vis |-> v, artist |-> ar, album |-> a] \in TrackRows
  BY <1>2 DEF TrackRows
<1>4. DOMAIN tracks' = DOMAIN tracks \cup {t} /\ tracks' \in [DOMAIN tracks' -> TrackRows]
  BY <1>3 DEF ImportTrack, ShelfTyped
<1>5. t \in Tracks /\ spent' = spent \cup {t, a}
  BY DEF ImportTrack
<1> QED
  BY <1>2, <1>4, <1>5 DEF ShelfTyped

LEMMA EditTrackTyped ==
    ASSUME ShelfTyped, NEW u \in Owners, NEW t, NEW a, NEW ar \in Artists, NEW ti \in Titles,
           NEW v \in TrackVis, EditTrack(t, a, u, ar, ti, v)
    PROVE  ShelfTyped'
<1>1. AlbumVisFor(v) \in AlbumVis
  BY DEF AlbumVisFor, AlbumVis
<1>2. /\ a \in Albums /\ DOMAIN albums' = DOMAIN albums \cup {a}
      /\ albums' \in [DOMAIN albums' -> AlbumRows]
  BY <1>1, UpsertTyped DEF EditTrack
<1>3. [tracks[t] EXCEPT !.vis = v, !.artist = ar, !.album = a] \in TrackRows
  BY <1>2, RowUpdates DEF EditTrack, ShelfTyped
<1>4. /\ DOMAIN tracks' = DOMAIN tracks
      /\ tracks' = [tracks EXCEPT ![t] =
                       [tracks[t] EXCEPT !.vis = v, !.artist = ar, !.album = a]]
  BY DEF EditTrack, ShelfTyped
<1>5. tracks' \in [DOMAIN tracks' -> TrackRows]
  BY <1>3, <1>4 DEF ShelfTyped
<1> QED
  BY <1>2, <1>4, <1>5 DEF ShelfTyped, EditTrack

LEMMA EditAlbumTyped ==
    ASSUME ShelfTyped, NEW a, NEW ar \in Artists, NEW ti \in Titles, NEW v \in AlbumVis,
           NEW T, EditAlbum(a, ar, ti, v, T)
    PROVE  ShelfTyped'
<1>1. [albums[a] EXCEPT !.artist = ar, !.title = ti, !.vis = v] \in AlbumRows
  BY RowUpdates DEF EditAlbum, ShelfTyped
<1>2. /\ DOMAIN albums' = DOMAIN albums
      /\ albums' = [albums EXCEPT ![a] =
                       [albums[a] EXCEPT !.artist = ar, !.title = ti, !.vis = v]]
  BY DEF EditAlbum, ShelfTyped
<1>3. albums' \in [DOMAIN albums' -> AlbumRows]
  BY <1>1, <1>2 DEF ShelfTyped
<1>4. \A t \in DOMAIN tracks : [tracks[t] EXCEPT !.vis = "public"] \in TrackRows
  BY RowUpdates, ShelfAssumption DEF ShelfTyped
<1>5. DOMAIN tracks' = DOMAIN tracks /\ tracks' \in [DOMAIN tracks' -> TrackRows]
  BY <1>4 DEF EditAlbum, ShelfTyped
<1> QED
  BY <1>2, <1>3, <1>5 DEF ShelfTyped, EditAlbum

LEMMA DeleteAlbumTyped ==
    ASSUME ShelfTyped, NEW a, DeleteAlbum(a)
    PROVE  ShelfTyped'
<1>1. \A t \in DOMAIN tracks : [tracks[t] EXCEPT !.album = None] \in TrackRows
  BY RowUpdates DEF ShelfTyped
<1>2. DOMAIN tracks' = DOMAIN tracks /\ tracks' \in [DOMAIN tracks' -> TrackRows]
  BY <1>1 DEF DeleteAlbum, ShelfTyped
<1>3. DOMAIN albums' \subseteq DOMAIN albums /\ albums' \in [DOMAIN albums' -> AlbumRows]
  BY DEF DeleteAlbum, ShelfTyped
<1> QED
  BY <1>2, <1>3 DEF ShelfTyped, DeleteAlbum

LEMMA TrackStepsTyped ==
    ASSUME ShelfTyped, NEW t, NEW v \in TrackVis, SetVisibility(t, v) \/ DeleteTrack(t)
    PROVE  ShelfTyped'
<1>1. CASE SetVisibility(t, v)
  <2>1. [tracks[t] EXCEPT !.vis = v] \in TrackRows
    BY <1>1, RowUpdates DEF SetVisibility, ShelfTyped
  <2>2. DOMAIN tracks' = DOMAIN tracks /\ tracks' \in [DOMAIN tracks' -> TrackRows]
    BY <1>1, <2>1 DEF SetVisibility, ShelfTyped
  <2> QED
    BY <1>1, <2>2 DEF SetVisibility, ShelfTyped
<1>2. CASE DeleteTrack(t)
  <2>1. DOMAIN tracks' \subseteq DOMAIN tracks /\ tracks' \in [DOMAIN tracks' -> TrackRows]
    BY <1>2 DEF DeleteTrack, ShelfTyped
  <2> QED
    BY <1>2, <2>1 DEF DeleteTrack, ShelfTyped
<1> QED
  BY <1>1, <1>2

LEMMA ReassignTyped ==
    ASSUME ShelfTyped, NEW u \in Users, NEW T, NEW A, Reassign(u, T, A)
    PROVE  ShelfTyped'
<1>1. GhostOf(u) \in Owners
  BY DEF Owners
<1>2. \A t \in DOMAIN tracks : [tracks[t] EXCEPT !.owner = GhostOf(u)] \in TrackRows
  BY <1>1, RowUpdates DEF ShelfTyped
<1>3. \A a \in DOMAIN albums : [albums[a] EXCEPT !.owner = GhostOf(u)] \in AlbumRows
  BY <1>1, RowUpdates DEF ShelfTyped
<1>4. DOMAIN tracks' = DOMAIN tracks /\ tracks' \in [DOMAIN tracks' -> TrackRows]
  BY <1>2 DEF Reassign, ShelfTyped
<1>5. DOMAIN albums' = DOMAIN albums /\ albums' \in [DOMAIN albums' -> AlbumRows]
  BY <1>3 DEF Reassign, ShelfTyped
<1> QED
  BY <1>4, <1>5 DEF ShelfTyped, Reassign

LEMMA ShelfTypedStep == ShelfTyped /\ [Next]_vars => ShelfTyped'
<1> SUFFICES ASSUME ShelfTyped, [Next]_vars PROVE ShelfTyped'
  OBVIOUS
<1>0. CASE UNCHANGED shelfVars
  BY <1>0 DEF shelfVars, ShelfTyped
<1>1. CASE CatalogNext
  <2>1. ASSUME NEW u \in Users, Upload(u) PROVE ShelfTyped'
    <3>1. PICK t \in Tracks, a \in Albums, ar \in Artists, ti \in Titles, v \in TrackVis :
              ImportTrack(u, t, a, ar, ti, v)
      BY <2>1 DEF Upload
    <3>2. u \in Owners
      BY DEF Owners
    <3> QED
      BY <3>1, <3>2, ImportTyped
  <2>2. ASSUME NEW t \in Tracks, ManageTrack(t) PROVE ShelfTyped'
    <3>1. PICK a \in Albums, ar \in Artists, ti \in Titles, v \in TrackVis :
              EditTrack(t, a, tracks[t].owner, ar, ti, v)
      BY <2>2 DEF ManageTrack
    <3>2. tracks[t].owner \in Owners
      BY <2>2 DEF ManageTrack, ShelfTyped, TrackRows
    <3> QED
      BY <3>1, <3>2, EditTrackTyped
  <2>3. ASSUME NEW a \in Albums, ManageAlbum(a) PROVE ShelfTyped'
    <3>1. PICK ar \in Artists, ti \in Titles, v \in AlbumVis :
              EditAlbum(a, ar, ti, v, IF v = "public" THEN Held(a) ELSE {})
      BY <2>3 DEF ManageAlbum
    <3> QED
      BY <3>1, EditAlbumTyped
  <2>4. ASSUME NEW a \in Albums, RemoveAlbum(a) PROVE ShelfTyped'
    BY <2>4, DeleteAlbumTyped DEF RemoveAlbum
  <2>5. ASSUME NEW t \in Tracks, NEW v \in TrackVis, Moderate(t, v) \/ RemoveTrack(t)
        PROVE  ShelfTyped'
    BY <2>5, TrackStepsTyped DEF Moderate, RemoveTrack
  <2>6. ASSUME NEW u \in Users, RemoveUser(u) PROVE ShelfTyped'
    BY <2>6, ReassignTyped DEF RemoveUser
  <2>7. "public" \in TrackVis
    BY ShelfAssumption
  <2> QED
    BY <1>1, <2>1, <2>2, <2>3, <2>4, <2>5, <2>6, <2>7 DEF CatalogNext
<1>2. CASE SocialNext
  BY <1>0, <1>2, SocialFrame DEF shelfVars
<1>3. CASE ListNext
  BY <1>0, <1>3, ListFrame DEF KeepOthers, shelfVars
<1>4. CASE PlayNext
  BY <1>0, <1>4, PlayFrame DEF KeepRest, shelfVars
<1> QED
  BY <1>0, <1>1, <1>2, <1>3, <1>4 DEF Next, vars, shelfVars
PlaylistRows == [owner : Owners, vis : AlbumVis]
Entries == [track : Tracks, pos : Nat, via : Adds, added : Nat]

SocialTyped == follows \subseteq Pairs /\ badges \subseteq Users /\ favorites \subseteq Favorites

\* OrderInv has the rest: which stages a call may be in, and its position.
AddTyped(r) ==
    /\ adding[r].at \in {"idle", "insert", "done"}
    /\ adding[r].at # "idle" => adding[r].track \in Tracks

ListsTyped ==
    /\ playlists \in [DOMAIN playlists -> PlaylistRows]
    /\ DOMAIN playlists \subseteq DOMAIN entries /\ DOMAIN entries \subseteq Playlists
    /\ \A p \in DOMAIN entries :
           entries[p] \subseteq Entries /\ HasLast("added", entries[p])
    /\ \A r \in Adds : AddTyped(r)

LEMMA SocialTypedStep == SocialTyped /\ [Next]_vars => SocialTyped'
<1> SUFFICES ASSUME SocialTyped, [Next]_vars PROVE SocialTyped'
  OBVIOUS
<1>0. ASSUME UNCHANGED <<follows, badges>>, favorites' \subseteq favorites PROVE SocialTyped'
  BY <1>0 DEF SocialTyped
<1>1. CASE CatalogNext
  <2>1. ASSUME NEW u, RemoveUser(u) PROVE SocialTyped'
    BY <2>1 DEF RemoveUser, SocialTyped
  <2> QED
    BY <1>0, <1>1, <2>1 DEF CatalogNext, Upload, ManageTrack, RemoveTrack, Moderate,
       ManageAlbum, RemoveAlbum, Unfavored, CatalogOnly, libraryVars
<1>2. CASE SocialNext
  <2>1. \A f \in Pairs \cup Favorites : f = <<f[1], f[2]>>
    BY LibraryAssumption
  <2>2. ASSUME NEW f \in Pairs, FollowUser(f[1], f[2]) \/ UnfollowUser(f[1], f[2])
        PROVE  SocialTyped'
    BY <2>1, <2>2 DEF FollowUser, UnfollowUser, SocialTyped
  <2>3. ASSUME NEW f \in Favorites, AddFavorite(f[1], f[2]) \/ RemoveFavorite(f[1], f[2])
        PROVE  SocialTyped'
    BY <2>1, <2>3 DEF AddFavorite, RemoveFavorite, KeepAllElse, SocialTyped
  <2> QED
    BY <1>2, <2>2, <2>3 DEF SocialNext
<1>3. CASE ListNext
  <2>1. favorites' \subseteq favorites
    BY <1>3 DEF ListNext, CreatePlaylist, UpdatePlaylist, DeletePlaylist, RemovePlaylistTrack,
       AddRead, AddInsert, Unfavored
  <2> QED
    BY <1>0, <1>3, <2>1, ListFrame DEF KeepOthers
<1>4. CASE PlayNext
  BY <1>0, <1>4, PlayFrame DEF KeepRest
<1> QED
  BY <1>0, <1>1, <1>2, <1>3, <1>4 DEF Next, vars

LEMMA FewerEntriesTyped ==
    ASSUME ListsTyped, NEW rows, NEW less \in SUBSET rows,
           rows \subseteq Entries, HasLast("added", rows)
    PROVE  less \subseteq Entries /\ HasLast("added", less)
  BY DEF HasLast

\* No step on the playlists themselves touches the calls, or a type of entries.
LEMMA ListRowsTyped ==
    ASSUME ListsTyped, adding' = adding, playlists' \in [DOMAIN playlists' -> PlaylistRows],
           DOMAIN playlists' \subseteq DOMAIN entries', DOMAIN entries' \subseteq Playlists,
           \A p \in DOMAIN entries' :
               \/ entries'[p] = {}
               \/ p \in DOMAIN entries /\ entries'[p] \subseteq entries[p]
    PROVE  ListsTyped'
<1>1. ASSUME NEW p \in DOMAIN entries'
      PROVE  entries'[p] \subseteq Entries /\ HasLast("added", entries'[p])
  <2>1. CASE entries'[p] = {}
    BY <2>1 DEF HasLast
  <2>2. CASE p \in DOMAIN entries /\ entries'[p] \subseteq entries[p]
    <3>1. entries[p] \subseteq Entries /\ HasLast("added", entries[p])
      BY <2>2 DEF ListsTyped
    <3> QED
      BY <2>2, <3>1, FewerEntriesTyped
  <2> QED
    BY <1>1, <2>1, <2>2
<1>2. \A r \in Adds : AddTyped(r)'
  BY DEF ListsTyped, AddTyped
<1> QED
  BY <1>1, <1>2 DEF ListsTyped, HasLast

LEMMA AddReadTyped ==
    ASSUME OrderInv, ListsTyped, NEW r \in Adds, NEW u, NEW p, NEW t \in Tracks,
           AddRead(r, u, p, t)
    PROVE  ListsTyped'
<1>1. /\ r \in DOMAIN adding /\ \A q \in Adds \ {r} : adding'[q] = adding[q]
      /\ adding'[r].at = "insert" /\ adding'[r].track = t
  BY DEF AddRead, OrderInv
<1>2. \A q \in Adds : AddTyped(q)'
  BY <1>1 DEF ListsTyped, AddTyped
<1>3. UNCHANGED <<playlists, entries>>
  BY DEF AddRead
<1> QED
  BY <1>2, <1>3 DEF ListsTyped, HasLast

LEMMA AddInsertTyped ==
    ASSUME OrderInv, ListsTyped, NEW r \in Adds, AddInsert(r)
    PROVE  ListsTyped'
<1> DEFINE p == adding[r].list
           others == {e \in entries[p] : e.track # adding[r].track}
           row == [track |-> adding[r].track, pos |-> adding[r].pos, via |-> r,
                   added |-> Highest("added", entries[p]) + 1]
<1>1. /\ adding[r].at = "insert" /\ AddHolds(r) /\ AddTyped(r) /\ r \in DOMAIN adding
      /\ adding' = [adding EXCEPT ![r].at = "done"] /\ playlists' = playlists
      /\ entries' = entries \/ (/\ p \in DOMAIN playlists
                                /\ entries' = [entries EXCEPT ![p] = others \cup {row}])
  BY DEF AddInsert, OrderInv, ListsTyped
<1>2. adding[r].pos \in Nat /\ adding[r].track \in Tracks /\ HasFields(AddFields, adding[r])
  BY <1>1 DEF AddHolds, AddTyped
<1>3. /\ adding'[r].at = "done" /\ adding'[r].track = adding[r].track
      /\ \A q \in Adds \ {r} : adding'[q] = adding[q]
  BY <1>1, <1>2 DEF HasFields, AddFields
<1>4. ASSUME NEW q \in Adds PROVE AddTyped(q)'
  <2>1. AddTyped(q)
    BY DEF ListsTyped
  <2> QED
    BY <1>2, <1>3, <2>1 DEF AddTyped
<1>5. CASE entries' = entries
  BY <1>1, <1>4, <1>5 DEF ListsTyped, HasLast
<1>6. CASE p \in DOMAIN playlists /\ entries' = [entries EXCEPT ![p] = others \cup {row}]
  <2>1. p \in DOMAIN entries /\ entries[p] \subseteq Entries /\ HasLast("added", entries[p])
    BY <1>6 DEF ListsTyped
  <2>2. \A e \in entries[p] : e.added \in Nat
    BY <2>1 DEF Entries
  <2>3. Highest("added", entries[p]) \in Nat
    <3>1. \A e \in entries[p] : e["added"] \in Nat
      BY <2>2
    <3> QED
      BY <2>1, <3>1, HighestBounds
  <2>4. row \in Entries /\ row.added \in Nat
    BY <1>2, <2>3 DEF Entries
  <2>5. HasLast("added", others \cup {row})
    <3>1. others \in SUBSET entries[p]
      OBVIOUS
    <3>2. row["added"] \in Nat /\ \A e \in entries[p] : e["added"] \in Nat
      BY <2>2, <2>4
    <3> HIDE DEF row, others
    <3> QED
      BY <2>1, <3>1, <3>2, LastOfMore
  <2>6. others \cup {row} \subseteq Entries
    BY <2>1, <2>4
  <2> HIDE DEF row, others, p
  <2>7. ASSUME NEW o \in DOMAIN entries'
        PROVE  entries'[o] \subseteq Entries /\ HasLast("added", entries'[o])
    <3>1. o \in DOMAIN entries /\ (entries'[o] = entries[o] \/ entries'[o] = others \cup {row})
      BY <1>6, <2>1, <2>7
    <3> QED
      BY <2>5, <2>6, <3>1 DEF ListsTyped
  <2>8. DOMAIN entries' = DOMAIN entries
    BY <1>6
  <2> QED
    BY <1>1, <1>4, <2>7, <2>8 DEF ListsTyped, HasLast
<1> QED
  BY <1>1, <1>5, <1>6

LEMMA ListsTypedStep == OrderInv /\ ListsTyped /\ [Next]_vars => ListsTyped'
<1> SUFFICES ASSUME OrderInv, ListsTyped, [Next]_vars PROVE ListsTyped'
  OBVIOUS
<1>0. CASE UNCHANGED listVars
  BY <1>0, ListRowsTyped DEF ListsTyped, listVars
<1>1. CASE CatalogNext
  <2>1. ASSUME NEW t, RemoveTrack(t) PROVE ListsTyped'
    <3>1. /\ playlists' = playlists /\ adding' = adding
          /\ entries' = [p \in DOMAIN entries |-> {e \in entries[p] : e.track # t}]
      BY <2>1 DEF RemoveTrack
    <3> QED
      BY <3>1, ListRowsTyped DEF ListsTyped
  <2>2. ASSUME NEW u \in Users, RemoveUser(u) PROVE ListsTyped'
    <3>1. GhostOf(u) \in Owners
      BY DEF Owners
    <3>2. \A p \in DOMAIN playlists : [playlists[p] EXCEPT !.owner = GhostOf(u)] \in PlaylistRows
      BY <3>1 DEF ListsTyped, PlaylistRows
    <3>3. /\ DOMAIN playlists' = DOMAIN playlists /\ UNCHANGED <<entries, adding>>
          /\ playlists' \in [DOMAIN playlists' -> PlaylistRows]
      BY <2>2, <3>2 DEF RemoveUser, ListsTyped
    <3> QED
      BY <3>3, ListRowsTyped DEF ListsTyped
  <2> QED
    BY <1>0, <1>1, <2>1, <2>2 DEF CatalogNext, Upload, ManageTrack, Moderate, ManageAlbum,
       RemoveAlbum, CatalogOnly, libraryVars, listVars
<1>2. CASE SocialNext
  BY <1>0, <1>2, SocialFrame DEF listVars
<1>3. ASSUME NEW u \in Users, NEW p \in Playlists, NEW v \in AlbumVis, CreatePlaylist(u, p, v)
      PROVE  ListsTyped'
  <2>1. [owner |-> u, vis |-> v] \in PlaylistRows
    BY DEF PlaylistRows, Owners
  <2>2. /\ DOMAIN playlists' = DOMAIN playlists \cup {p} /\ adding' = adding
        /\ playlists' \in [DOMAIN playlists' -> PlaylistRows]
    BY <1>3, <2>1 DEF CreatePlaylist, ListsTyped
  <2>3. /\ DOMAIN entries' = DOMAIN entries \cup {p} /\ entries'[p] = {}
        /\ \A o \in DOMAIN entries : entries'[o] = entries[o]
    BY <1>3 DEF CreatePlaylist
  <2> QED
    BY <2>2, <2>3, ListRowsTyped DEF ListsTyped
<1>4. ASSUME NEW u, NEW p, NEW v \in AlbumVis, UpdatePlaylist(u, p, v) PROVE ListsTyped'
  <2>1. \A x \in DOMAIN playlists : [playlists[x] EXCEPT !.vis = v] \in PlaylistRows
    BY DEF ListsTyped, PlaylistRows
  <2>2. /\ DOMAIN playlists' = DOMAIN playlists /\ UNCHANGED <<entries, adding>>
        /\ playlists' \in [DOMAIN playlists' -> PlaylistRows]
    BY <1>4, <2>1 DEF UpdatePlaylist, ListsTyped
  <2> QED
    BY <2>2, ListRowsTyped DEF ListsTyped
<1>5. ASSUME NEW u, NEW p, DeletePlaylist(u, p) PROVE ListsTyped'
  <2>1. /\ DOMAIN playlists' \subseteq DOMAIN playlists /\ adding' = adding
        /\ playlists' \in [DOMAIN playlists' -> PlaylistRows]
        /\ entries' = [entries EXCEPT ![p] = {}]
    BY <1>5 DEF DeletePlaylist, ListsTyped
  <2>2. /\ DOMAIN entries' = DOMAIN entries
        /\ \A o \in DOMAIN entries : entries'[o] = {} \/ entries'[o] \subseteq entries[o]
    BY <2>1
  <2> QED
    BY <2>1, <2>2, ListRowsTyped DEF ListsTyped
<1>6. ASSUME NEW u, NEW p, NEW t, RemovePlaylistTrack(u, p, t) PROVE ListsTyped'
  <2>1. /\ UNCHANGED <<playlists, adding>> /\ DOMAIN entries' = DOMAIN entries
        /\ \A o \in DOMAIN entries : entries'[o] \subseteq entries[o]
    BY <1>6 DEF RemovePlaylistTrack
  <2> QED
    BY <2>1, ListRowsTyped DEF ListsTyped
<1>7. CASE ListNext
  BY <1>3, <1>4, <1>5, <1>6, <1>7, AddReadTyped, AddInsertTyped DEF ListNext
<1>8. CASE PlayNext
  BY <1>0, <1>8, PlayFrame DEF KeepRest
<1> QED
  BY <1>0, <1>1, <1>2, <1>7, <1>8 DEF Next, vars, listVars

\* Whatever is uploaded, edited, deleted and reassigned, and however the calls on
\* playlists and plays overlap, every row and every call keeps its type, and no id
\* comes from outside its table.
THEOREM LibraryTyped == Spec => []TypeOK
<1>1. Init => ShelfTyped /\ SocialTyped /\ ListsTyped
  <2> SUFFICES ASSUME Init PROVE ShelfTyped /\ SocialTyped /\ ListsTyped
    OBVIOUS
  <2>1. ShelfTyped
    BY DEF Init, ShelfInit, ShelfTyped
  <2>2. SocialTyped /\ ListsTyped
    BY DEF Init, SocialTyped, ListsTyped, AddTyped
  <2> QED
    BY <2>1, <2>2
<1>2. ShelfTyped /\ SocialTyped /\ ListsTyped /\ OrderInv /\ [Next]_vars
      => ShelfTyped' /\ SocialTyped' /\ ListsTyped'
  BY ShelfTypedStep, SocialTypedStep, ListsTypedStep
<1>3. /\ ShelfTyped /\ SocialTyped /\ ListsTyped /\ PlaysInv
      => TypeOK
  BY DEF ShelfTyped, SocialTyped, ListsTyped, PlaysTyped, PlaysInv, AddTyped, PlaylistRows,
     Entries, TypeOK
<1> QED
  BY <1>1, <1>2, <1>3, OrderInvariant, PlaysInvariant, PTL DEF Spec
=============================================================================
