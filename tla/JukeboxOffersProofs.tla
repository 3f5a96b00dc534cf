------------------------- MODULE JukeboxOffersProofs -------------------------
(***************************************************************************)
(* JukeboxQueue implements TrackOffers: each step of a request, of the     *)
(* clock or of the library is a step of TrackOffers or leaves all offers   *)
(* as they are.                                                            *)
(***************************************************************************)
EXTENDS JukeboxQueueProofs

OffersOf(s) == [t \in Tracks |-> OfferOf(s, t)]
Gone == {t \in Tracks : visibility[t] = "deleted"}

-----------------------------------------------------------------------------
(* What the offers of a session say.                                       *)

LEMMA OfferSaysRow ==
    ASSUME JukeboxInv, NEW s \in Sessions, NEW t \in Tracks
    PROVE  /\ OfferOf(s, t) = "waiting" <=> t \in Range(queue[s])
           /\ OfferOf(s, t) = "heard" <=> t \in played[s]
           /\ OfferOf(s, t) = "out" <=> t \notin InSession(s)
BY QueueFacts DEF OfferOf, InSession

\* The offers follow from the tracks with a row.
LEMMA OffersKept ==
    ASSUME NEW s \in Sessions, Range(queue'[s]) = Range(queue[s]), played'[s] = played[s]
    PROVE  OffersOf(s)' = OffersOf(s)
BY DEF OffersOf, OfferOf

\* A step that gives some tracks of one session a new offer.
LEMMA Moved ==
    ASSUME NEW s \in Sessions, NEW T \in SUBSET Tracks, NEW to,
           \A t \in Tracks : OfferOf(s, t)' = IF t \in T THEN to ELSE OfferOf(s, t),
           \A x \in Sessions : x # s => OffersOf(x)' = OffersOf(x),
           Gone' = Gone
    PROVE  Offers!Move(s, T, to)
<1> DEFINE old == [x \in Sessions |-> [t \in Tracks |-> OfferOf(x, t)]]
           new == [x \in Sessions |-> [t \in Tracks |-> OfferOf(x, t)']]
<1>1. \A x \in Sessions : x # s => new[x] = old[x]
  BY DEF OffersOf
<1>2. new[s] = [t \in Tracks |-> IF t \in T THEN to ELSE old[s][t]]
  OBVIOUS
<1>3. new = [old EXCEPT ![s] = [t \in Tracks |-> IF t \in T THEN to ELSE @[t]]]
  BY <1>1, <1>2
<1>4. Gone = {t \in Tracks : visibility[t] = "deleted"}
      /\ Gone' = {t \in Tracks : visibility'[t] = "deleted"}
  BY DEF Gone
<1> QED
  BY <1>3, <1>4 DEF Offers!Move
\* A step that changes the rows of one session, and deletes no track.
LEMMA OneSession ==
    ASSUME JukeboxInv, NEW s \in Sessions, NEW w, NEW P, visibility' = visibility,
           queue' = [queue EXCEPT ![s] = w], played' = [played EXCEPT ![s] = P]
    PROVE  /\ queue'[s] = w /\ played'[s] = P /\ Gone' = Gone
           /\ \A x \in Sessions : x # s => OffersOf(x)' = OffersOf(x)
<1>1. /\ queue'[s] = w /\ played'[s] = P
      /\ \A x \in Sessions : x # s => queue'[x] = queue[x] /\ played'[x] = played[x]
  BY QueueFacts
<1>2. \A x \in Sessions : x # s => OffersOf(x)' = OffersOf(x)
  BY <1>1, OffersKept
<1> QED
  BY <1>1, <1>2 DEF Gone

-----------------------------------------------------------------------------
(* Each step of the service.                                               *)

LEMMA RowsPlayedHears ==
    ASSUME JukeboxInv, NEW s \in Sessions, RowsPlayed(s), visibility' = visibility
    PROVE  \E T \in SUBSET Tracks : Offers!Hear(s, T)
<1>1. PICK w \in Seq(Tracks), F \in SUBSET Range(queue[s]) :
        /\ queue' = [queue EXCEPT ![s] = w]
        /\ played' = [played EXCEPT ![s] = played[s] \cup F]
        /\ Range(w) = Range(queue[s]) \ F
  BY DEF RowsPlayed
<1>2. PICK P : P = played[s] \cup F
  OBVIOUS
<1>3. F \in SUBSET Tracks
  BY QueueFacts
<1>4. /\ queue'[s] = w /\ played'[s] = P /\ Gone' = Gone
      /\ \A x \in Sessions : x # s => OffersOf(x)' = OffersOf(x)
  BY <1>1, <1>2, OneSession
<1>5. ASSUME NEW t \in Tracks
      PROVE  OfferOf(s, t)' = IF t \in F THEN "heard" ELSE OfferOf(s, t)
  BY <1>1, <1>2, <1>4, QueueFacts DEF OfferOf
<1>6. Offers!Move(s, F, "heard")
  BY <1>3, <1>4, <1>5, Moved
<1>7. F \subseteq Offers!Waiting(s)
  BY <1>1, <1>3, OfferSaysRow DEF Offers!Waiting
<1> QED
  BY <1>3, <1>6, <1>7 DEF Offers!Hear

LEMMA ClearWithdraws ==
    ASSUME JukeboxInv, NEW r \in Requests, ClearUnplayed(r)
    PROVE  \E s \in Sessions : Offers!Withdraw(s)
<1>1. PICK s \in Sessions : s = request[r].session
  BY InvariantFacts DEF ClearUnplayed, Shaped
<1>2. PICK w : w = <<>> /\ Range(w) = {}
  BY DEF Range
<1>3. PICK T : T = Range(queue[s]) /\ T \in SUBSET Tracks
  BY QueueFacts
<1>4. /\ queue' = [queue EXCEPT ![s] = w] /\ visibility' = visibility
      /\ played' = [played EXCEPT ![s] = played[s]]
  BY <1>1, <1>2, QueueFacts DEF ClearUnplayed
<1>5. /\ queue'[s] = w /\ played'[s] = played[s] /\ Gone' = Gone
      /\ \A x \in Sessions : x # s => OffersOf(x)' = OffersOf(x)
  BY <1>4, OneSession
<1>6. ASSUME NEW t \in Tracks
      PROVE  OfferOf(s, t)' = IF t \in T THEN "out" ELSE OfferOf(s, t)
  BY <1>2, <1>3, <1>5, QueueFacts DEF OfferOf
<1>7. Offers!Move(s, T, "out")
  BY <1>3, <1>5, <1>6, Moved
<1>8. T = Offers!Waiting(s)
  BY <1>3, OfferSaysRow DEF Offers!Waiting
<1> QED
  BY <1>7, <1>8 DEF Offers!Withdraw

\* A pick that is new is offered; any other leaves the rows as they are.
LEMMA InsertOffers ==
    ASSUME JukeboxInv, NEW r \in Requests, InsertPick(r)
    PROVE  \/ \E s \in Sessions, t \in Tracks : Offers!Offer(s, t)
           \/ UNCHANGED <<visibility, queue, played>>
<1>1. PICK n : n = request[r] /\ Shaped(n) /\ n \in RequestRecord
  BY InvariantFacts
<1>2. n.session \in Sessions /\ n.picks # <<>> /\ n.picks \in Seq(Tracks)
  BY <1>1 DEF InsertPick, Shaped, RequestRecord
<1>3. PICK s \in Sessions, t \in Tracks : s = n.session /\ t = Head(n.picks)
  BY <1>2
<1>4. PICK w : w = IF IsNew(s, t) THEN Append(queue[s], t) ELSE queue[s]
  OBVIOUS
<1>5. /\ queue' = [queue EXCEPT ![s] = w] /\ visibility' = visibility
      /\ played' = [played EXCEPT ![s] = played[s]] /\ played' = played
  BY <1>1, <1>3, <1>4, QueueFacts DEF InsertPick
<1>6. CASE ~IsNew(s, t)
  BY <1>4, <1>5, <1>6, QueueFacts
<1>7. CASE IsNew(s, t)
  <2>1. t \notin Range(queue[s]) /\ t \notin played[s] /\ visibility[t] # "deleted"
    BY <1>7 DEF IsNew, InSession
  <2>2. Range(w) = Range(queue[s]) \cup {t}
    BY <1>4, <1>7, <2>1, OneAppended, QueueFacts
  <2>3. /\ queue'[s] = w /\ played'[s] = played[s] /\ Gone' = Gone
        /\ \A x \in Sessions : x # s => OffersOf(x)' = OffersOf(x)
    BY <1>5, OneSession
  <2>4. ASSUME NEW u \in Tracks
        PROVE  OfferOf(s, u)' = IF u \in {t} THEN "waiting" ELSE OfferOf(s, u)
    BY <2>1, <2>2, <2>3 DEF OfferOf
  <2>5. Offers!Move(s, {t}, "waiting")
    BY <2>3, <2>4, Moved
  <2>6. OfferOf(s, t) = "out"
    BY <2>1 DEF OfferOf
  <2> QED
    BY <2>1, <2>5, <2>6 DEF Offers!Offer
<1> QED
  BY <1>6, <1>7
LEMMA DeleteDeletes ==
    ASSUME JukeboxInv, NEW t \in Tracks, DeleteTrack(t)
    PROVE  Offers!Delete(t)
<1> DEFINE old == [s \in Sessions |-> [u \in Tracks |-> OfferOf(s, u)]]
           new == [s \in Sessions |-> [u \in Tracks |-> OfferOf(s, u)']]
<1>1. visibility \in [Tracks -> {"public", "private", "deleted"}]
  BY DEF JukeboxInv, TablesHold, TablesTyped
<1>2. ASSUME NEW s \in Sessions
      PROVE  Range(queue'[s]) = Range(queue[s]) \ {t} /\ played'[s] = played[s] \ {t}
  <2>1. queue[s] \in Seq(Tracks) /\ IsInjective(queue[s])
    BY QueueFacts
  <2>2. Range(RemoveFirst(queue[s], t)) = Range(queue[s]) \ {t}
    BY <2>1, OneRemoved
  <2> QED
    BY <2>2 DEF DeleteTrack
<1>3. ASSUME NEW s \in Sessions, NEW u \in Tracks
      PROVE  OfferOf(s, u)' = IF u = t THEN "out" ELSE OfferOf(s, u)
  BY <1>2 DEF OfferOf
<1>4. new = [s \in Sessions |-> [old[s] EXCEPT ![t] = "out"]]
  BY <1>3
<1>5. t \notin Gone /\ Gone' = Gone \cup {t}
  BY <1>1 DEF DeleteTrack, Gone
<1>6. Gone = {u \in Tracks : visibility[u] = "deleted"}
      /\ Gone' = {u \in Tracks : visibility'[u] = "deleted"}
  BY DEF Gone
<1> QED
  BY <1>4, <1>5, <1>6 DEF Offers!Delete

\* The offers follow from the rows and from what is deleted.
LEMMA NothingMoves ==
    ASSUME UNCHANGED <<queue, played>>, Gone' = Gone
    PROVE  UNCHANGED Offers!vars
<1>1. \A s \in Sessions, t \in Tracks : OfferOf(s, t)' = OfferOf(s, t)
  BY DEF OfferOf
<1>2. Gone = {u \in Tracks : visibility[u] = "deleted"}
      /\ Gone' = {u \in Tracks : visibility'[u] = "deleted"}
  BY DEF Gone
<1> QED
  BY <1>1, <1>2 DEF Offers!vars

-----------------------------------------------------------------------------
(* The refinement.                                                         *)

LEMMA OffersInit == Init => Offers!Init
<1> SUFFICES ASSUME Init PROVE Offers!Init
  OBVIOUS
<1>1. PICK nil : nil = <<>> /\ Range(nil) = {}
  BY DEF Range
<1>2. \A s \in Sessions, t \in Tracks : OfferOf(s, t) = "out"
  BY <1>1 DEF Init, OfferOf
<1>3. {t \in Tracks : visibility[t] = "deleted"} = {}
  BY DEF Init
<1> QED
  BY <1>2, <1>3 DEF Offers!Init

LEMMA RequestOffers ==
    ASSUME ConstantsAssumption, JukeboxInv, NEW r \in Requests, RequestStep(r)
    PROVE  [Offers!Next]_Offers!vars
<1>1. CASE MarkFirst(r) \/ MarkTrack(r)
  <2>1. PICK s \in Sessions : RowsPlayed(s)
    BY <1>1, MarkFirstPlays, MarkTrackPlays
  <2>2. visibility' = visibility
    BY <1>1 DEF MarkFirst, MarkTrack
  <2> QED
    BY <2>1, <2>2, RowsPlayedHears DEF Offers!Next
<1>2. CASE ClearUnplayed(r)
  BY <1>2, ClearWithdraws DEF Offers!Next
<1>3. CASE UNCHANGED <<visibility, queue, played>>
  BY <1>3, NothingMoves DEF Gone
<1>4. CASE InsertPick(r)
  BY <1>3, <1>4, InsertOffers DEF Offers!Next
<1>5. CASE \/ \E m \in Modes : FindReusable(r, m)
           \/ EndStale(r)
           \/ \E s \in Sessions : CreateSession(r, s)
           \/ \E s \in Sessions, n \in 0..Window : LoadForNext(r, s, n)
           \/ \E s \in Sessions, t \in Tracks \cup {NoTrack}, action \in Feedbacks :
                 LoadForFeedback(r, s, t, action)
           \/ SaveOptions(r) \/ IgnoreError(r) \/ CountUnplayed(r) \/ ChoosePicks(r) \/ Reply(r) \/ Abort(r)
  <2>1. UNCHANGED <<visibility, queue, played>>
    BY <1>5 DEF FindReusable, EndStale, CreateSession, LoadForNext, LoadForFeedback,
                SaveOptions, IgnoreError, CountUnplayed, ChoosePicks, Reply, Abort,
                rows
  <2> QED
    BY <1>3, <2>1
<1> QED
  BY <1>1, <1>2, <1>4, <1>5 DEF RequestStep

LEMMA OffersNext ==
    ASSUME ConstantsAssumption, JukeboxInv, [Next]_vars
    PROVE  [Offers!Next]_Offers!vars
<1>1. CASE \E r \in Requests : RequestStep(r)
  BY <1>1, RequestOffers
<1>2. CASE \E t \in Unsteady : DeleteTrack(t)
  BY <1>2, DeleteDeletes DEF Offers!Next, ConstantsAssumption
<1>3. CASE \/ ResetOptions \/ UNCHANGED vars
           \/ \E s \in Sessions, t \in Tracks : RowAges(s, t)
  <2>1. UNCHANGED <<visibility, queue, played>>
    BY <1>3 DEF ResetOptions, RowAges, vars, rows
  <2> QED
    BY <2>1, NothingMoves DEF Gone
<1>4. CASE \E t \in Unsteady, v \in {"public", "private"} : SetVisibility(t, v)
  <2>1. PICK t \in Tracks, v \in {"public", "private"} : SetVisibility(t, v)
    BY <1>4 DEF ConstantsAssumption
  <2>2. visibility \in [Tracks -> {"public", "private", "deleted"}]
    BY DEF JukeboxInv, TablesHold, TablesTyped
  <2>3. UNCHANGED <<queue, played>> /\ Gone' = Gone
    BY <2>1, <2>2 DEF SetVisibility, rows, Gone
  <2> QED
    BY <2>3, NothingMoves
<1> QED
  BY <1>1, <1>2, <1>3, <1>4 DEF Next

\* Whatever requests, resets and the library do to the rows of the sessions,
\* every track of every session goes through the offers of TrackOffers, for
\* any number of requests, sessions and tracks.
THEOREM JukeboxImplementsOffers == Spec => ImplementsOffers
<1>1. JukeboxInv /\ [Next]_vars => [Offers!Next]_Offers!vars
  BY ConstantsAssumption, OffersNext
<1> QED
  BY <1>1, OffersInit, JukeboxInvariant, PTL DEF Spec, ImplementsOffers, Offers!Spec
=============================================================================
