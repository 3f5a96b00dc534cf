------------------------- MODULE JukeboxBoundsProofs -------------------------
(***************************************************************************)
(* The limits of what concurrent requests do to each other: starts that    *)
(* race open at most one session each, and requests that fill one queue at *)
(* the same time leave at most one window of tracks for each of them.      *)
(***************************************************************************)
EXTENDS JukeboxQueueProofs

-----------------------------------------------------------------------------
(* The sessions starts have opened and are about to open.                  *)

Creators(m) == {r \in Requests : request[r].pc = "create" /\ request[r].mode = m}

StartsCounted(m) ==
    /\ IsFiniteSet(ActiveOf(m))
    /\ Cardinality(ActiveOf(m)) + Cardinality(Creators(m)) <= Cardinality(Requests)

LEMMA CreatorsFinite ==
    ASSUME ConstantsAssumption, NEW m
    PROVE  /\ IsFiniteSet(Creators(m)) /\ Cardinality(Creators(m)) \in Nat
           /\ Cardinality(Requests) \in Nat
           /\ Cardinality(Creators(m)) <= Cardinality(Requests)
<1>1. IsFiniteSet(Requests) /\ Creators(m) \in SUBSET Requests
  BY DEF ConstantsAssumption, Creators
<1>2. IsFiniteSet(Creators(m)) /\ Cardinality(Creators(m)) <= Cardinality(Requests)
  BY <1>1, FS_Subset
<1> QED
  BY <1>1, <1>2, FS_CardinalityType

\* A step that opens no session, and after which no other request is about to.
LEMMA FewerStarts ==
    ASSUME ConstantsAssumption, NEW m, StartsCounted(m),
           ActiveOf(m)' \subseteq ActiveOf(m), Creators(m)' \subseteq Creators(m)
    PROVE  StartsCounted(m)'
<1>1. PICK A, C, D, E : A = ActiveOf(m) /\ C = ActiveOf(m)' /\ D = Creators(m) /\ E = Creators(m)'
  OBVIOUS
<1>2. IsFiniteSet(A) /\ IsFiniteSet(D) /\ C \in SUBSET A /\ E \in SUBSET D
      /\ Cardinality(A) + Cardinality(D) <= Cardinality(Requests) /\ Cardinality(Requests) \in Nat
  BY <1>1, CreatorsFinite DEF StartsCounted
<1>3. IsFiniteSet(C) /\ Cardinality(C) <= Cardinality(A)
  BY <1>2, FS_Subset
<1>4. IsFiniteSet(E) /\ Cardinality(E) <= Cardinality(D)
  BY <1>2, FS_Subset
<1>5. /\ Cardinality(A) \in Nat /\ Cardinality(C) \in Nat
      /\ Cardinality(D) \in Nat /\ Cardinality(E) \in Nat
  BY <1>2, <1>3, <1>4, FS_CardinalityType
<1>6. Cardinality(C) + Cardinality(E) <= Cardinality(Requests)
  BY <1>2, <1>3, <1>4, <1>5
<1> QED
  BY <1>1, <1>3, <1>6 DEF StartsCounted

\* A start that finds no session may create one: all the requests may.
LEMMA FindingCounts ==
    ASSUME ConstantsAssumption, JukeboxInv, NEW r \in Requests, NEW k \in Modes,
           FindReusable(r, k), NEW m \in Modes, StartsCounted(m)
    PROVE  StartsCounted(m)'
<1>1. request \in [Requests -> RequestRecord] /\ ActiveOf(m)' = ActiveOf(m)
  BY InvariantFacts DEF FindReusable, ActiveOf
<1>2. PICK x : /\ request' = [request EXCEPT ![r] = x]
               /\ x.pc = "create" => ActiveOf(k) = {} /\ x.mode = k
  <2>1. CASE ActiveOf(k) = {}
    BY <2>1, ZenonT(40) DEF FindReusable, IdleRequest
  <2>2. CASE ActiveOf(k) # {}
    <3>1. PICK s, o : request' = [request EXCEPT ![r] =
              [IdleRequest EXCEPT !.pc = "endStale", !.mode = k, !.session = s, !.options = o]]
      BY <2>2 DEF FindReusable
    <3>2. PICK x : x = [IdleRequest EXCEPT !.pc = "endStale", !.mode = k, !.session = s,
                                           !.options = o]
      OBVIOUS
    <3>3. x.pc = "endStale"
      BY <3>2 DEF IdleRequest
    <3> QED
      BY <3>1, <3>2, <3>3
  <2> QED
    BY <2>1, <2>2
<1>3. CASE x.pc = "create" /\ m = k
  <2>1. ActiveOf(m)' = {}
    BY <1>1, <1>2, <1>3
  <2>2. PICK C \in SUBSET Requests : C = Creators(m)'
    <3>1. Creators(m)' \in SUBSET Requests
      BY DEF Creators
    <3> QED
      BY <3>1
  <2>3. IsFiniteSet(C) /\ Cardinality(C) <= Cardinality(Requests)
    BY <2>2, FS_Subset DEF ConstantsAssumption
  <2>4. Cardinality(C) \in Nat /\ Cardinality(Requests) \in Nat
    BY <2>3, FS_CardinalityType DEF ConstantsAssumption
  <2>5. IsFiniteSet({}) /\ Cardinality({}) = 0
    BY FS_EmptySet
  <2> QED
    BY <2>1, <2>2, <2>3, <2>4, <2>5 DEF StartsCounted
<1>4. CASE ~(x.pc = "create" /\ m = k)
  <2>1. Creators(m)' \subseteq Creators(m)
    BY <1>1, <1>2, <1>4 DEF Creators
  <2> QED
    BY <1>1, <2>1, FewerStarts
<1> QED
  BY <1>3, <1>4

\* The creation of a session turns a request that was about to into a session.
LEMMA CreatingCounts ==
    ASSUME ConstantsAssumption, JukeboxInv, NEW r \in Requests, NEW s \in Sessions,
           CreateSession(r, s), NEW m \in Modes, StartsCounted(m)
    PROVE  StartsCounted(m)'
<1>1. PICK n : n = request[r] /\ n \in RequestRecord
               /\ request \in [Requests -> RequestRecord] /\ TablesTyped
  BY InvariantFacts
<1>2. /\ n.pc = "create" /\ status[s] = "none"
      /\ \A q \in Sessions : status'[q] = IF q = s THEN "active" ELSE status[q]
      /\ \A q \in Sessions : mode'[q] = IF q = s THEN n.mode ELSE mode[q]
      /\ \A q \in Requests : q # r => request'[q] = request[q]
      /\ request'[r].pc = "count"
  BY <1>1 DEF CreateSession, TablesTyped, RequestRecord
<1>3. CASE m = n.mode
  <2>1. PICK A, D : A = ActiveOf(m) /\ D = Creators(m)
    OBVIOUS
  <2>2. ActiveOf(m)' = A \cup {s} /\ s \notin A
    BY <1>2, <1>3, <2>1 DEF ActiveOf
  <2>3. Creators(m)' = D \ {r} /\ r \in D
    BY <1>1, <1>2, <1>3, <2>1 DEF Creators
  <2>4. IsFiniteSet(A) /\ Cardinality(A) + Cardinality(D) <= Cardinality(Requests)
        /\ IsFiniteSet(D) /\ Cardinality(D) \in Nat
    BY <2>1, CreatorsFinite DEF StartsCounted
  <2>5. IsFiniteSet(A \cup {s}) /\ Cardinality(A \cup {s}) = Cardinality(A) + 1
    BY <2>2, <2>4, FS_AddElement
  <2>6. Cardinality(D \ {r}) = Cardinality(D) - 1
    BY <2>3, <2>4, FS_RemoveElement
  <2>7. Cardinality(A) \in Nat
    BY <2>4, FS_CardinalityType
  <2>8. Cardinality(A \cup {s}) + Cardinality(D \ {r}) <= Cardinality(Requests)
    BY <2>4, <2>5, <2>6, <2>7
  <2> QED
    BY <2>2, <2>3, <2>5, <2>8 DEF StartsCounted
<1>4. CASE m # n.mode
  <2>1. ActiveOf(m)' \subseteq ActiveOf(m)
    BY <1>2, <1>4 DEF ActiveOf
  <2>2. Creators(m)' \subseteq Creators(m)
    BY <1>2 DEF Creators
  <2> QED
    BY <2>1, <2>2, FewerStarts
<1> QED
  BY <1>3, <1>4

LEMMA StartsKept ==
    ASSUME ConstantsAssumption, JukeboxInv, [Next]_vars, NEW m \in Modes, StartsCounted(m)
    PROVE  StartsCounted(m)'
<1>1. ASSUME NEW r \in Requests, RequestStep(r) PROVE StartsCounted(m)'
  <2>1. CASE \E k \in Modes : FindReusable(r, k)
    BY <2>1, FindingCounts
  <2>2. CASE \E s \in Sessions : CreateSession(r, s)
    BY <2>2, CreatingCounts
  <2>3. CASE /\ ~\E k \in Modes : FindReusable(r, k)
             /\ ~\E s \in Sessions : CreateSession(r, s)
    <3>1. Creators(m)' \subseteq Creators(m)
      BY <1>1, <2>3, OneAtATime, StepsTo DEF Creators
    <3>2. CASE EndStale(r)
      <4>1. ActiveOf(m)' \subseteq ActiveOf(m)
        BY <3>2, EndStaleFacts
      <4> QED
        BY <3>1, <4>1, FewerStarts
    <3>3. CASE ~EndStale(r)
      <4>1. UNCHANGED <<status, mode>>
        BY <1>1, <2>3, <3>3
        DEF RequestStep, LoadForNext, MarkFirst, LoadForFeedback, SaveOptions, MarkTrack,
            ClearUnplayed, IgnoreError, CountUnplayed, ChoosePicks, InsertPick, Reply, Abort
      <4>2. ActiveOf(m)' = ActiveOf(m)
        BY <4>1 DEF ActiveOf
      <4> QED
        BY <3>1, <4>2, FewerStarts
    <3> QED
      BY <3>2, <3>3
  <2> QED
    BY <2>1, <2>2, <2>3
<1>2. CASE UNCHANGED <<status, mode, request>>
  <2>1. ActiveOf(m)' = ActiveOf(m) /\ Creators(m)' = Creators(m)
    BY <1>2 DEF ActiveOf, Creators
  <2> QED
    BY <2>1, FewerStarts
<1> QED
  BY <1>1, <1>2 DEF Next, ResetOptions, RowAges, SetVisibility, DeleteTrack, vars

LEMMA StartsInit == ASSUME ConstantsAssumption, Init, NEW m \in Modes PROVE StartsCounted(m)
<1>1. ActiveOf(m) = {} /\ Creators(m) = {}
  BY DEF Init, ActiveOf, Creators, IdleRequest
<1>2. IsFiniteSet({}) /\ Cardinality({}) = 0
  BY FS_EmptySet
<1>3. Cardinality(Requests) \in Nat
  BY FS_CardinalityType DEF ConstantsAssumption
<1> QED
  BY <1>1, <1>2, <1>3 DEF StartsCounted

\* Starts that race, however many, and whatever sessions of other modes there
\* are, leave no more active sessions of a mode than there are requests.
THEOREM StartsAreBounded == Spec => []SessionsBounded
<1> DEFINE Counted == \A m \in Modes : StartsCounted(m)
<1>1. Init => Counted
  BY ConstantsAssumption, StartsInit
<1>2. JukeboxInv /\ Counted /\ [Next]_vars => Counted'
  BY ConstantsAssumption, StartsKept
<1>3. Counted => SessionsBounded
  <2> SUFFICES ASSUME Counted, NEW m \in Modes
               PROVE  Cardinality(ActiveOf(m)) <= Cardinality(Requests)
    BY DEF SessionsBounded
  <2>1. PICK a, b, c : a = Cardinality(ActiveOf(m)) /\ b = Cardinality(Creators(m))
                       /\ c = Cardinality(Requests)
    OBVIOUS
  <2>2. a \in Nat /\ b \in Nat /\ c \in Nat /\ a + b <= c
    BY <2>1, ConstantsAssumption, CreatorsFinite, FS_CardinalityType DEF StartsCounted
  <2> QED
    BY <2>1, <2>2
<1> QED
  BY JukeboxInvariant, <1>1, <1>2, <1>3, PTL DEF Spec
-----------------------------------------------------------------------------
(* The rows a session has and those the requests will still insert.        *)

\* The rows a request may still insert into session s.
Pending(s, n) ==
    IF n.session # s THEN 0
    ELSE IF n.pc = "pick" THEN n.count
    ELSE IF n.pc = "insert" THEN Len(n.picks)
    ELSE 0

PicksFit == \A r \in Requests : request[r].pc = "insert" => Len(request[r].picks) <= Window

\* One place in the window of a request for each of them.
Places == Requests \X (1..Window)
Promised(s) == {x \in Places : x[2] <= Pending(s, request[x[1]])}

RowsCounted(s) ==
    Len(queue[s]) + Cardinality(Promised(s)) <= Window * Cardinality(Requests)

LEMMA PlacesFinite ==
    ASSUME ConstantsAssumption
    PROVE  /\ IsFiniteSet(Places) /\ Cardinality(Places) = Window * Cardinality(Requests)
           /\ Cardinality(Places) \in Nat
<1>1. PICK W \in Nat \ {0} : W = Window
  BY DEF ConstantsAssumption
<1>2. IsFiniteSet(1..W) /\ Cardinality(1..W) = W
  BY FS_Interval
<1>3. IsFiniteSet(Requests) /\ Cardinality(Requests) \in Nat
  BY FS_CardinalityType DEF ConstantsAssumption
<1>4. /\ IsFiniteSet(Requests \X (1..W))
      /\ Cardinality(Requests \X (1..W)) = Cardinality(Requests) * Cardinality(1..W)
  BY <1>2, <1>3, FS_Product
<1>5. Cardinality(Requests) * W = W * Cardinality(Requests)
      /\ Cardinality(Requests) * W \in Nat
  BY <1>3
<1> QED
  BY <1>1, <1>2, <1>4, <1>5 DEF Places

LEMMA PromisedFinite ==
    ASSUME ConstantsAssumption, NEW s
    PROVE  IsFiniteSet(Promised(s)) /\ Cardinality(Promised(s)) \in Nat
<1>1. Promised(s) \in SUBSET Places
  BY DEF Promised
<1>2. IsFiniteSet(Promised(s))
  BY <1>1, PlacesFinite, FS_Subset
<1> QED
  BY <1>2, FS_CardinalityType

\* A step that makes the queue no longer and promises nothing.
LEMMA FewerRows ==
    ASSUME ConstantsAssumption, JukeboxInv, JukeboxInv', NEW s \in Sessions, RowsCounted(s),
           Len(queue'[s]) <= Len(queue[s]), Promised(s)' \subseteq Promised(s)
    PROVE  RowsCounted(s)'
<1>1. PICK A, C : A = Promised(s) /\ C = Promised(s)'
  OBVIOUS
<1>2. IsFiniteSet(A) /\ C \in SUBSET A
  BY <1>1, PromisedFinite
<1>3. IsFiniteSet(C) /\ Cardinality(C) <= Cardinality(A)
  BY <1>2, FS_Subset
<1>4. Cardinality(A) \in Nat /\ Cardinality(C) \in Nat
  BY <1>2, <1>3, FS_CardinalityType
<1>5. PICK a, b, w : a = Len(queue[s]) /\ b = Len(queue'[s]) /\ w = Window * Cardinality(Requests)
  OBVIOUS
<1>6. a \in Nat /\ b \in Nat /\ w \in Nat
  <2>1. queue[s] \in Seq(Tracks)
    BY QueueFacts
  <2>2. queue'[s] \in Seq(Tracks)
    BY DEF JukeboxInv, TablesHold, TablesTyped
  <2> QED
    BY <1>5, <2>1, <2>2, PlacesFinite
<1>7. a + Cardinality(A) <= w /\ b <= a
  BY <1>1, <1>5 DEF RowsCounted
<1>8. b + Cardinality(C) <= w
  BY <1>3, <1>4, <1>6, <1>7
<1> QED
  BY <1>1, <1>5, <1>8 DEF RowsCounted
LEMMA PendingType ==
    ASSUME ConstantsAssumption, NEW s, NEW n \in RequestRecord
    PROVE  Pending(s, n) \in Nat
BY DEF ConstantsAssumption, Pending, RequestRecord

\* A step of request r after which it promises no more than before.
LEMMA PromisesLess ==
    ASSUME ConstantsAssumption, JukeboxInv, JukeboxInv', NEW r \in Requests, NEW s,
           \A q \in Requests : q # r => request'[q] = request[q],
           Pending(s, request'[r]) <= Pending(s, request[r])
    PROVE  Promised(s)' \subseteq Promised(s)
<1>1. request[r] \in RequestRecord /\ request'[r] \in RequestRecord
  BY DEF JukeboxInv
<1>2. Pending(s, request[r]) \in Nat /\ Pending(s, request'[r]) \in Nat
  BY <1>1, PendingType
<1>3. Window \in Nat
  BY DEF ConstantsAssumption
<1>4. ASSUME NEW x \in Places, x[2] <= Pending(s, request'[x[1]])
      PROVE  x[2] <= Pending(s, request[x[1]])
  <2>1. x[1] \in Requests /\ x[2] \in Nat
    BY <1>3 DEF Places
  <2>2. CASE x[1] = r
    BY <1>2, <1>4, <2>1, <2>2
  <2>3. CASE x[1] # r
    BY <1>4, <2>1, <2>3
  <2> QED
    BY <2>2, <2>3
<1>5. Promised(s)' = {x \in Places : x[2] <= Pending(s, request'[x[1]])}
  BY DEF Promised, Pending, Places
<1> QED
  BY <1>4, <1>5 DEF Promised

LEMMA OthersLengthenNone ==
    ASSUME ConstantsAssumption, JukeboxInv, NEW r \in Requests, RequestStep(r),
           ~InsertPick(r), NEW s \in Sessions
    PROVE  Len(queue'[s]) <= Len(queue[s])
<1>1. PICK q \in Seq(Tracks) : q = queue[s] /\ IsInjective(q)
  BY QueueFacts
<1>2. CASE queue' = queue
  BY <1>1, <1>2
<1>3. CASE \E x \in Sessions : RowsPlayed(x)
  BY <1>1, <1>3, QueueFacts DEF RowsPlayed
<1>4. CASE MarkFirst(r) \/ MarkTrack(r)
  BY <1>3, <1>4, MarkFirstPlays, MarkTrackPlays
<1>5. CASE ClearUnplayed(r)
  <2>1. queue'[s] \in {q, <<>>}
    BY <1>1, <1>5, QueueFacts DEF ClearUnplayed
  <2> QED
    BY <1>1, <2>1
<1> QED
  BY <1>2, <1>4, <1>5
  DEF RequestStep, FindReusable, EndStale, CreateSession, LoadForNext, LoadForFeedback,
      SaveOptions, IgnoreError, CountUnplayed, ChoosePicks, Reply, Abort, rows
\* The count leaves, of the window of its own request, the places the rows take
\* that are there: all promises together fit into the others.
LEMMA CountingFits ==
    ASSUME ConstantsAssumption, JukeboxInv, JukeboxInv', NEW r \in Requests,
           CountUnplayed(r), NEW s \in Sessions, RowsCounted(s)
    PROVE  RowsCounted(s)'
<1>1. PICK n : n = request[r] /\ n \in RequestRecord /\ request \in [Requests -> RequestRecord]
               /\ Shaped(n)
  BY InvariantFacts
<1>2. n.pc = "count" /\ UNCHANGED queue /\ Pending(s, request[r]) = 0
  BY <1>1 DEF CountUnplayed, Pending, rows
<1>3. PICK k \in Nat, j \in Nat : k = Len(queue[s]) /\ j = Len(queue[n.session])
  BY <1>1, <1>2, QueueFacts DEF Shaped
<1>4. \A q \in Requests : q # r => request'[q] = request[q]
  BY <1>1 DEF CountUnplayed
<1>5. CASE Pending(s, request'[r]) = 0
  <2>1. Promised(s)' \subseteq Promised(s)
    BY <1>2, <1>4, <1>5, PromisesLess
  <2> QED
    BY <1>2, <1>3, <2>1, FewerRows
<1>6. CASE Pending(s, request'[r]) # 0
  <2>1. PICK W \in Nat \ {0} : W = Window
    BY DEF ConstantsAssumption
  <2>2. ~(j >= Window)
    <3>1. CASE j >= Window
      <4>1. request'[r] = Answering(r)
        BY <1>1, <1>3, <3>1 DEF CountUnplayed
      <4> QED
        BY <1>6, <4>1 DEF Answering, IdleRequest, Pending
    <3> QED
      BY <3>1
  <2>3. PICK m : m = [n EXCEPT !.pc = "pick", !.count = W - j] /\ m = request'[r]
    BY <1>1, <1>3, <2>1, <2>2 DEF CountUnplayed
  <2>4. m.session = n.session /\ m.pc = "pick" /\ m.count = W - j
    BY <1>1, <2>3 DEF RequestRecord
  <2>5. n.session = s /\ j = k /\ k < W /\ Pending(s, request'[r]) = W - k
    BY <1>3, <1>6, <2>1, <2>2, <2>3, <2>4 DEF Pending
  <2>6. PICK D : D = {r} \X ((W - k + 1)..W)
    OBVIOUS
  <2>7. PICK C : C = Promised(s)'
    OBVIOUS
  <2>8. \A x \in C : x \in Places /\ x[2] <= Pending(s, request'[x[1]])
    BY <2>7 DEF Promised, Pending, Places
  <2>9. C \in SUBSET Places /\ D \in SUBSET Places
    BY <2>1, <2>5, <2>6, <2>8 DEF Places
  <2>10. C \cap D = {}
    <3>1. ASSUME NEW x \in C, x \in D PROVE FALSE
      <4>1. x[1] = r /\ x[2] \in (W - k + 1)..W /\ x[2] <= W - k
        BY <2>5, <2>6, <2>8, <3>1
      <4> QED
        BY <4>1
    <3> QED
      BY <3>1
  <2>11. IsFiniteSet(D) /\ Cardinality(D) = k
    <3>1. IsFiniteSet((W - k + 1)..W) /\ Cardinality((W - k + 1)..W) = k
      <4>1. W - k + 1 \in Int /\ W \in Int
        OBVIOUS
      <4>2. /\ IsFiniteSet((W - k + 1)..W)
            /\ Cardinality((W - k + 1)..W) =
                  IF W - k + 1 > W THEN 0 ELSE W - (W - k + 1) + 1
        BY <4>1, FS_Interval, Zenon
      <4> QED
        BY <4>2
    <3>2. IsFiniteSet({r}) /\ Cardinality({r}) = 1
      BY FS_Singleton
    <3>3. IsFiniteSet(D) /\ Cardinality(D) = Cardinality({r}) * Cardinality((W - k + 1)..W)
      BY <2>6, <3>1, <3>2, FS_Product
    <3> QED
      BY <3>1, <3>2, <3>3
  <2>12. IsFiniteSet(C) /\ IsFiniteSet(Places)
    BY <2>9, PlacesFinite, FS_Subset
  <2>13. Cardinality(C \cup D) = Cardinality(C) + Cardinality(D) - Cardinality({})
    BY <2>10, <2>11, <2>12, FS_Union
  <2>14. Cardinality(C \cup D) <= Cardinality(Places)
    <3>1. C \cup D \in SUBSET Places
      BY <2>9
    <3> QED
      BY <2>12, <3>1, FS_Subset
  <2>15. Cardinality({}) = 0 /\ Cardinality(C) \in Nat
    BY <2>12, FS_EmptySet, FS_CardinalityType
  <2>16. k + Cardinality(C) <= Cardinality(Places)
    BY <2>11, <2>13, <2>14, <2>15
  <2> QED
    BY <1>2, <1>3, <2>7, <2>16, PlacesFinite DEF RowsCounted
<1> QED
  BY <1>5, <1>6

\* What was promised is picked, at most.
LEMMA PickingFits ==
    ASSUME ConstantsAssumption, JukeboxInv, JukeboxInv', NEW r \in Requests, ChoosePicks(r)
    PROVE  /\ \A s \in Sessions : Pending(s, request'[r]) <= Pending(s, request[r])
           /\ request'[r].pc = "insert" => Len(request'[r].picks) <= Window
<1>0. PICK n : n = request[r] /\ Shaped(n) /\ n \in RequestRecord
  BY InvariantFacts
<1>1. n.pc = "pick" /\ n.count \in 0..Window /\ Window \in Nat
  BY <1>0 DEF ChoosePicks, RequestRecord, ConstantsAssumption
<1>2. PICK R \in SUBSET Tracks : \E p \in Picks(R, n.count) :
        request' = [request EXCEPT ![r] =
            IF p = <<>> THEN Answering(r)
            ELSE [@ EXCEPT !.pc = "insert", !.picks = p, !.count = 0]]
  <2>1. PICK K \in Liked(mode[n.session], n.options), limited \in SUBSET Tracks :
          \E p \in Picks(Ranked(Admitted(n.session, n.options) \cap K, limited), n.count) :
              request' = [request EXCEPT ![r] =
                  IF p = <<>> THEN Answering(r)
                  ELSE [@ EXCEPT !.pc = "insert", !.picks = p, !.count = 0]]
    BY <1>0 DEF ChoosePicks
  <2>2. PICK R : R = Ranked(Admitted(n.session, n.options) \cap K, limited)
    OBVIOUS
  <2>3. R \in SUBSET Tracks
    BY <2>2 DEF Ranked, Admitted, Candidates
  <2> QED
    BY <2>1, <2>2, <2>3
<1>3. PICK p \in Picks(R, n.count) :
        request' = [request EXCEPT ![r] =
            IF p = <<>> THEN Answering(r)
            ELSE [@ EXCEPT !.pc = "insert", !.picks = p, !.count = 0]]
  BY <1>2
<1>4. Len(p) <= n.count /\ Len(p) \in Nat
  <2>1. Cardinality(R) \in Nat
    BY FS_Subset, FS_CardinalityType DEF ConstantsAssumption
  <2>2. PICK c \in Nat : c = (IF n.count <= Cardinality(R) THEN n.count ELSE Cardinality(R))
                         /\ c <= n.count
    BY <1>1, <2>1
  <2>3. p \in [1..c -> R]
    BY <2>2 DEF Picks
  <2> QED
    BY <2>2, <2>3
<1>5. CASE p = <<>>
  <2>1. request'[r].pc = "reply"
    BY <1>0, <1>3, <1>5, InvariantFacts DEF Answering, IdleRequest
  <2>2. \A s \in Sessions : Pending(s, request'[r]) = 0
    BY <2>1 DEF Pending
  <2>3. \A s \in Sessions : Pending(s, request[r]) \in Nat
    BY <1>0, PendingType
  <2> QED
    BY <2>1, <2>2, <2>3
<1>6. CASE p # <<>>
  <2>1. PICK m : m = [n EXCEPT !.pc = "insert", !.picks = p, !.count = 0] /\ m = request'[r]
    BY <1>0, <1>3, <1>6, InvariantFacts
  <2>2. m.pc = "insert" /\ m.session = n.session /\ m.picks = p
    BY <1>0, <2>1 DEF RequestRecord
  <2>3. \A s \in Sessions : Pending(s, m) <= Pending(s, n)
    BY <1>1, <1>4, <2>2 DEF Pending
  <2> QED
    BY <1>0, <1>1, <1>4, <2>1, <2>2, <2>3
<1> QED
  BY <1>5, <1>6
\* After an insert a request promises one row less.
LEMMA InsertingPromises ==
    ASSUME ConstantsAssumption, JukeboxInv, NEW r \in Requests, InsertPick(r)
    PROVE  /\ request[r].pc = "insert" /\ Len(request[r].picks) \in Nat \ {0}
           /\ request'[r].pc = "insert" =>
                  Len(request'[r].picks) = Len(request[r].picks) - 1
           /\ \A s \in Sessions :
                  /\ Pending(s, request'[r]) <= Pending(s, request[r])
                  /\ s = request[r].session =>
                        /\ Pending(s, request[r]) = Len(request[r].picks)
                        /\ Pending(s, request'[r]) <= Len(request[r].picks) - 1
<1>0. PICK n : n = request[r] /\ Shaped(n) /\ n \in RequestRecord
  BY InvariantFacts
<1>1. n.pc = "insert" /\ n.picks # <<>> /\ n.picks \in Seq(Tracks)
  BY <1>0 DEF InsertPick, Shaped, RequestRecord
<1>2. PICK rest : rest = Tail(n.picks)
  OBVIOUS
<1>3. PICK k \in Nat \ {0} : k = Len(n.picks) /\ Len(rest) = k - 1
  <2>1. Len(Tail(n.picks)) = Len(n.picks) - 1
    BY <1>1, HeadTailProperties, Zenon
  <2>2. Len(n.picks) \in Nat \ {0}
    BY <1>1
  <2> QED
    BY <1>2, <2>1, <2>2
<1>4. PICK v, m :
        /\ m = request'[r]
        /\ m = CASE v = "deleted" -> IdleRequest
                 [] v # "deleted" /\ rest = <<>> -> Answering(r)
                 [] OTHER -> [n EXCEPT !.picks = rest]
  BY <1>0, <1>2, InvariantFacts DEF InsertPick
<1>5. \A s \in Sessions : Pending(s, n) \in Nat /\ (s = n.session => Pending(s, n) = k)
  BY <1>0, <1>1, <1>3, PendingType DEF Pending
<1>6. CASE m.pc \in {"idle", "reply"}
  <2>1. \A s \in Sessions : Pending(s, m) = 0
    BY <1>6 DEF Pending
  <2> QED
    BY <1>0, <1>1, <1>3, <1>4, <1>5, <1>6, <2>1
<1>7. CASE m = [n EXCEPT !.picks = rest]
  <2>1. m.pc = "insert" /\ m.session = n.session /\ m.picks = rest
    BY <1>0, <1>1, <1>7 DEF RequestRecord
  <2>2. \A s \in Sessions : Pending(s, m) = IF s = n.session THEN k - 1 ELSE 0
    BY <1>3, <2>1 DEF Pending
  <2> QED
    BY <1>0, <1>1, <1>3, <1>4, <1>5, <2>1, <2>2
<1>8. IdleRequest.pc = "idle" /\ Answering(r).pc = "reply"
  BY DEF Answering, IdleRequest
<1>9. CASE v = "deleted"
  BY <1>4, <1>6, <1>8, <1>9
<1>10. CASE v # "deleted" /\ rest = <<>>
  BY <1>4, <1>6, <1>8, <1>10
<1>11. CASE v # "deleted" /\ rest # <<>>
  BY <1>4, <1>7, <1>11
<1> QED
  BY <1>9, <1>10, <1>11

LEMMA InsertingFits ==
    ASSUME ConstantsAssumption, JukeboxInv, JukeboxInv', PicksFit, NEW r \in Requests,
           InsertPick(r), NEW s \in Sessions, RowsCounted(s)
    PROVE  RowsCounted(s)'
<1>1. \A q \in Requests : q # r => request'[q] = request[q]
  BY OneAtATime DEF RequestStep
<1>2. Promised(s)' \subseteq Promised(s)
  BY <1>1, InsertingPromises, PromisesLess
<1>3. PICK n : n = request[r] /\ n \in RequestRecord
  BY InvariantFacts
<1>4. CASE s # n.session
  <2>1. queue'[s] = queue[s]
    BY <1>3, <1>4, QueueFacts DEF InsertPick
  <2>2. Len(queue[s]) \in Nat
    BY QueueFacts
  <2> QED
    BY <1>2, <2>1, <2>2, FewerRows
<1>5. CASE s = n.session
  <2>1. PICK k \in Nat \ {0} : k = Len(n.picks) /\ k <= Window
    BY <1>3, InsertingPromises DEF PicksFit
  <2>2. PICK a \in Nat, b \in Nat : a = Len(queue[s]) /\ b = Len(queue'[s]) /\ b <= a + 1
    <3>1. queue[s] \in Seq(Tracks)
      BY QueueFacts
    <3>2. PICK t \in Tracks : queue'[s] \in {queue[s], Append(queue[s], t)}
      <4>1. n.picks # <<>> /\ n.picks \in Seq(Tracks)
        BY <1>3, InvariantFacts DEF InsertPick, Shaped, RequestRecord
      <4>2. Head(n.picks) \in Tracks
        BY <4>1
      <4> QED
        BY <1>3, <1>5, <4>2, QueueFacts DEF InsertPick
    <3>3. Len(Append(queue[s], t)) = Len(queue[s]) + 1
      BY <3>1
    <3> QED
      BY <3>1, <3>2, <3>3
  <2>3. PICK A, C : A = Promised(s) /\ C = Promised(s)'
    OBVIOUS
  <2>4. <<r, k>> \in A
    <3>1. <<r, k>> \in Places
      BY <2>1 DEF Places
    <3>2. Pending(s, request[r]) = k
      BY <1>3, <1>5, <2>1, InsertingPromises
    <3> QED
      BY <2>1, <2>3, <3>1, <3>2 DEF Promised
  <2>5. <<r, k>> \notin C
    <3>1. Pending(s, request'[r]) <= k - 1
      BY <1>3, <1>5, <2>1, InsertingPromises
    <3>2. Pending(s, request'[r]) \in Nat
      BY PendingType DEF JukeboxInv
    <3>3. \A x \in C : x[2] <= Pending(s, request'[x[1]])
      BY <2>3 DEF Promised, Pending, Places
    <3>4. ~(k <= Pending(s, request'[r]))
      BY <3>1, <3>2
    <3> QED
      BY <3>3, <3>4
  <2>6. C \in SUBSET (A \ {<<r, k>>})
    BY <1>2, <2>3, <2>5
  <2>7. IsFiniteSet(A) /\ Cardinality(A) \in Nat
    BY <2>3, PromisedFinite
  <2>8. IsFiniteSet(A \ {<<r, k>>}) /\ Cardinality(A \ {<<r, k>>}) = Cardinality(A) - 1
    BY <2>4, <2>7, FS_RemoveElement
  <2>9. IsFiniteSet(C) /\ Cardinality(C) <= Cardinality(A) - 1
    BY <2>6, <2>8, FS_Subset
  <2>10. Cardinality(C) \in Nat
    BY <2>9, FS_CardinalityType
  <2>11. PICK w \in Nat : w = Window * Cardinality(Requests)
    BY PlacesFinite
  <2>12. a + Cardinality(A) <= w
    BY <2>2, <2>3, <2>11 DEF RowsCounted
  <2>13. b + Cardinality(C) <= w
    BY <2>2, <2>7, <2>9, <2>10, <2>11, <2>12
  <2> QED
    BY <2>2, <2>3, <2>11, <2>13 DEF RowsCounted
<1> QED
  BY <1>4, <1>5

LEMMA RequestRowsKept ==
    ASSUME ConstantsAssumption, JukeboxInv, JukeboxInv', PicksFit, NEW r \in Requests,
           RequestStep(r), NEW s \in Sessions, RowsCounted(s)
    PROVE  RowsCounted(s)' /\ PicksFit'
<1>1. CASE CountUnplayed(r)
  <2>1. request'[r].pc # "insert"
    BY <1>1, InvariantFacts DEF CountUnplayed, Answering, IdleRequest, RequestRecord
  <2> QED
    BY <1>1, <2>1, CountingFits, OneAtATime DEF PicksFit
<1>2. CASE ChoosePicks(r)
  <2>1. Len(queue'[s]) <= Len(queue[s])
    <3>1. queue' = queue /\ queue[s] \in Seq(Tracks)
      BY <1>2, QueueFacts DEF ChoosePicks, rows
    <3> QED
      BY <3>1
  <2>2. Promised(s)' \subseteq Promised(s)
    BY <1>2, OneAtATime, PickingFits, PromisesLess
  <2>3. RowsCounted(s)'
    BY <2>1, <2>2, FewerRows
  <2> QED
    BY <1>2, <2>3, OneAtATime, PickingFits DEF PicksFit
<1>3. CASE InsertPick(r)
  <2>1. request'[r].pc = "insert" => Len(request'[r].picks) <= Window
    <3>1. request[r].pc = "insert" /\ Len(request[r].picks) <= Window /\ Window \in Nat
      BY <1>3, InsertingPromises DEF PicksFit, ConstantsAssumption
    <3>2. PICK k \in Nat \ {0} : k = Len(request[r].picks)
      BY <1>3, InsertingPromises
    <3>3. request'[r].pc = "insert" => Len(request'[r].picks) = k - 1
      BY <1>3, <3>2, InsertingPromises
    <3> QED
      BY <3>1, <3>2, <3>3
  <2> QED
    BY <1>3, <2>1, InsertingFits, OneAtATime DEF PicksFit
<1>4. CASE ~CountUnplayed(r) /\ ~ChoosePicks(r) /\ ~InsertPick(r)
  <2>1. request'[r].pc \notin {"pick", "insert"}
    BY <1>4, StepsTo
  <2>2. Pending(s, request'[r]) = 0
    BY <2>1 DEF Pending
  <2>3. Pending(s, request[r]) \in Nat
    BY PendingType, InvariantFacts
  <2>4. Promised(s)' \subseteq Promised(s)
    BY <2>2, <2>3, OneAtATime, PromisesLess
  <2>5. RowsCounted(s)'
    BY <1>4, <2>4, OthersLengthenNone, FewerRows
  <2> QED
    BY <2>1, <2>5, OneAtATime DEF PicksFit
<1> QED
  BY <1>1, <1>2, <1>3, <1>4

LEMMA RowsKept ==
    ASSUME ConstantsAssumption, JukeboxInv, JukeboxInv', PicksFit, [Next]_vars,
           NEW s \in Sessions, RowsCounted(s)
    PROVE  RowsCounted(s)' /\ PicksFit'
<1>1. CASE \E r \in Requests : RequestStep(r)
  BY <1>1, RequestRowsKept
<1>2. CASE request' = request /\ Len(queue'[s]) <= Len(queue[s])
  <2>1. Promised(s)' = Promised(s)
    BY <1>2 DEF Promised, Pending, Places
  <2> QED
    BY <1>2, <2>1, FewerRows DEF PicksFit
<1>3. CASE UNCHANGED <<request, queue>>
  <2>1. Len(queue[s]) \in Nat
    BY QueueFacts
  <2> QED
    BY <1>2, <1>3, <2>1
<1>4. CASE \E t \in Unsteady : DeleteTrack(t)
  <2>1. PICK t : DeleteTrack(t)
    BY <1>4
  <2>2. PICK q \in Seq(Tracks) : q = queue[s] /\ IsInjective(q)
    BY QueueFacts
  <2>3. PICK w : w = RemoveFirst(q, t)
    OBVIOUS
  <2>4. queue'[s] = w /\ request' = request
    BY <2>1, <2>2, <2>3 DEF DeleteTrack
  <2>5. Len(w) <= Len(q)
    BY <2>2, <2>3, OneRemoved
  <2> QED
    BY <1>2, <2>2, <2>4, <2>5
<1> QED
  BY <1>1, <1>3, <1>4 DEF Next, ResetOptions, RowAges, SetVisibility, vars, rows

LEMMA RowsInit ==
    ASSUME ConstantsAssumption, Init, NEW s \in Sessions
    PROVE  RowsCounted(s) /\ PicksFit
<1>1. queue[s] = <<>> /\ \A r \in Requests : request[r].pc = "idle"
  BY DEF Init, IdleRequest
<1>2. Len(queue[s]) = 0
  BY <1>1
<1>3. \A r \in Requests : Pending(s, request[r]) = 0
  BY <1>1 DEF Pending
<1>4. Promised(s) = {}
  <2>1. Window \in Nat
    BY DEF ConstantsAssumption
  <2> QED
    BY <1>3, <2>1 DEF Promised, Places
<1>5. Cardinality({}) = 0
  BY FS_EmptySet
<1>6. Window * Cardinality(Requests) \in Nat
  BY PlacesFinite
<1> QED
  BY <1>1, <1>2, <1>4, <1>5, <1>6 DEF RowsCounted, PicksFit

\* However many requests fill the queue of one session at the same time, each
\* adds at most one window to it.
THEOREM WindowsAreBounded == Spec => []WindowBounded
<1> DEFINE Counted == PicksFit /\ \A s \in Sessions : RowsCounted(s)
<1>1. Init => \A s \in Sessions : RowsCounted(s)
  BY ConstantsAssumption, RowsInit
<1>2. Init => PicksFit
  BY DEF Init, IdleRequest, PicksFit
<1>3. JukeboxInv /\ JukeboxInv' /\ Counted /\ [Next]_vars => Counted'
  <2> SUFFICES ASSUME JukeboxInv, JukeboxInv', Counted, [Next]_vars PROVE Counted'
    OBVIOUS
  <2>1. \A s \in Sessions : RowsCounted(s)' /\ PicksFit'
    BY ConstantsAssumption, RowsKept
  <2>2. CASE Sessions # {}
    BY <2>1, <2>2
  <2>3. CASE Sessions = {}
    <3>1. ASSUME NEW r \in Requests PROVE request'[r].pc # "insert"
      BY <2>3 DEF JukeboxInv, Shaped
    <3> QED
      BY <2>3, <3>1 DEF PicksFit
  <2> QED
    BY <2>2, <2>3
<1>4. Counted /\ JukeboxInv => WindowBounded
  <2> SUFFICES ASSUME Counted, JukeboxInv, NEW s \in Sessions
               PROVE  Len(queue[s]) <= Window * Cardinality(Requests)
    BY DEF WindowBounded
  <2>1. PICK a, b, w : a = Len(queue[s]) /\ b = Cardinality(Promised(s))
                       /\ w = Window * Cardinality(Requests)
    OBVIOUS
  <2>2. a \in Nat /\ b \in Nat /\ w \in Nat /\ a + b <= w
    BY <2>1, ConstantsAssumption, PromisedFinite, PlacesFinite, QueueFacts DEF RowsCounted
  <2> QED
    BY <2>1, <2>2
<1> QED
  BY JukeboxInvariant, <1>1, <1>2, <1>3, <1>4, PTL DEF Spec
=============================================================================
